----------------------------- MODULE RequestGuards -----------------------------
(***************************************************************************)
(* Two tables the API server keeps in memory to bound what happens within  *)
(* a stretch of time: the composer's rate limiter, which counts a user's   *)
(* calls of the last minute (_InMemoryRateLimiter), and the nonces of the  *)
(* OAuth states that have come back (OAuthStateSigner), by which a consent *)
(* answered twice is recorded once.                                        *)
(*                                                                         *)
(* Both belong to one process.  The clock advances in whole units; both    *)
(* tables compare times only with a window, so the unit does not matter.   *)
(***************************************************************************)
EXTENDS Integers, Sequences, FiniteSets, SequencesExt

CONSTANTS PerMinute,      \* ai_composer_rate_per_minute
          Window,         \* the limiter's 60 s
          TTL,            \* ttl_seconds of a state, 600 s
          CacheSize,      \* nonce_cache_size, 10 000
          States,         \* the states users are given
          MaxTime         \* bound of the clock

ASSUME GuardAssumption ==
  PerMinute \in Nat /\ Window \in Nat /\ TTL \in Nat /\ CacheSize \in Nat \ {0} /\ IsFiniteSet(States)

VARIABLES now,
          bucket,         \* the limiter's deque, oldest first
          granted,        \* history: when a call was let through
          iat,            \* when each state was issued, -1 before
          seen,           \* the nonces used, in the order they came
          used            \* history: when each state was accepted

guardVars == <<now, bucket, granted, iat, seen, used>>

GuardInit ==
  /\ now = 0
  /\ bucket = <<>>
  /\ granted = <<>>
  /\ iat = [s \in States |-> -1]
  /\ seen = <<>>
  /\ used = [s \in States |-> <<>>]

Tick ==
  /\ now < MaxTime
  /\ now' = now + 1
  /\ UNCHANGED <<bucket, granted, iat, seen, used>>

(* A deque after popleft() while its oldest entry is not live. *)
FromFirst(s, Live(_)) ==
  LET live == {i \in 1..Len(s) : Live(s[i])}
  IN  IF live = {} THEN <<>>
      ELSE SubSeq(s, CHOOSE i \in live : \A j \in live : i <= j, Len(s))

(* A call is dropped from the bucket once it is older than the window. *)
InWindow(t) == now - t <= Window

(* acquire(): under the lock, so one step. *)
Acquire ==
  LET kept == FromFirst(bucket, InWindow)
  IN  /\ IF Len(kept) >= PerMinute
         THEN bucket' = kept /\ UNCHANGED granted
         ELSE bucket' = Append(kept, now) /\ granted' = Append(granted, now)
      /\ UNCHANGED <<now, iat, seen, used>>

(* authorize() and reauth_credential() sign a state and send the user off. *)
Issue(s) ==
  /\ iat[s] = -1
  /\ iat' = [iat EXCEPT ![s] = now]
  /\ UNCHANGED <<now, bucket, granted, seen, used>>

Unexpired_Strict(s) == iat[s] > now - TTL
(* _evict_expired() stops at the first nonce that has not expired. *)
Unexpired(s) == iat[s] >= now - TTL

(* verify(): no await, so one step.  The browser may come back any number  *)
(* of times with the same state.                                           *)
Verify(s) ==
  /\ iat[s] # -1
  /\ now - iat[s] <= TTL
  /\ Len(used[s]) < 2                    \* bound
  /\ LET left == FromFirst(seen, Unexpired)
     IN  IF Contains(left, s)
         THEN seen' = left /\ UNCHANGED used
         ELSE LET all == Append(left, s)
              IN  /\ seen' = IF Len(all) > CacheSize THEN Tail(all) ELSE all
                  /\ used' = [used EXCEPT ![s] = Append(@, now)]
  /\ UNCHANGED <<now, bucket, granted, iat>>

GuardNext ==
  \/ Tick
  \/ Acquire
  \/ \E s \in States : Issue(s) \/ Verify(s)

GuardSpec == GuardInit /\ [][GuardNext]_guardVars

-----------------------------------------------------------------------------
(* Whatever stretch of the window's length one picks, no more calls were   *)
(* let through in it than the budget (ai_composer_service.py:411-437).     *)
WindowQuota ==
  \A i \in 1..Len(granted) :
    Cardinality({j \in i..Len(granted) : granted[j] - granted[i] <= Window})
      <= PerMinute

(* Between a consent's first and second answer no more others came than    *)
(* the cache holds.                                                        *)
CacheSuffices ==
  \A s \in States : Len(used[s]) > 1 =>
    Cardinality({r \in States \ {s} : \E i \in 1..Len(used[r]) :
                   used[s][1] <= used[r][i] /\ used[r][i] <= used[s][2]}) < CacheSize

(* A consent is recorded once however often the browser brings it back,    *)
(* unless so many others came in between that its nonce was dropped        *)
(* (oauth_state.py:111-124).                                               *)
StateOnce == CacheSuffices => \A s \in States : Len(used[s]) <= 1

(* Both tables of the process do what they are for at any time.            *)
GuardsHold == WindowQuota /\ StateOnce
-----------------------------------------------------------------------------
(* What makes both hold: the inductive invariant.  The bucket is the end   *)
(* of what was granted, and all that is before it has left the window.     *)
BucketInv ==
  /\ now \in Nat /\ bucket \in Seq(Int) /\ granted \in Seq(Int)
  /\ \A i \in 1..Len(granted) : granted[i] <= now
  /\ \A i, j \in 1..Len(granted) : i <= j => granted[i] <= granted[j]
  /\ Len(bucket) <= Len(granted)
  /\ \A i \in 1..Len(bucket) : bucket[i] = granted[Len(granted) - Len(bucket) + i]
  /\ \A i \in 1..(Len(granted) - Len(bucket)) : ~InWindow(granted[i])

(* The other consents accepted since the first answer of s, and of them    *)
(* those accepted before the second.                                       *)
After(s) == {r \in States \ {s} : \E i \in 1..Len(used[r]) : used[s][1] <= used[r][i]}
Between(s) ==
  {r \in States \ {s} :
     \E i \in 1..Len(used[r]) : used[s][1] <= used[r][i] /\ used[r][i] <= used[s][2]}

NonceTypes ==
  /\ now \in Nat
  /\ iat \in [States -> Int]
  /\ seen \in Seq(States)
  /\ used \in [States -> Seq(Int)]

(* The accepted answers of one consent, in order and not in the future.    *)
UsesInOrder ==
  \A s \in States :
    /\ Len(used[s]) <= 2
    /\ \A i \in 1..Len(used[s]) : used[s][1] <= used[s][i] /\ used[s][i] <= now
    /\ Len(used[s]) > 0 => iat[s] # -1

(* The cache is in the order of the latest answers, and has no nonce twice. *)
Latest(s) == used[s][Len(used[s])]
SeenInOrder ==
  /\ Len(seen) <= CacheSize
  /\ \A i \in 1..Len(seen) : Len(used[seen[i]]) > 0
  /\ \A i, j \in 1..Len(seen) : i < j => seen[i] # seen[j] /\ Latest(seen[i]) <= Latest(seen[j])

(* A nonce that is gone before its time has given way to CacheSize others. *)
GaveWay ==
  \A s \in States :
    /\ Len(used[s]) > 0 /\ Unexpired(s) /\ (\A i \in 1..Len(seen) : seen[i] # s)
         => Cardinality(After(s)) >= CacheSize
    /\ Len(used[s]) > 1 => Cardinality(Between(s)) >= CacheSize

NonceInv == NonceTypes /\ UsesInOrder /\ SeenInOrder /\ GaveWay

=============================================================================
