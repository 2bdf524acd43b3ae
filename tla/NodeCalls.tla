------------------------------- MODULE NodeCalls -------------------------------
(***************************************************************************)
(* One execution of a node, alone or by loop_items for a list of items     *)
(* (Execution_Engine/src/nodes), and the service it asks.                  *)
(*                                                                         *)
(* A call goes from one await to the next: a place of the semaphore, the   *)
(* access token, a question, the request.  A service may do what it was    *)
(* asked and its answer be lost, or come after the node gave up.  A node   *)
(* alone is a list of one item with a place.                               *)
(*                                                                         *)
(* Not every wait for a service ends by the clock: httpx bounds each read, *)
(* not the request, and db_query closes its connection without a timeout.  *)
(***************************************************************************)
EXTENDS NodeCatalog, Integers

CONSTANTS Jobs,           \* what is executed: type, keys given, loop, items, slots
          Threads         \* the threads code nodes share

ASSUME CallsAssumption == \A j \in Jobs : j.items \in Nat /\ j.slots \in Nat

VARIABLES job, at, outcome,  \* per item: where its call is, what came of it
          answer,            \* per item: what the service answered
          requests, effects, \* history, per item: how many
          threads,           \* items whose code runs
          held,              \* items whose service keeps the bytes coming
          result             \* of the node

callVars == <<job, at, outcome, answer, requests, effects, threads, held, result>>

Items == 1..job.items
Known == job.type \in Types
W     == NodeType(job.type, job.given)
Lacking == Known /\ ~(W.needs \subseteq job.given)

CallsInit ==
  /\ job \in Jobs
  /\ at = [i \in Items |-> "waiting"] /\ outcome = [i \in Items |-> "none"]
  /\ answer = [i \in Items |-> "none"]
  /\ requests = [i \in Items |-> 0] /\ effects = [i \in Items |-> 0]
  /\ threads = {} /\ held = {}
  /\ result = "pending"

Under == {i \in Items : at[i] \notin {"waiting", "over"}}

Goes(i, from, to) ==
  at[i] = from /\ at' = [at EXCEPT ![i] = to] /\ UNCHANGED outcome

(* finally: a connection that was used is closed. *)
Ends(i, how) ==
  /\ at' = [at EXCEPT ![i] = IF @ = "sent" /\ W.bound = "close" THEN "closing" ELSE "over"]
  /\ outcome' = [outcome EXCEPT ![i] = how]

(* Mutant: a place is given back by a call that succeeds. *)
Fails_KeepsPlace(i) ==
  at' = [at EXCEPT ![i] = "failed"] /\ outcome' = [outcome EXCEPT ![i] = "error"]

Fails(i) == Ends(i, "error")

(* The other calls, and what the service knows, stay. *)
Alone == UNCHANGED <<job, answer, requests, effects, threads, result>>

-----------------------------------------------------------------------------
(* registry.get and the guard against a loop in a loop. *)
Refuses ==
  /\ result = "pending" /\ ~Known
  /\ result' = "raised"
  /\ UNCHANGED <<job, at, outcome, answer, requests, effects, threads>>

(* A place; then whatever of its configuration it cannot do without. *)
Begins(i) ==
  /\ Known /\ at[i] = "waiting" /\ Cardinality(Under) < job.slots
  /\ IF Lacking THEN Fails(i)
     ELSE Goes(i, "waiting", CASE W.kind = "local" -> "computing"
                               [] W.kind = "code"  -> "queued"
                               [] W.token          -> "token"
                               [] OTHER            -> "asking")
  /\ Alone

Computes(i) == at[i] = "computing" /\ (Ends(i, "ok") \/ Fails(i)) /\ Alone

(* _ensure_fresh_token (OAuthTokens); on an agent it raises. *)
GetsToken(i) == at[i] = "token" /\ (Goes(i, "token", "asking") \/ Fails(i)) /\ Alone

(* What it must know first, then the request. *)
Asks(i) ==
  /\ at[i] = "asking"
  /\ \/ /\ Goes(i, "asking", "sent")
        /\ requests' = [requests EXCEPT ![i] = @ + 1]
        /\ UNCHANGED <<job, answer, effects, threads, result>>
     \/ TRUE \in W.asks /\ Fails(i) /\ Alone

(* The service: its answer says yes and lacks nothing only when it did     *)
(* what it was asked; other answers say nothing about that.                *)
Serves(i) ==
  /\ requests[i] = 1 /\ answer[i] = "none"
  /\ \E lack \in W.reads \union {"nothing", "refused"} : \E did \in BOOLEAN :
       /\ lack = "nothing" => did
       /\ answer' = [answer EXCEPT ![i] = lack]
       /\ effects' = [effects EXCEPT ![i] = @ + (IF did THEN 1 ELSE 0)]
  /\ UNCHANGED <<job, at, outcome, requests, threads, result>>

(* raise_for_status, json() and the keys of the result. *)
Receives(i) ==
  /\ at[i] = "sent" /\ answer[i] # "none"
  /\ IF (answer[i] = "refused" /\ W.checks) \/ answer[i] \in W.reads THEN Fails(i) ELSE Ends(i, "ok")
  /\ Alone

(* A silent service, or one that cannot be reached. *)
TimesOut(i) == at[i] = "sent" /\ Fails(i) /\ Alone

(* What a wait for a service comes to. *)
Hears(i) == GetsToken(i) \/ Asks(i) \/ Receives(i) \/ TimesOut(i)

-----------------------------------------------------------------------------
(* The waits only the other side can end: an answer that comes in drops,   *)
(* each in time for its read, and the end of a connection.                 *)
Trickles(i) ==
  /\ \/ at[i] \in {"token", "sent"}
     \/ at[i] = "asking" /\ TRUE \in W.asks
  /\ W.bound = "read"
  /\ held' = held \union {i}
  /\ UNCHANGED <<job, at, outcome, answer, requests, effects, threads, result>>

Desists(i) == i \in held /\ held' = held \ {i} /\ Hears(i)

Closes(i) == at[i] = "closing" /\ (Ends(i, outcome[i]) \/ Fails(i)) /\ Alone

-----------------------------------------------------------------------------
(* run_restricted in a thread: one that was given up before it began does  *)
(* not begin, one that was given up later goes on.                         *)
CodeBegins(i) ==
  /\ Cardinality(threads) < Threads
  /\ Goes(i, "queued", "running")
  /\ threads' = threads \union {i}
  /\ UNCHANGED <<job, answer, requests, effects, result>>

CodeEnds(i) ==
  /\ i \in threads /\ threads' = threads \ {i}
  /\ \/ at[i] = "running" /\ (Ends(i, "ok") \/ Fails(i))
     \/ at[i] # "running" /\ UNCHANGED <<at, outcome>>
  /\ UNCHANGED <<job, answer, requests, effects, result>>

CodeTimesOut(i) == at[i] \in {"queued", "running"} /\ Fails(i) /\ Alone

-----------------------------------------------------------------------------
(* gather: what came of each item is the loop's result; a failure of a     *)
(* node alone is raised.                                                   *)
Returns ==
  /\ Known /\ result = "pending" /\ \A i \in Items : at[i] = "over"
  /\ result' = IF ~job.loop /\ outcome[1] = "error" THEN "raised" ELSE "returned"
  /\ UNCHANGED <<job, at, outcome, answer, requests, effects, threads>>

NodeStep ==
  /\ \/ Refuses \/ Returns
     \/ \E i \in Items : Begins(i) \/ Computes(i) \/ CodeBegins(i) \/ CodeTimesOut(i)
     \/ \E i \in Items \ held : Hears(i)
  /\ UNCHANGED held

OthersStep ==
  \E i \in Items :
    \/ Trickles(i) \/ Desists(i)
    \/ (Serves(i) \/ Closes(i) \/ CodeEnds(i)) /\ UNCHANGED held

CallsNext == NodeStep \/ OthersStep

(* The event loop goes on with a call whose timer or thread lets it.       *)
(* Neither a service nor the user's code owes the node anything.           *)
CallsSpec == CallsInit /\ [][CallsNext]_callVars /\ WF_callVars(NodeStep)

-----------------------------------------------------------------------------
(* A node that lacks part of its configuration asks nobody for anything.   *)
(* No node asks twice, and one that reports success has had its request    *)
(* done, but for http_request, which takes any status for an answer.  A    *)
(* loop never has more calls under way than it was told to, and it tries   *)
(* every item whatever the others come to (loop_items.py:66-80).           *)
CallsHonest ==
  /\ \A i \in Items :
       /\ requests[i] <= (IF Lacking THEN 0 ELSE 1)
       /\ effects[i] <= requests[i]
       /\ outcome[i] = "ok" /\ W.writes /\ job.type # "http_request" => effects[i] = 1
  /\ Cardinality(Under) <= job.slots
  /\ result = "returned" => \A i \in Items : outcome[i] # "none"

(* The inductive invariant behind it: how far a call has come says how     *)
(* often its service was asked and what that may have done.                *)
Before == {"waiting", "computing", "queued", "running", "token", "asking"}
Places == Before \union {"sent", "closing", "over"}

CallHolds(i) ==
  /\ at[i] \in Before => requests[i] = 0
  /\ at[i] = "sent" => requests[i] = 1
  /\ requests[i] \in 0..1 /\ effects[i] \in 0..requests[i]
  /\ requests[i] = 0 => answer[i] = "none"
  /\ answer[i] = "none" => effects[i] = 0
  /\ answer[i] = "nothing" => effects[i] = 1
  /\ answer[i] \notin {"none", "nothing", "refused"} => answer[i] \in W.reads
  /\ at[i] \in {"closing", "over"} <=> outcome[i] # "none"
  /\ at[i] = "computing" => W.kind = "local"
  /\ at[i] \in {"queued", "running"} => W.kind = "code"
  /\ at[i] # "waiting" => Known
  /\ Lacking => at[i] \in {"waiting", "over"} /\ requests[i] = 0
  /\ outcome[i] = "ok" /\ W.writes /\ job.type # "http_request" => answer[i] = "nothing"

CallsInv ==
  /\ job \in Jobs /\ at \in [Items -> Places]
  /\ outcome \in [Items -> {"none", "ok", "error"}]
  /\ DOMAIN answer = Items /\ DOMAIN requests = Items /\ DOMAIN effects = Items
  /\ \A i \in Items : CallHolds(i)
  /\ Cardinality(Under) <= job.slots
  /\ result = "returned" => \A i \in Items : at[i] = "over"

(* The calls only their service can end. *)
Stays == {i \in Under : i \in held \/ at[i] = "closing"}

(* What a node hangs on: such calls, and those that wait for their places. *)
Hangs ==
  /\ \E i \in Items : at[i] # "over"
  /\ \A i \in Items :
       at[i] # "over" => i \in Stays \/ (at[i] = "waiting" /\ Cardinality(Stays) = job.slots)

(* A node ends although its service is silent, the user's code loops for   *)
(* ever, or there are fewer threads than items.  Nothing holds it for ever *)
(* but a service that trickles (http_request.py:40) or does not let go of  *)
(* its connection (db_query.py:58); even then every other item of a loop   *)
(* comes to its end unless such calls have all the places, of which there  *)
(* are none when max_concurrency is 0 (loop_items.py:64).                  *)
CallsEnd == <>[](result # "pending" \/ Hangs)
=============================================================================
