---------------------------- MODULE PersonalSkills ----------------------------
(***************************************************************************)
(* The skills of one user: PersonalizationService and SkillBootstrapService*)
(* (API_Server/app/services) over the skills table, the review log and the *)
(* user's memory file at AI_Agent (personal_memory.py).                    *)
(*                                                                         *)
(* A request is a slot that is free again once it has answered; requests   *)
(* interleave at every await.  What a request turns down (404, 409, no     *)
(* diff to extract from) leaves everything as it is and is a stutter.  The *)
(* memory file is written over HTTP: a call may be lost, or time out for   *)
(* its caller and be carried out later.                                    *)
(***************************************************************************)
EXTENDS Integers, FiniteSets

CONSTANTS
    Skill,         \* ids of rows to be created
    Hash,          \* suggestion hashes: what an edit amounts to
    Request, None,
    Operations,    \* which endpoints are called
    MaxInFlight,   \* requests served at a time; 1: one after the other
    MaxLosses, MaxCrashes   \* bounds on failing memory calls and API crashes

ASSUME SkillsAssumption ==
    /\ None \notin Skill \cup Hash
    /\ Operations \subseteq {"extract", "activate", "reject", "share", "answer", "approve", "disapprove"}
    /\ MaxInFlight \in Nat /\ MaxLosses \in Nat /\ MaxCrashes \in Nat

VARIABLES
    skill,      \* per id: its row, None before it is created
    reviews,    \* personal_skill_reviews: <<hash, action>>
    shares,     \* per id: audit rows that record a share
    memory,     \* per id: its entry in the user's memory file
    late,       \* memory calls that timed out and are still under way
    pc, op, target, edit,   \* per request: next call, operation, row, hash of the edit
    seen,       \* per request: the hashes read so far
    personal,   \* per request: update_status returned a row of user scope
    known,      \* history, per request: hashes rejected when it was accepted
    mixed,      \* history: requests overlapped, or one went through "approve"
    losses, crashes

storeVars == <<skill, reviews, shares>>
memoryVars == <<memory, late, losses>>
requestVars == <<pc, op, target, edit, seen, personal, known, mixed>>
vars == <<storeVars, memoryVars, requestVars, crashes>>

Row == [status : {"pending_review", "active", "archived", "rejected"},
        scope : {"user", "workspace"}, hash : Hash \cup {None}]
ASSUME NoneIsNoRow == None \notin Row
Calls == {"reviews", "agent", "status", "review", "sync", "share", "flip", "unsync"}

Init ==
    /\ skill = [s \in Skill |-> None]
    /\ reviews = {}
    /\ shares = [s \in Skill |-> 0]
    /\ memory = [s \in Skill |-> "absent"]
    /\ late = {}
    /\ pc = [r \in Request |-> "idle"]
    /\ op = [r \in Request |-> "extract"]
    /\ target = [r \in Request |-> None]
    /\ edit = [r \in Request |-> None]
    /\ seen = [r \in Request |-> {}]
    /\ personal = [r \in Request |-> TRUE]
    /\ known = [r \in Request |-> {}]
    /\ mixed = FALSE
    /\ losses = 0 /\ crashes = 0

InFlight == {r \in Request : pc[r] # "idle"}
Quiet == InFlight = {} /\ late = {}
Exists(s) == skill[s] # None
Fresh(s) == ~Exists(s) /\ \A q \in InFlight : target[q] # s
Personal(s) == Exists(s) /\ skill[s].scope = "user"
Rejected == {h \in Hash : <<h, "reject">> \in reviews}

-----------------------------------------------------------------------------
Accept(r, o, s, call) ==
    /\ o \in Operations
    /\ pc[r] = "idle"
    /\ Cardinality(InFlight) < MaxInFlight
    /\ pc' = [pc EXCEPT ![r] = call]
    /\ op' = [op EXCEPT ![r] = o]
    /\ target' = [target EXCEPT ![r] = s]
    /\ mixed' = (mixed \/ InFlight # {} \/ o = "approve")
    /\ UNCHANGED <<storeVars, memoryVars, personal, crashes>>

Goto(r, from, to) ==
    /\ pc[r] = from
    /\ pc' = [pc EXCEPT ![r] = to]
    /\ UNCHANGED <<op, target, edit, known, mixed, crashes>>

(* extract_from_diff: the hashes of the rows of user scope, in any status; *)
(* then those of rejections; then the agent, whose answer is stored.       *)
SkillHashes == {skill[s].hash : s \in {t \in Skill : Personal(t)}}

Extract(r, s, h) ==
    /\ Fresh(s)
    /\ Accept(r, "extract", s, "reviews")
    /\ edit' = [edit EXCEPT ![r] = h]
    /\ seen' = [seen EXCEPT ![r] = SkillHashes]
    /\ known' = [known EXCEPT ![r] = Rejected]

(* Mutant: the review log is not asked. *)
ReadRejected_Skips(r) ==
    /\ Goto(r, "reviews", "agent")
    /\ UNCHANGED <<seen, storeVars, memoryVars, personal>>

ReadRejected(r) ==
    /\ Goto(r, "reviews", "agent")
    /\ seen' = [seen EXCEPT ![r] = @ \cup Rejected]
    /\ UNCHANGED <<storeVars, memoryVars, personal>>

(* A hash among those seen is dropped, and so is an edit that amounts to   *)
(* nothing; else the judge accepts or rejects the proposal.                *)
Persist(r) ==
    /\ Goto(r, "agent", "idle")
    /\ \/ UNCHANGED <<skill, reviews>>
       \/ /\ edit[r] \notin seen[r]
          /\ \/ /\ skill' = [skill EXCEPT ![target[r]] =
                               [status |-> "pending_review", scope |-> "user", hash |-> edit[r]]]
                /\ UNCHANGED reviews
             \/ /\ reviews' = reviews \cup {<<edit[r], "reject">>}
                /\ UNCHANGED skill
    /\ UNCHANGED <<shares, seen, memoryVars, personal>>

-----------------------------------------------------------------------------
(* answer_questions of the wizard: a draft for the workspace, no hash.     *)
Answer(s) ==
    /\ "answer" \in Operations /\ Fresh(s)
    /\ skill' = [skill EXCEPT ![s] = [status |-> "pending_review", scope |-> "workspace", hash |-> None]]
    /\ UNCHANGED <<reviews, shares, memoryVars, requestVars, crashes>>

(* activate_candidate and reject_candidate: _require_candidate, then the   *)
(* status, unconditionally; then the review log; then the memory file.     *)
(* approve and reject of SkillBootstrapService (here "disapprove"), which  *)
(* take a row of either scope: the check and the status, no more.          *)
StatusAfter == [activate |-> "active", approve |-> "active", reject |-> "archived", disapprove |-> "rejected"]

Decide(r, o, s) ==
    /\ Exists(s) /\ skill[s].status = "pending_review"
    /\ o \in {"activate", "reject"} => Personal(s)
    /\ Accept(r, o, s, "status")
    /\ UNCHANGED <<edit, seen, known>>

SetStatus(r) ==
    /\ Goto(r, "status", IF op[r] \in {"activate", "reject"} THEN "review" ELSE "idle")
    /\ skill' = [skill EXCEPT ![target[r]].status = StatusAfter[op[r]]]
    /\ personal' = [personal EXCEPT ![r] = Personal(target[r])]
    /\ UNCHANGED <<reviews, shares, memoryVars, seen>>

(* Mutant: a rejected candidate is synced. *)
RecordReview_SyncsAll(r) ==
    /\ Goto(r, "review", "sync")
    /\ reviews' = reviews \cup
           {<<skill[target[r]].hash, IF op[r] = "activate" THEN "accept" ELSE "reject">>}
    /\ UNCHANGED <<skill, shares, memoryVars, seen, personal>>

RecordReview(r) ==
    /\ \/ /\ Goto(r, "review", "sync")
          /\ op[r] = "activate"
          /\ reviews' = reviews \cup {<<skill[target[r]].hash, "accept">>}
       \/ /\ Goto(r, "review", "idle")
          /\ op[r] = "reject"
          /\ reviews' = reviews \cup {<<skill[target[r]].hash, "reject">>}
    /\ UNCHANGED <<skill, shares, memoryVars, seen, personal>>

(* One call to /v1/personalization/memory/upsert; the entry is replaced as *)
(* a whole.  The caller swallows its failure.                              *)
Upsert(s, entry) ==
    \/ memory' = [memory EXCEPT ![s] = entry] /\ UNCHANGED <<late, losses>>
    \/ /\ losses < MaxLosses
       /\ losses' = losses + 1
       /\ late' \in {late, late \cup {<<s, entry>>}}
       /\ UNCHANGED memory

Sync(r) ==
    /\ Goto(r, "sync", "idle")
    /\ IF personal[r] THEN Upsert(target[r], "active") ELSE UNCHANGED memoryVars
    /\ UNCHANGED <<storeVars, seen, personal>>

(* A call that timed out for its caller arrives. *)
UpsertLate ==
    \E m \in late :
        /\ late' = late \ {m}
        /\ memory' = [memory EXCEPT ![m[1]] = m[2]]
        /\ UNCHANGED <<storeVars, requestVars, losses, crashes>>

-----------------------------------------------------------------------------
(* share_candidate: the check, then share_to_workspace (read the row and   *)
(* its scope; flip it and add an audit row), then the memory file.         *)
Share(r, s) ==
    /\ Personal(s) /\ skill[s].status = "active"
    /\ Accept(r, "share", s, "share")
    /\ UNCHANGED <<edit, seen, known>>

ShareReads(r) ==
    /\ \/ Goto(r, "share", "flip") /\ Personal(target[r])
       \/ Goto(r, "share", "idle") /\ ~Personal(target[r])
    /\ UNCHANGED <<storeVars, memoryVars, seen, personal>>

ShareWrites(r) ==
    /\ Goto(r, "flip", "unsync")
    /\ skill' = [skill EXCEPT ![target[r]].scope = "workspace"]
    /\ shares' = [shares EXCEPT ![target[r]] = @ + 1]
    /\ UNCHANGED <<reviews, memoryVars, seen, personal>>

(* Mutant: sharing leaves the memory file alone. *)
Unsync_Nothing(r) ==
    /\ Goto(r, "unsync", "idle")
    /\ UNCHANGED <<storeVars, memoryVars, seen, personal>>

Unsync(r) ==
    /\ Goto(r, "unsync", "idle")
    /\ Upsert(target[r], "inactive")
    /\ UNCHANGED <<storeVars, seen, personal>>

(* The API process dies: what its requests had not done stays undone. *)
Crash ==
    /\ crashes < MaxCrashes
    /\ InFlight # {}
    /\ crashes' = crashes + 1
    /\ pc' = [r \in Request |-> "idle"]
    /\ UNCHANGED <<storeVars, memoryVars, op, target, edit, seen, personal, known, mixed>>

Begin(r, s) ==
    \/ \E h \in Hash : Extract(r, s, h)
    \/ \E o \in DOMAIN StatusAfter : Decide(r, o, s)
    \/ Share(r, s)

Continue(r) ==
    \/ ReadRejected(r) \/ Persist(r)
    \/ SetStatus(r) \/ RecordReview(r) \/ Sync(r)
    \/ ShareReads(r) \/ ShareWrites(r) \/ Unsync(r)

Next ==
    \/ \E r \in Request : Continue(r) \/ \E s \in Skill : Begin(r, s)
    \/ \E s \in Skill : Answer(s)
    \/ UpsertLate
    \/ Crash

Spec == Init /\ [][Next]_vars

-----------------------------------------------------------------------------
(* Every variable stays in its range. *)
TypeOK ==
    /\ skill \in [Skill -> Row \cup {None}]
    /\ reviews \subseteq Hash \X {"accept", "reject"}
    /\ shares \in [Skill -> Nat]
    /\ memory \in [Skill -> {"absent", "active", "inactive"}]
    /\ late \subseteq Skill \X {"active", "inactive"}
    /\ pc \in [Request -> Calls \cup {"idle"}]
    /\ op \in [Request -> {"extract", "activate", "reject", "share", "approve", "disapprove"}]
    /\ target \in [Request -> Skill \cup {None}]
    /\ edit \in [Request -> Hash \cup {None}]
    /\ seen \in [Request -> SUBSET Hash] /\ known \in [Request -> SUBSET Hash]
    /\ personal \in [Request -> BOOLEAN]
    /\ mixed \in BOOLEAN /\ losses \in Nat /\ crashes \in Nat

(* What the user or the judge has rejected is not proposed again by any    *)
(* extract that comes after, whatever the other requests do.               *)
RejectedStaysSuppressed ==
    [][\A r \in Request :
          pc[r] = "agent" /\ skill' # skill /\ pc'[r] = "idle" => edit[r] \notin known[r]]_vars

(* Nothing reaches the retrieval memory that its owner has not activated,  *)
(* nor the workspace pool that he has not decided on.                      *)
OnlyActivatedIsUsed ==
    \A s \in Skill :
        /\ memory[s] = "active" => <<skill[s].hash, "accept">> \in reviews
        /\ shares[s] > 0 => skill[s].status # "pending_review"

-----------------------------------------------------------------------------
(* What holds as long as requests do not overlap, no call is lost, nothing *)
(* crashes and nothing is approved through the skills router.              *)
Sequential == ~mixed /\ losses = 0 /\ crashes = 0

(* The memory file lists as active what the user has active for himself.   *)
MemoryMatches ==
    Quiet => \A s \in Skill :
        memory[s] = "active" <=> Personal(s) /\ skill[s].status = "active"

(* The user is asked about an edit once: no two rows of one hash are his.  *)
OneRowPerHash ==
    \A s, t \in Skill : Personal(s) /\ Personal(t) /\ skill[s].hash = skill[t].hash => s = t

(* One after the other, requests keep the memory file in step with the     *)
(* rows, and ask the user about an edit once                               *)
(* (personalization_service.py:120, 440).                                  *)
SequentialCopy == Sequential => MemoryMatches /\ OneRowPerHash

(* What makes that inductive: where the one request under way is, and the  *)
(* only row whose entry in the memory file may be behind.                  *)
Active(s) == Personal(s) /\ skill[s].status = "active"
Pending(s) == Exists(s) /\ skill[s].status = "pending_review"

Behind(s) ==
    \E r \in Request : target[r] = s /\ (pc[r] = "unsync" \/ (pc[r] \in {"review", "sync"} /\ op[r] = "activate"))

AloneHolds(r) ==
    /\ \A q \in Request : pc[q] # "idle" /\ pc[r] # "idle" => q = r
    /\ pc[r] # "idle" => op[r] # "approve"
    /\ pc[r] \in {"reviews", "agent"} => SkillHashes \subseteq seen[r]
    /\ pc[r] = "status" => Pending(target[r]) /\ (op[r] \in {"activate", "reject"} => Personal(target[r]))
    /\ pc[r] \in {"review", "sync"} /\ op[r] = "activate" => Active(target[r]) /\ personal[r]
    /\ pc[r] = "sync" => op[r] = "activate"
    /\ pc[r] \in {"share", "flip"} => Active(target[r])
    /\ pc[r] = "unsync" => ~Personal(target[r])

SequentialInv ==
    Sequential =>
      /\ late = {}
      /\ OneRowPerHash
      /\ \A r \in Request : AloneHolds(r)
      /\ \A s \in Skill : ~Behind(s) => (memory[s] = "active" <=> Active(s))
=============================================================================
