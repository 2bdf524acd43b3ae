---------------------------- MODULE WorkflowStore ----------------------------
(***************************************************************************)
(* The write side of WorkflowService (API_Server/app/services/             *)
(* workflow_service.py) for one user: create, update, soft_delete,         *)
(* activate, deactivate and the two webhook operations, over the workflows *)
(* row, the revision log, the webhook registry and the API process's job   *)
(* scheduler.                                                              *)
(*                                                                         *)
(* Requests interleave at every await.  Each repository call is a          *)
(* transaction of its own; two of them are two statements: save reads the  *)
(* row and then updates the columns that differ from what it read, record  *)
(* reads the highest number and then inserts.                              *)
(*                                                                         *)
(* Each request brings a graph, a trigger or a webhook path of its own, so *)
(* these are named by the request.                                         *)
(***************************************************************************)
EXTENDS Integers, FiniteSets

CONSTANTS
    Workflow,
    Request,
    None,
    Limit,          \* workflow_limit_for_tier
    MaxInFlight,    \* requests served at a time; 1: one after the other
    MaxRestarts,    \* bound on restarts of the API process
    FailingCalls    \* the calls during which the database may fail

(* settings is one JSON column. *)
Settings == [trigger : Request \cup {None}, path : Request \cup {None}]
Row == [graph : Request, settings : Settings, active : BOOLEAN]

ASSUME StoreAssumption ==
    /\ None \notin Request \cup Workflow \cup Row
    /\ Limit \in Nat /\ MaxInFlight \in Nat /\ MaxRestarts \in Nat
    /\ FailingCalls \subseteq {"hook", "save", "commit", "head", "number", "insert"}

VARIABLES
    row,        \* per workflow: its row, None before it is created
    revisions,  \* per workflow: the workflow_revisions rows
    bindings,   \* per workflow: the paths in webhook_bindings
    jobs,       \* per workflow: jobs the API's scheduler object holds for it
    op, on, pc, reply,            \* per request: operation, workflow, next call, answer
    copy, loaded, parent, next,   \* per request: its DTO, the row save() read, record's values
    mixed,      \* history: requests have overlapped, or one was cut off
    restarts

requestVars == <<op, on, pc, reply, copy, loaded, parent, next>>
vars == <<row, revisions, bindings, jobs, requestVars, mixed, restarts>>

Operations == {"create", "update", "delete", "activate", "deactivate", "register", "unregister"}
Calls == {"hook", "save", "commit", "head", "number", "insert"}
Replies == {"none", "ok", "403", "404", "409", "503"}

-----------------------------------------------------------------------------
Init ==
    /\ row = [w \in Workflow |-> None]
    /\ revisions = [w \in Workflow |-> {}]
    /\ bindings = [w \in Workflow |-> {}]
    /\ jobs = [w \in Workflow |-> 0]
    /\ op = [r \in Request |-> None]
    /\ on = [r \in Request |-> None]
    /\ pc = [r \in Request |-> "idle"]
    /\ reply = [r \in Request |-> "none"]
    /\ copy = [r \in Request |-> None]
    /\ loaded = [r \in Request |-> None]
    /\ parent = [r \in Request |-> 0]
    /\ next = [r \in Request |-> 0]
    /\ mixed = FALSE
    /\ restarts = 0

InFlight == {r \in Request : pc[r] \in Calls}
Quiet == InFlight = {}
ActiveWorkflows == {w \in Workflow : row[w] # None /\ row[w].active}
Numbers(w) == {v.no : v \in revisions[w]}
Highest(w) == IF revisions[w] = {} THEN 0 ELSE CHOOSE n \in Numbers(w) : \A m \in Numbers(w) : m <= n

Goto(r, from, to) == pc[r] = from /\ pc' = [pc EXCEPT ![r] = to]

Answer(r, code) ==
    /\ pc' = [pc EXCEPT ![r] = "done"]
    /\ reply' = [reply EXCEPT ![r] = code]

Accept(r, o, w) ==
    /\ pc[r] = "idle"
    /\ Cardinality(InFlight) < MaxInFlight
    /\ op' = [op EXCEPT ![r] = o]
    /\ on' = [on EXCEPT ![r] = w]
    /\ mixed' = (mixed \/ InFlight # {})
    /\ UNCHANGED <<loaded, parent, next, revisions, bindings, row, restarts>>

(* What a request turns down before it has changed anything. *)
Refuse(r, code) == Answer(r, code) /\ UNCHANGED <<copy, jobs>>

Proceed(r, dto, call) ==
    /\ copy' = [copy EXCEPT ![r] = dto]
    /\ pc' = [pc EXCEPT ![r] = call]
    /\ UNCHANGED reply

-----------------------------------------------------------------------------
(* create: the active rows are counted, then a row with a fresh id saved. *)
Fresh(w) == row[w] = None /\ w \notin {on[r] : r \in Request}

NoSettings == [trigger |-> None, path |-> None]

Create(r, w) ==
    /\ Fresh(w)
    /\ Accept(r, "create", w)
    /\ \/ Cardinality(ActiveWorkflows) >= Limit /\ Refuse(r, "403")
       \/ /\ Cardinality(ActiveWorkflows) < Limit
          /\ Proceed(r, [graph |-> r, settings |-> NoSettings, active |-> TRUE], "save")
          /\ UNCHANGED jobs

(* get_owned, for update and soft_delete: a deleted workflow is not found. *)
FindActive(r, o, w, dto) ==
    /\ Accept(r, o, w)
    /\ \/ w \notin ActiveWorkflows /\ Refuse(r, "404")
       \/ w \in ActiveWorkflows /\ Proceed(r, dto, "save") /\ UNCHANGED jobs

(* The body replaces settings as a whole.  It is the editor's, which sends *)
(* only a layout; that a client of its own might write a trigger or a path *)
(* here, with no job or binding behind it, is left out.                    *)
Update(r, w) ==
    FindActive(r, "update", w, [row[w] EXCEPT !.graph = r, !.settings = NoSettings])

SoftDelete(r, w) == FindActive(r, "delete", w, [row[w] EXCEPT !.active = FALSE])

(* activate, deactivate, register_webhook: a deleted workflow is a conflict. *)
RefuseInactive(r, w) ==
    \/ row[w] = None /\ Refuse(r, "404")
    \/ row[w] # None /\ ~row[w].active /\ Refuse(r, "409")

(* Mutant: activating revives a deleted workflow. *)
Activate_Revives(r, w) ==
    /\ Accept(r, "activate", w)
    /\ \/ row[w] = None /\ Refuse(r, "404")
       \/ /\ row[w] # None
          /\ jobs' = [jobs EXCEPT ![w] = @ + 1]
          /\ Proceed(r, [row[w] EXCEPT !.settings.trigger = r, !.active = TRUE], "save")

(* add_job and remove_job of a scheduler that was not started work on its  *)
(* list of pending jobs; removing what is not there is swallowed.          *)
Activate(r, w) ==
    /\ Accept(r, "activate", w)
    /\ \/ RefuseInactive(r, w)
       \/ /\ w \in ActiveWorkflows
          /\ jobs' = [jobs EXCEPT ![w] = @ + 1]
          /\ Proceed(r, [row[w] EXCEPT !.settings.trigger = r], "save")

Deactivate(r, w) ==
    /\ Accept(r, "deactivate", w)
    /\ \/ RefuseInactive(r, w)
       \/ /\ w \in ActiveWorkflows
          /\ jobs' = [jobs EXCEPT ![w] = IF @ = 0 THEN 0 ELSE @ - 1]
          /\ Proceed(r, [row[w] EXCEPT !.settings.trigger = None], "save")

Register(r, w) ==
    /\ Accept(r, "register", w)
    /\ \/ RefuseInactive(r, w)
       \/ w \in ActiveWorkflows /\ Proceed(r, row[w], "hook") /\ UNCHANGED jobs

(* The path comes from the settings; nothing there means nothing to do. *)
Unregister(r, w) ==
    /\ Accept(r, "unregister", w)
    /\ \/ row[w] = None /\ Refuse(r, "404")
       \/ row[w] # None /\ row[w].settings.path = None /\ Refuse(r, "ok")
       \/ /\ row[w] # None /\ row[w].settings.path # None
          /\ Proceed(r, row[w], "hook") /\ UNCHANGED jobs

-----------------------------------------------------------------------------
HookCall(r) ==
    /\ Goto(r, "hook", "save")
    /\ \/ /\ op[r] = "register"
          /\ bindings' = [bindings EXCEPT ![on[r]] = @ \cup {r}]
          /\ copy' = [copy EXCEPT ![r].settings.path = r]
       \/ /\ op[r] = "unregister"
          /\ bindings' = [bindings EXCEPT ![on[r]] = @ \ {copy[r].settings.path}]
          /\ copy' = [copy EXCEPT ![r].settings.path = None]
    /\ UNCHANGED <<row, revisions, jobs, op, on, reply, loaded, parent, next, mixed, restarts>>

(* save: SELECT, then UPDATE of the columns that differ from the row read. *)
SaveReads(r) ==
    /\ Goto(r, "save", "commit")
    /\ loaded' = [loaded EXCEPT ![r] = row[on[r]]]
    /\ UNCHANGED <<row, revisions, bindings, jobs, op, on, reply, copy, parent, next, mixed, restarts>>

Merged(now, read, dto) ==
    IF read = None THEN dto
    ELSE [column \in DOMAIN dto |-> IF dto[column] = read[column] THEN now[column] ELSE dto[column]]

SaveCommits(r) ==
    /\ pc[r] = "commit"
    /\ row' = [row EXCEPT ![on[r]] = Merged(@, loaded[r], copy[r])]
    /\ \/ op[r] \in {"create", "update"} /\ Goto(r, "commit", "head") /\ UNCHANGED reply
       \/ op[r] \notin {"create", "update"} /\ Answer(r, "ok")
    /\ UNCHANGED <<revisions, bindings, jobs, op, on, copy, loaded, parent, next, mixed, restarts>>

-----------------------------------------------------------------------------
(* record_save_revision: the head, in a transaction of its own; then the   *)
(* highest number; then the insert, which the UNIQUE constraint may refuse *)
(* and handle_db_error answers.                                            *)
ReadHead(r) ==
    /\ Goto(r, "head", "number")
    /\ parent' = [parent EXCEPT ![r] = Highest(on[r])]
    /\ UNCHANGED <<row, revisions, bindings, jobs, op, on, reply, copy, loaded, next, mixed, restarts>>

ReadNumber(r) ==
    /\ Goto(r, "number", "insert")
    /\ next' = [next EXCEPT ![r] = Highest(on[r]) + 1]
    /\ UNCHANGED <<row, revisions, bindings, jobs, op, on, reply, copy, loaded, parent, mixed, restarts>>

Revision_OwnParent(r) == [no |-> next[r], parent |-> next[r], graph |-> copy[r].graph]

Revision(r) == [no |-> next[r], parent |-> parent[r], graph |-> copy[r].graph]

(* Mutant: an error of record() is ignored. *)
Insert_Swallows(r) ==
    /\ pc[r] = "insert"
    /\ revisions' = IF next[r] \in Numbers(on[r]) THEN revisions
                    ELSE [revisions EXCEPT ![on[r]] = @ \cup {Revision(r)}]
    /\ Answer(r, "ok")
    /\ UNCHANGED <<row, bindings, jobs, op, on, copy, loaded, parent, next, mixed, restarts>>

Insert(r) ==
    /\ pc[r] = "insert"
    /\ \/ /\ next[r] \notin Numbers(on[r])
          /\ revisions' = [revisions EXCEPT ![on[r]] = @ \cup {Revision(r)}]
          /\ Answer(r, "ok")
       \/ next[r] \in Numbers(on[r]) /\ Answer(r, "503") /\ UNCHANGED revisions
    /\ UNCHANGED <<row, bindings, jobs, op, on, copy, loaded, parent, next, mixed, restarts>>

(* The database fails during a call: its transaction is rolled back, the   *)
(* earlier ones of the request stay.                                       *)
CallFails(r) ==
    /\ pc[r] \in FailingCalls
    /\ Answer(r, "503")
    /\ mixed' = TRUE
    /\ UNCHANGED <<row, revisions, bindings, jobs, op, on, copy, loaded, parent, next, restarts>>

(* The API process restarts: its requests and its scheduler object go. *)
Restart ==
    /\ restarts < MaxRestarts
    /\ restarts' = restarts + 1
    /\ mixed' = TRUE
    /\ jobs' = [w \in Workflow |-> 0]
    /\ pc' = [r \in Request |-> IF r \in InFlight THEN "done" ELSE pc[r]]
    /\ UNCHANGED <<row, revisions, bindings, op, on, reply, copy, loaded, parent, next>>

Handle(r, w) ==
    \/ Create(r, w) \/ Update(r, w) \/ SoftDelete(r, w)
    \/ Activate(r, w) \/ Deactivate(r, w) \/ Register(r, w) \/ Unregister(r, w)

Continue(r) ==
    \/ HookCall(r) \/ SaveReads(r) \/ SaveCommits(r)
    \/ ReadHead(r) \/ ReadNumber(r) \/ Insert(r) \/ CallFails(r)

Next ==
    \/ \E r \in Request : Continue(r) \/ \E w \in Workflow : Handle(r, w)
    \/ Restart

Spec == Init /\ [][Next]_vars

-----------------------------------------------------------------------------
(* Every variable stays in its range. *)
TypeOK ==
    /\ row \in [Workflow -> Row \cup {None}]
    /\ revisions \in [Workflow -> SUBSET [no : Nat, parent : Nat, graph : Request]]
    /\ bindings \in [Workflow -> SUBSET Request]
    /\ jobs \in [Workflow -> Nat]
    /\ op \in [Request -> Operations \cup {None}]
    /\ on \in [Request -> Workflow \cup {None}]
    /\ pc \in [Request -> Calls \cup {"idle", "done"}]
    /\ reply \in [Request -> Replies]
    /\ copy \in [Request -> Row \cup {None}]
    /\ loaded \in [Request -> Row \cup {None}]
    /\ parent \in [Request -> Nat] /\ next \in [Request -> Nat]
    /\ mixed \in BOOLEAN /\ restarts \in Nat

(* However saves overlap, fail or are cut off, the revisions of a workflow *)
(* are numbered 1, 2, 3, ... with no number used twice and none left out.  *)
RevisionNumbers ==
    \A w \in Workflow :
        /\ \A u, v \in revisions[w] : u.no = v.no => u = v
        /\ \A v \in revisions[w] : 1..v.no \subseteq Numbers(w)

(* The parent of a revision is an older one of the same workflow: history  *)
(* has no loop and no dangling link (0: no parent).                        *)
ParentOlder ==
    \A w \in Workflow : \A v \in revisions[w] :
        v.parent < v.no /\ v.parent \in Numbers(w) \cup {0}

(* The log of a workflow is sound, whatever overlaps. *)
LogSound == RevisionNumbers /\ ParentOlder

(* The inductive invariant behind the two.  A request that is past its     *)
(* reads may hold values that others have overtaken, but never one that    *)
(* leaves a gap or points ahead.                                           *)
Ready(r) ==
    /\ on[r] \in Workflow
    /\ copy[r] # None
    /\ pc[r] = "commit" /\ loaded[r] # None => row[on[r]] # None
    /\ pc[r] \in {"head", "number", "insert"} => row[on[r]] # None
    /\ pc[r] = "hook" /\ op[r] = "unregister" => row[on[r]] # None
    /\ pc[r] \in {"number", "insert"} => parent[r] \in Numbers(on[r]) \cup {0}
    /\ pc[r] = "insert" =>
           /\ parent[r] < next[r]
           /\ next[r] \in {n + 1 : n \in Numbers(on[r]) \cup {0}}

Contiguous(w) ==
    /\ \E n \in Nat : Numbers(w) = 1..n
    /\ \A u, v \in revisions[w] : u.no = v.no => u = v

IInv ==
    /\ TypeOK
    /\ \A r \in Request : pc[r] \in Calls => Ready(r)
    /\ \A w \in Workflow : Contiguous(w)
    /\ ParentOlder

(* A save that was acknowledged is in the log, under one number, whatever  *)
(* other saves do.                                                         *)
AcknowledgedIsRecorded ==
    \A r \in Request : op[r] \in {"create", "update"} /\ reply[r] = "ok" =>
        Cardinality({v \in revisions[on[r]] : v.graph = r}) = 1

-----------------------------------------------------------------------------
(* What holds as long as requests do not overlap and none is cut off.      *)

(* The newest revision is the graph in the row. *)
HeadIsRow ==
    Quiet => \A w \in Workflow : row[w] # None =>
        \E v \in revisions[w] : v.no = Highest(w) /\ v.graph = row[w].graph

(* test_multiple_updates_chain_parents and record_save_revision: each      *)
(* revision links to the one before it.                                    *)
ChainLinear == \A w \in Workflow : \A v \in revisions[w] : v.parent = v.no - 1

(* A path in the settings is one the webhook router resolves. *)
PathResolves ==
    Quiet => \A w \in Workflow :
        row[w] # None /\ row[w].settings.path # None => row[w].settings.path \in bindings[w]

(* The settings name a trigger only if a job stands behind it. *)
TriggerHasJob ==
    Quiet => \A w \in Workflow :
        row[w] # None /\ row[w].settings.trigger # None => jobs[w] > 0

(* No request brings a deleted workflow back. *)
DeletedStays ==
    \A w \in Workflow : row[w] # None /\ ~row[w].active => row'[w] # None /\ ~row'[w].active

(* One after the other, saves leave a log whose newest revision is the     *)
(* graph in the row and in which each revision links to the one before;    *)
(* settings name only what is there (workflow_service.py:142-208).         *)
Sequential ==
    /\ [](~mixed => HeadIsRow /\ ChainLinear /\ PathResolves /\ TriggerHasJob)
    /\ [][~mixed' => DeletedStays]_vars

(* What makes that inductive: what the request under way carries, and what *)
(* it alone may have left undone of its workflow.                          *)
Under(w, calls) == {r \in Request : on[r] = w /\ pc[r] \in calls}
Doing(w, o) == \E r \in Under(w, {"save", "commit"}) : op[r] = o

HeadHolds(w) == \E v \in revisions[w] : v.no = Highest(w) /\ v.graph = row[w].graph

RestHolds(w) ==
    /\ row[w] = None => revisions[w] = {} /\ bindings[w] = {}
    /\ \A v \in revisions[w] : v.parent = v.no - 1
    /\ row[w] # None =>
         /\ Under(w, {"head", "number", "insert"}) = {} => HeadHolds(w)
         /\ row[w].settings.path # None /\ ~Doing(w, "unregister") => row[w].settings.path \in bindings[w]
         /\ row[w].settings.trigger # None /\ ~Doing(w, "deactivate") => jobs[w] > 0

(* Before the row is written: what will be written is sound already. *)
Carries(r) ==
    LET dto == copy[r]  now == row[on[r]] IN
    /\ op[r] = "create" => now = None /\ dto.graph = r
    /\ op[r] # "create" => now # None /\ (dto.active => now.active)
    /\ op[r] = "update" => dto.graph = r
    /\ op[r] \notin {"create", "update"} => dto.graph = now.graph
    /\ dto.settings.trigger # None => jobs[on[r]] > 0
    /\ pc[r] = "hook" => op[r] \in {"register", "unregister"}
    /\ pc[r] # "hook" => dto.settings.path = None \/ dto.settings.path \in bindings[on[r]]
    /\ pc[r] = "commit" => loaded[r] = now

(* Afterwards: the numbers that were read are still right. *)
Records(r) ==
    /\ op[r] \in {"create", "update"} /\ copy[r].graph = row[on[r]].graph
    /\ pc[r] \in {"number", "insert"} => parent[r] = Highest(on[r])
    /\ pc[r] = "insert" => next[r] = Highest(on[r]) + 1

TurnHolds(r) ==
    /\ \A q \in InFlight : q = r
    /\ IF pc[r] \in {"hook", "save", "commit"} THEN Carries(r) ELSE Records(r)

SequentialInv ==
    ~mixed => /\ \A w \in Workflow : RestHolds(w)
              /\ \A r \in InFlight : TurnHolds(r)
=============================================================================
