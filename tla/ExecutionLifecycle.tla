-------------------------- MODULE ExecutionLifecycle --------------------------
(***************************************************************************)
(* What an execution promises its owner, whatever dispatches it: the       *)
(* status model of Database/auto_workflow_database/repositories/base.py    *)
(* restricted to the statuses the engine writes, and the order in which    *)
(* node handlers run.  WorkflowRun, under each dispatcher, implements it.  *)
(***************************************************************************)
EXTENDS FiniteSets

CONSTANTS
    Execution,
    Node,
    Edge        \* pairs <<source, target>>

VARIABLES
    status,     \* the row's status; "absent" before it is created
    begun,      \* nodes whose handler was started
    returned    \* nodes whose handler returned and whose result was written

vars == <<status, begun, returned>>

Predecessors(n) == {m \in Node : <<m, n>> \in Edge}

Init ==
    /\ status = [e \in Execution |-> "absent"]
    /\ begun = [e \in Execution |-> {}]
    /\ returned = [e \in Execution |-> {}]

Move(e, from, to) ==
    /\ status[e] = from
    /\ status' = [status EXCEPT ![e] = to]

Submit(e) == Move(e, "absent", "queued") /\ UNCHANGED <<begun, returned>>

(* Given up before any handler ran: no workflow, no credential, no agent. *)
Refuse(e) == Move(e, "queued", "failed") /\ UNCHANGED <<begun, returned>>

Start(e) == Move(e, "queued", "running") /\ UNCHANGED <<begun, returned>>

(* Each handler starts at most once, while the execution runs, when every  *)
(* predecessor has returned.                                               *)
Begin(e, S) ==
    /\ status[e] = "running"
    /\ S # {} /\ S \cap begun[e] = {}
    /\ \A n \in S : Predecessors(n) \subseteq returned[e]
    /\ begun' = [begun EXCEPT ![e] = @ \cup S]
    /\ UNCHANGED <<status, returned>>

(* Also possible after a failure: parallel handlers are not interrupted. *)
Return(e, n) ==
    /\ n \in begun[e] \ returned[e]
    /\ returned' = [returned EXCEPT ![e] = @ \cup {n}]
    /\ UNCHANGED <<status, begun>>

Succeed(e) ==
    /\ returned[e] = Node
    /\ Move(e, "running", "success")
    /\ UNCHANGED <<begun, returned>>

Fail(e) == Move(e, "running", "failed") /\ UNCHANGED <<begun, returned>>

Next ==
    \E e \in Execution :
        \/ Submit(e) \/ Refuse(e) \/ Start(e) \/ Succeed(e) \/ Fail(e)
        \/ \E S \in SUBSET Node : Begin(e, S)
        \/ \E n \in Node : Return(e, n)

Spec == Init /\ [][Next]_vars
=============================================================================
