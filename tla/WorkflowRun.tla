----------------------------- MODULE WorkflowRun -----------------------------
(***************************************************************************)
(* One execution of a workflow by one runner: _execute                     *)
(* (Execution_Engine/src/dispatcher/serverless.py) and run_workflow        *)
(* (Execution_Engine/src/runtime/executor.py) over the executions table    *)
(* (Database/.../execution_repository.py).  A runner is a Celery worker    *)
(* process, in inline mode an API request, or a task of an agent, which    *)
(* has repository calls of its own.  The modules that dispatch runs extend *)
(* this one: they say how a runner comes to a run and what follows it.     *)
(*                                                                         *)
(* Every repository call is a transaction of its own.  update_status and   *)
(* finalize write columns no one else writes, so each is one step;         *)
(* append_node_result reads the row and writes node_results back in two    *)
(* statements, between which a sibling's transaction may commit.           *)
(***************************************************************************)
EXTENDS WorkflowGraph

CONSTANTS
    Execution,
    Runner,
    Node,
    Edge,          \* pairs <<source, target>>
    Levels,        \* the executor's grouping, see ExecutorLevels
    None,          \* no execution
    FailingCalls   \* the calls that may raise in this instance

CallNames == {"load", "resolve", "refuse", "start", "append", "succeed", "finalize", "except"}

ASSUME RunAssumption ==
    /\ None \notin Execution
    /\ Levels \in Seq(SUBSET Node)
    /\ IsLevelling(Node, Edge, Levels)
    /\ Edge \subseteq Node \X Node

VARIABLES
    status, results, finalized,   \* the executions row: status, keys of node_results, duration_ms set
    gone,                         \* what was deleted since the request was validated
    pc, job, level,               \* per runner: program counter, execution, next level's number
    phase, snap,                  \* per runner and node: _run_node's progress, the row it read
    begun, returned               \* history: handler starts, nodes whose _run_node returned

rowVars == <<status, results, finalized>>
runVars == <<pc, job, level, phase, snap>>
historyVars == <<begun, returned>>
wrVars == <<rowVars, gone, runVars, historyVars>>

Statuses == {"absent", "queued", "running", "success", "failed"}
Terminal == {"success", "failed"}
Phases == {"idle", "executing", "writing", "done", "raised"}
RunPCs == {"load", "resolve", "refuse", "start", "level", "gather", "succeed",
           "finalize", "except", "returned"}

-----------------------------------------------------------------------------
WRInit ==
    /\ status = [e \in Execution |-> "absent"]
    /\ results = [e \in Execution |-> {}]
    /\ finalized = [e \in Execution |-> FALSE]
    /\ gone = {}
    /\ pc = [w \in Runner |-> "idle"]
    /\ job = [w \in Runner |-> None]
    /\ level = [w \in Runner |-> 1]
    /\ phase = [w \in Runner |-> [n \in Node |-> "idle"]]
    /\ snap = [w \in Runner |-> [n \in Node |-> {}]]
    /\ begun = [e \in Execution |-> [n \in Node |-> 0]]
    /\ returned = [e \in Execution |-> {}]

Goto(w, from, to) == pc[w] = from /\ pc' = [pc EXCEPT ![w] = to]

(* The awaited call raises and the row is untouched. *)
Raises(w, call, to) ==
    /\ call \in FailingCalls
    /\ Goto(w, call, to)
    /\ UNCHANGED <<rowVars, gone, job, level, phase, snap, historyVars>>

Continues(w, from, to) ==
    /\ Goto(w, from, to)
    /\ UNCHANGED <<rowVars, gone, job, level, phase, snap, historyVars>>

SetStatus(w, s) ==
    /\ status' = [status EXCEPT ![job[w]] = s]
    /\ UNCHANGED <<results, finalized, gone, job, level, phase, snap, historyVars>>

(* _execute is called for e; what is local to a call goes when it is over. *)
TakeJob(w, e) ==
    /\ job' = [job EXCEPT ![w] = e]
    /\ UNCHANGED <<level, phase, snap>>

ForgetRun(w) ==
    /\ pc' = [pc EXCEPT ![w] = "idle"]
    /\ job' = [job EXCEPT ![w] = None]
    /\ level' = [level EXCEPT ![w] = 1]
    /\ phase' = [phase EXCEPT ![w] = [n \in Node |-> "idle"]]
    /\ snap' = [snap EXCEPT ![w] = [n \in Node |-> {}]]

-----------------------------------------------------------------------------
(* _execute: read the two rows, resolve the credentials.  The execution's  *)
(* own row is there: the request committed it before it dispatched.        *)
LoadRows(w) ==
    \/ "workflow" \notin gone /\ Continues(w, "load", "resolve")
    \/ "workflow" \in gone /\ Continues(w, "load", "refuse")
    \/ Raises(w, "load", "returned")

(* KeyError: the credential was deleted between validation and pickup.  Any *)
(* other exception leaves _execute and the row as it is.                    *)
ResolveCredentials(w) ==
    \/ "credential" \notin gone /\ Continues(w, "resolve", "start")
    \/ "credential" \in gone /\ Continues(w, "resolve", "refuse")
    \/ Raises(w, "resolve", "returned")

RefuseRun(w) ==
    \/ Goto(w, "refuse", "returned") /\ SetStatus(w, "failed")
    \/ Raises(w, "refuse", "returned")

(* run_workflow, before its try block. *)
MarkRunning(w) ==
    \/ Goto(w, "start", "level") /\ SetStatus(w, "running")
    \/ Raises(w, "start", "returned")

(* gather() schedules the whole level; each _run_node runs up to its       *)
(* handler's first await before anything else of this execution does.      *)
BeginLevel(w) ==
    /\ Goto(w, "level", "gather")
    /\ level[w] <= Len(Levels)
    /\ phase' = [phase EXCEPT ![w] =
                    [n \in Node |-> IF n \in Levels[level[w]] THEN "executing" ELSE @[n]]]
    /\ begun' = [begun EXCEPT ![job[w]] =
                    [n \in Node |-> IF n \in Levels[level[w]] THEN @[n] + 1 ELSE @[n]]]
    /\ UNCHANGED <<rowVars, gone, job, level, snap, returned>>

(* The loop over levels is over. *)
LevelsDone(w) == level[w] > Len(Levels) /\ Continues(w, "level", "succeed")

-----------------------------------------------------------------------------
(* The tasks gather() started.  They go on while the runner's event loop   *)
(* does, also when gather() has already raised for a sibling.              *)
NodeTask(w, n, from, to) ==
    /\ phase[w][n] = from
    /\ phase' = [phase EXCEPT ![w][n] = to]
    /\ UNCHANGED <<status, finalized, gone, pc, job, level, begun>>

(* execute() returns; append_node_result reads the row. *)
HandlerReturns(w, n) ==
    /\ NodeTask(w, n, "executing", "writing")
    /\ snap' = [snap EXCEPT ![w][n] = results[job[w]]]
    /\ UNCHANGED <<results, returned>>

HandlerRaises(w, n) ==
    /\ NodeTask(w, n, "executing", "raised")
    /\ UNCHANGED <<results, snap, returned>>

(* UPDATE ... SET node_results = the dict built from what was read. *)
WriteResult(w, n) ==
    /\ NodeTask(w, n, "writing", "done")
    /\ results' = [results EXCEPT ![job[w]] = snap[w][n] \cup {n}]
    /\ returned' = [returned EXCEPT ![job[w]] = @ \cup {n}]
    /\ snap' = [snap EXCEPT ![w][n] = {}]

WriteRaises(w, n) ==
    /\ "append" \in FailingCalls
    /\ NodeTask(w, n, "writing", "raised")
    /\ UNCHANGED <<results, snap, returned>>

NodeStep(w) ==
    \E n \in Node :
        HandlerReturns(w, n) \/ HandlerRaises(w, n) \/ WriteResult(w, n) \/ WriteRaises(w, n)

-----------------------------------------------------------------------------
(* Mutants: the first task to return ends the level; a failed task is      *)
(* waited for like the others.                                             *)
GatherReturns_First(w) ==
    /\ Goto(w, "gather", "level")
    /\ \E n \in Levels[level[w]] : phase[w][n] = "done"
    /\ level' = [level EXCEPT ![w] = @ + 1]
    /\ UNCHANGED <<rowVars, gone, job, phase, snap, historyVars>>

GatherRaises_WaitsForAll(w) ==
    /\ Continues(w, "gather", "except")
    /\ \A n \in Levels[level[w]] : phase[w][n] = "raised"

(* gather() returns once every task of the level has; it raises as soon as *)
(* one does.                                                               *)
GatherReturns(w) ==
    /\ Goto(w, "gather", "level")
    /\ \A n \in Levels[level[w]] : phase[w][n] = "done"
    /\ level' = [level EXCEPT ![w] = @ + 1]
    /\ UNCHANGED <<rowVars, gone, job, phase, snap, historyVars>>

GatherRaises(w) ==
    /\ Continues(w, "gather", "except")
    /\ \E n \in Levels[level[w]] : phase[w][n] = "raised"

MarkSuccess(w) ==
    \/ Goto(w, "succeed", "finalize") /\ SetStatus(w, "success")
    \/ Raises(w, "succeed", "except")

(* Still inside the try block. *)
Finalize(w) ==
    \/ /\ Goto(w, "finalize", "returned")
       /\ finalized' = [finalized EXCEPT ![job[w]] = TRUE]
       /\ UNCHANGED <<status, results, gone, job, level, phase, snap, historyVars>>
    \/ Raises(w, "finalize", "except")

(* Mutant: the exception is swallowed. *)
MarkFailed_Silent(w) == Continues(w, "except", "returned")

MarkFailed(w) ==
    \/ Goto(w, "except", "returned") /\ SetStatus(w, "failed")
    \/ Raises(w, "except", "returned")

RunStep(w) ==
    \/ LoadRows(w) \/ ResolveCredentials(w) \/ RefuseRun(w) \/ MarkRunning(w)
    \/ BeginLevel(w) \/ LevelsDone(w)
    \/ GatherReturns(w) \/ GatherRaises(w)
    \/ MarkSuccess(w) \/ Finalize(w) \/ MarkFailed(w)

(* The user deletes the credential, or the workflow's row goes with its    *)
(* owner: nothing in the engine prevents either.                           *)
Delete ==
    /\ \E x \in {"workflow", "credential"} \ gone : gone' = gone \cup {x}
    /\ UNCHANGED <<rowVars, runVars, historyVars>>
=============================================================================
