-------------------------- MODULE ServerlessDispatch --------------------------
(***************************************************************************)
(* The Celery path: execute_workflow (API_Server/app/services/             *)
(* workflow_service.py) creates the row, wakes the worker pool             *)
(* (wake_worker.py) and enqueues a task; the task (Execution_Engine/src/   *)
(* dispatcher/serverless.py) claims the execution's idempotency key with   *)
(* SETNX, runs it and leaves the key as "completed".                       *)
(*                                                                         *)
(* The broker (Celery over Redis) is external: it is modelled by what the  *)
(* code relies on.  Messages are acknowledged late (task_acks_late), so a  *)
(* delivery held by a worker that dies returns to the queue; a delivery    *)
(* held longer than the visibility timeout is delivered again.  The keys   *)
(* live in the same Redis instance, which keeps nothing across a reboot.   *)
(***************************************************************************)
EXTENDS WorkflowRun

CONSTANTS
    MaxPublishes,   \* messages one send_task may leave when its publisher retries
    MaxRedeliveries, MaxCrashes, MaxReboots   \* bounds on the faults

ASSUME DispatchAssumption ==
    MaxPublishes \in 1..2
    /\ MaxRedeliveries \in Nat /\ MaxCrashes \in Nat /\ MaxReboots \in Nat

VARIABLES
    api,         \* per execution: where the request that creates it stands
    pool,        \* the worker pool has instances
    recentWake,  \* WakeWorker: the throttle window is open
    copies,      \* per execution: its messages in the queue
    sentinel,    \* per execution: the idempotency key
    held,        \* per worker: the broker still counts its delivery as unacknowledged
    faults       \* how often each fault has struck

brokerVars == <<copies, sentinel, held>>
apiVars == <<api, pool, recentWake>>
vars == <<wrVars, apiVars, brokerVars, faults>>

ApiPCs == {"idle", "wake", "patching", "send", "answered"}
FaultKinds == {"redelivery", "crash", "reboot"}
WorkerPCs == {"idle", "claim", "close"} \cup RunPCs

Init ==
    /\ WRInit
    /\ api = [e \in Execution |-> "idle"]
    /\ pool = FALSE
    /\ recentWake = FALSE
    /\ copies = [e \in Execution |-> 0]
    /\ sentinel = [e \in Execution |-> "none"]
    /\ held = [w \in Runner |-> FALSE]
    /\ faults = [k \in FaultKinds |-> 0]

-----------------------------------------------------------------------------
(* execute_workflow. *)
ApiGoto(e, from, to) == api[e] = from /\ api' = [api EXCEPT ![e] = to]

(* Workflow and credentials are there; the row is committed as queued. *)
Request(e) ==
    /\ gone = {}
    /\ ApiGoto(e, "idle", "wake")
    /\ status' = [status EXCEPT ![e] = "queued"]
    /\ UNCHANGED <<results, finalized, gone, runVars, historyVars, pool, recentWake,
                   brokerVars, faults>>

(* WakeWorker.wake: nothing inside the throttle window, else one Admin API *)
(* call, whose failure is swallowed.  The window opens when the call has   *)
(* succeeded.                                                              *)
WakeSkipped(e) ==
    /\ recentWake
    /\ ApiGoto(e, "wake", "send")
    /\ UNCHANGED <<wrVars, pool, recentWake, brokerVars, faults>>

WakePatch(e) ==
    /\ ~recentWake
    /\ ApiGoto(e, "wake", "patching")
    /\ UNCHANGED <<wrVars, pool, recentWake, brokerVars, faults>>

WakePatched(e) ==
    /\ ApiGoto(e, "patching", "send")
    /\ pool' = TRUE
    /\ recentWake' = TRUE
    /\ UNCHANGED <<wrVars, brokerVars, faults>>

WakeFails(e) ==
    /\ "wake" \in FailingCalls
    /\ ApiGoto(e, "patching", "send")
    /\ UNCHANGED <<wrVars, pool, recentWake, brokerVars, faults>>

(* send_task; its exception is logged and the request answers all the same. *)
Send(e) ==
    /\ ApiGoto(e, "send", "answered")
    /\ \E k \in 1..MaxPublishes : copies' = [copies EXCEPT ![e] = k]
    /\ UNCHANGED <<wrVars, pool, recentWake, sentinel, held, faults>>

SendFails(e) ==
    /\ "send" \in FailingCalls
    /\ ApiGoto(e, "send", "answered")
    /\ UNCHANGED <<wrVars, pool, recentWake, brokerVars, faults>>

ApiStep(e) ==
    \/ Request(e) \/ WakeSkipped(e) \/ WakePatch(e) \/ WakePatched(e) \/ WakeFails(e)
    \/ Send(e) \/ SendFails(e)

-----------------------------------------------------------------------------
(* The worker process: a solo pool takes one message at a time. *)
Deliver(w, e) ==
    /\ pool
    /\ copies[e] > 0
    /\ Goto(w, "idle", "claim")
    /\ TakeJob(w, e)
    /\ copies' = [copies EXCEPT ![e] = @ - 1]
    /\ held' = [held EXCEPT ![w] = TRUE]
    /\ UNCHANGED <<rowVars, gone, historyVars, apiVars, sentinel, faults>>

(* Mutant: the key is deleted on release. *)
Release_Deletes(w) ==
    /\ Continues(w, "returned", "close")
    /\ sentinel' = [sentinel EXCEPT ![job[w]] = "none"]
    /\ UNCHANGED <<apiVars, copies, held, faults>>

(* SET execution:{id} running NX. *)
ClaimSucceeds(w) ==
    /\ Continues(w, "claim", "load")
    /\ sentinel[job[w]] = "none"
    /\ sentinel' = [sentinel EXCEPT ![job[w]] = "running"]
    /\ UNCHANGED <<apiVars, copies, held, faults>>

ClaimSkips(w) ==
    /\ Continues(w, "claim", "close")
    /\ sentinel[job[w]] # "none"
    /\ UNCHANGED <<apiVars, brokerVars, faults>>

ClaimRaises(w) ==
    /\ "claim" \in FailingCalls
    /\ Continues(w, "claim", "close")
    /\ UNCHANGED <<apiVars, brokerVars, faults>>

(* The finally block, whether _execute returned or raised. *)
Release(w) ==
    /\ Continues(w, "returned", "close")
    /\ \/ sentinel' = [sentinel EXCEPT ![job[w]] = "completed"]
       \/ "release" \in FailingCalls /\ UNCHANGED sentinel
    /\ UNCHANGED <<apiVars, copies, held, faults>>

(* The event loop ends: tasks gather() left behind are cancelled. *)
StopProcessing(w) ==
    /\ ForgetRun(w)
    /\ held' = [held EXCEPT ![w] = FALSE]
    /\ UNCHANGED <<rowVars, gone, historyVars, apiVars, sentinel>>

(* asyncio.run returns or raises; either way the message is acknowledged. *)
Acknowledge(w) ==
    /\ pc[w] = "close"
    /\ StopProcessing(w)
    /\ UNCHANGED <<copies, faults>>

Execute(w) ==
    /\ RunStep(w)
    /\ UNCHANGED <<apiVars, brokerVars, faults>>

ExecuteNode(w) ==
    /\ NodeStep(w)
    /\ UNCHANGED <<apiVars, brokerVars, faults>>

WorkerStep(w) ==
    \/ \E e \in Execution : Deliver(w, e)
    \/ ClaimSucceeds(w) \/ ClaimSkips(w) \/ ClaimRaises(w)
    \/ Execute(w) \/ Release(w) \/ Acknowledge(w)

-----------------------------------------------------------------------------
(* Faults and the environment. *)
Strikes(kind, bound) == faults[kind] < bound /\ faults' = [faults EXCEPT ![kind] = @ + 1]

Returned(w) == [copies EXCEPT ![job[w]] = @ + 1]

(* The instance dies (SIGKILL after the grace period, OOM). *)
Crash(w) ==
    /\ Strikes("crash", MaxCrashes)
    /\ pc[w] # "idle"
    /\ copies' = IF held[w] THEN Returned(w) ELSE copies
    /\ StopProcessing(w)

(* The visibility timeout passes while the worker is still busy. *)
Redeliver(w) ==
    /\ Strikes("redelivery", MaxRedeliveries)
    /\ held[w]
    /\ held' = [held EXCEPT ![w] = FALSE]
    /\ copies' = Returned(w)
    /\ UNCHANGED <<wrVars, apiVars, sentinel>>

(* Basic tier: queue, unacknowledged deliveries and keys are gone. *)
Reboot ==
    /\ Strikes("reboot", MaxReboots)
    /\ copies' = [e \in Execution |-> 0]
    /\ sentinel' = [e \in Execution |-> "none"]
    /\ held' = [w \in Runner |-> FALSE]
    /\ UNCHANGED <<wrVars, apiVars>>

(* The 24 h TTL.  The key is taken to outlive every message that names the *)
(* execution, as the comment on IDEMPOTENCY_TTL_SECONDS has it.            *)
Expire(e) ==
    /\ sentinel[e] # "none"
    /\ api[e] = "answered" /\ copies[e] = 0 /\ \A w \in Runner : job[w] # e
    /\ sentinel' = [sentinel EXCEPT ![e] = "none"]
    /\ UNCHANGED <<wrVars, apiVars, copies, held, faults>>

ThrottleEnds ==
    /\ recentWake
    /\ recentWake' = FALSE
    /\ UNCHANGED <<wrVars, api, pool, brokerVars, faults>>

(* An operator or watchdog sets the instance count to 0 once all is idle. *)
PoolSleeps ==
    /\ pool
    /\ \A e \in Execution : copies[e] = 0
    /\ \A w \in Runner : pc[w] = "idle"
    /\ pool' = FALSE
    /\ UNCHANGED <<wrVars, api, recentWake, brokerVars, faults>>

Environment ==
    \/ \E w \in Runner : Crash(w) \/ Redeliver(w)
    \/ Reboot
    \/ \E e \in Execution : Expire(e)
    \/ ThrottleEnds \/ PoolSleeps
    \/ Delete /\ UNCHANGED <<apiVars, brokerVars, faults>>

Next ==
    \/ \E e \in Execution : ApiStep(e)
    \/ \E w \in Runner : WorkerStep(w) \/ ExecuteNode(w)
    \/ Environment

Spec == Init /\ [][Next]_vars

(* A request runs to its answer, a worker to its acknowledgement, and a    *)
(* handler returns or raises: each awaits calls that time out.             *)
Fairness ==
    /\ \A e \in Execution : WF_vars(~(api[e] = "idle") /\ ApiStep(e))
    /\ \A w \in Runner : WF_vars(WorkerStep(w)) /\ WF_vars(ExecuteNode(w))

FairSpec == Spec /\ Fairness

-----------------------------------------------------------------------------
(* Every variable stays in its range. *)
TypeOK ==
    /\ status \in [Execution -> Statuses]
    /\ results \in [Execution -> SUBSET Node]
    /\ finalized \in [Execution -> BOOLEAN]
    /\ gone \subseteq {"workflow", "credential"}
    /\ pc \in [Runner -> WorkerPCs]
    /\ job \in [Runner -> Execution \cup {None}]
    /\ level \in [Runner -> 1..(Len(Levels) + 1)]
    /\ phase \in [Runner -> [Node -> Phases]]
    /\ snap \in [Runner -> [Node -> SUBSET Node]]
    /\ begun \in [Execution -> [Node -> Nat]]
    /\ returned \in [Execution -> SUBSET Node]
    /\ api \in [Execution -> ApiPCs]
    /\ pool \in BOOLEAN /\ recentWake \in BOOLEAN
    /\ copies \in [Execution -> Nat]
    /\ sentinel \in [Execution -> {"none", "running", "completed"}]
    /\ held \in [Runner -> BOOLEAN]
    /\ faults \in [FaultKinds -> Nat]

Busy(w) == pc[w] \in RunPCs \/ \E n \in Node : phase[w][n] \in {"executing", "writing"}

(* The broker still has every key and message it was given.  Each promise  *)
(* of the guard below ends with a reboot: the code keeps the keys nowhere  *)
(* else.                                                                   *)
KeysIntact == faults["reboot"] = 0

(* The SETNX guard: no handler of an execution starts twice, whatever the  *)
(* publisher repeats, the broker delivers again or a worker leaves behind. *)
AtMostOnce == KeysIntact => \A e \in Execution, n \in Node : begun[e][n] <= 1

(* Two workers never work for the same execution, handlers that go on     *)
(* after their run has failed included.                                    *)
OneRunner ==
    KeysIntact =>
        \A v, w \in Runner : Busy(v) /\ Busy(w) /\ job[v] = job[w] => v = w

(* However often a task is enqueued, redelivered or taken over, one worker *)
(* runs the execution and starts each of its handlers once.                *)
RunsOnce == AtMostOnce /\ OneRunner

(* Whatever the dispatcher does, an execution lives as ExecutionLifecycle  *)
(* says: handlers start only while it runs and after their predecessors,   *)
(* success means every handler returned, and a final status stays.         *)
Lifecycle ==
    INSTANCE ExecutionLifecycle WITH
        begun <- [e \in Execution |-> {n \in Node : begun[e][n] > 0}]

ImplementsLifecycle == Lifecycle!Spec

(* No worker has died: what a dead one had claimed keeps its key, so the   *)
(* delivery that takes over is skipped.                                    *)
NobodyDied == faults["crash"] = 0

(* Acknowledged after the run, and skipped only while another worker has   *)
(* it: a task that was enqueued and whose row is not final is still in the *)
(* queue or with a worker.                                                 *)
NothingForgotten ==
    \A e \in Execution :
        KeysIntact /\ NobodyDied /\ api[e] = "answered" /\ status[e] \notin Terminal =>
            copies[e] > 0 \/ \E w \in Runner : job[w] = e

(* A task in the queue of a pool that is up gets its execution finished,  *)
(* unless the queue is lost.                                               *)
TasksSettle ==
    \A e \in Execution :
        (copies[e] > 0 /\ pool) ~> (status[e] \in Terminal \/ ~KeysIntact)

-----------------------------------------------------------------------------
(* The inductive invariant behind AtMostOnce and OneRunner.               *)

(* What a runner remembers matches where it stands: nothing before the     *)
(* first level, and no task of a level that is still to come.              *)
Progress(w) ==
    /\ job[w] \in Execution <=> pc[w] # "idle"
    /\ held[w] => pc[w] # "idle"
    /\ pc[w] \in {"idle", "claim", "load", "resolve", "refuse", "start"} =>
          level[w] = 1 /\ \A n \in Node : phase[w][n] = "idle"
    /\ pc[w] = "level" =>
          \A k \in DOMAIN Levels : k >= level[w] =>
              \A n \in Levels[k] : phase[w][n] = "idle"
    /\ pc[w] = "gather" =>
          /\ level[w] <= Len(Levels)
          /\ \A k \in DOMAIN Levels : k > level[w] =>
                 \A n \in Levels[k] : phase[w][n] = "idle"

ProgressInv == \A w \in Runner : Progress(w)

(* w is, or was in this delivery, past its claim. *)
Entered(w) == pc[w] \in RunPCs \/ \E n \in Node : phase[w][n] # "idle"

(* Who entered holds the key, alone. *)
KeyInv ==
    /\ \A w \in Runner : Entered(w) => sentinel[job[w]] # "none"
    /\ \A v, w \in Runner : Entered(v) /\ Entered(w) /\ job[v] = job[w] => v = w

(* A worker may yet come to claim e. *)
Pending(e) == api[e] # "answered" \/ copies[e] > 0 \/ \E w \in Runner : job[w] = e

(* As long as the key is free for a worker that may come, nothing began. *)
FreshInv ==
    \A e \in Execution :
        Pending(e) /\ sentinel[e] = "none" => \A n \in Node : begun[e][n] = 0

(* The running holder's own record of what it began is complete. *)
BegunInv ==
    \A w \in Runner, n \in Node :
        pc[w] \in RunPCs /\ phase[w][n] = "idle" => begun[job[w]][n] = 0

IInv ==
    /\ TypeOK /\ ProgressInv
    /\ KeysIntact => KeyInv /\ FreshInv /\ BegunInv
    /\ AtMostOnce

(* The inductive invariant behind NothingForgotten, for calls that may fail *)
(* without taking the run along: whose row is not final either waits with  *)
(* its key free or is with a worker that has yet to write its end.         *)
Working(w) == pc[w] \in RunPCs \ {"returned"}

Carried(e) ==
    \/ /\ sentinel[e] = "none"
       /\ \/ api[e] # "answered" \/ copies[e] > 0
          \/ \E w \in Runner : job[w] = e /\ pc[w] = "claim"
    \/ \E w \in Runner : job[w] = e /\ Working(w)

CarriedInv ==
    KeysIntact /\ NobodyDied =>
        /\ \A e \in Execution : status[e] \notin Terminal => Carried(e)
        /\ \A e \in Execution : api[e] = "idle" =>
               status[e] = "absent" /\ copies[e] = 0 /\ \A w \in Runner : job[w] # e
        /\ \A w \in Runner : pc[w] = "finalize" => status[job[w]] \in Terminal

-----------------------------------------------------------------------------
(* What docs, comments and tests say and the code does not do.             *)

(* test_diamond_parallel: both parallel nodes' results are in the row of a *)
(* successful execution.                                                   *)
SuccessRecorded == \A e \in Execution : status[e] = "success" => results[e] = Node
=============================================================================
