----------------------- MODULE ServerlessDispatchProofs -----------------------
(***************************************************************************)
(* The SETNX guard of the Celery path works for every number of            *)
(* executions, workers, messages, redeliveries and crashes, and for every  *)
(* workflow: as long as the broker keeps its keys no handler of an         *)
(* execution starts twice and no two workers work for one execution; as    *)
(* long as no worker dies no task is forgotten; and every step of the      *)
(* dispatch is one of ExecutionLifecycle, or none.                         *)
(***************************************************************************)
EXTENDS ServerlessDispatch, TLAPS

USE DEF RunPCs, WorkerPCs, FaultKinds

LEMMA LevelsType ==
  Levels \in Seq(SUBSET Node) /\ Len(Levels) \in Nat /\ DOMAIN Levels = 1..Len(Levels)
  BY RunAssumption

LEMMA InitTypeOK == Init => TypeOK
  <1> SUFFICES ASSUME Init PROVE TypeOK
    OBVIOUS
  <1>1. level \in [Runner -> 1..(Len(Levels) + 1)]
    BY LevelsType DEF Init, WRInit
  <1>2. phase \in [Runner -> [Node -> Phases]] /\ snap \in [Runner -> [Node -> SUBSET Node]]
    BY DEF Init, WRInit, Phases
  <1>3. begun \in [Execution -> [Node -> Nat]]
    BY DEF Init, WRInit
  <1>4. QED
    BY <1>1, <1>2, <1>3 DEF Init, WRInit, TypeOK, Statuses, ApiPCs

LEMMA TypeApi ==
  ASSUME TypeOK, NEW e \in Execution, ApiStep(e)
  PROVE  TypeOK'
  <1> USE DEF TypeOK, rowVars, runVars, historyVars, wrVars, brokerVars, apiVars, ApiGoto, ApiPCs
  <1>1. CASE Request(e)
    BY <1>1 DEF Request, Statuses
  <1>2. CASE WakeSkipped(e)
    BY <1>2 DEF WakeSkipped
  <1>3. CASE WakePatch(e) \/ WakePatched(e) \/ WakeFails(e)
    BY <1>3 DEF WakePatch, WakePatched, WakeFails
  <1>4. CASE Send(e)
    BY <1>4, DispatchAssumption DEF Send
  <1>5. CASE SendFails(e)
    BY <1>5 DEF SendFails
  <1>6. QED
    BY <1>1, <1>2, <1>3, <1>4, <1>5 DEF ApiStep

LEMMA ApiKeepsRuns ==
  ASSUME NEW e \in Execution, ApiStep(e)
  PROVE  UNCHANGED <<runVars, historyVars, sentinel, held>>
  BY DEF ApiStep, Request, WakeSkipped, WakePatch, WakePatched, WakeFails, Send, SendFails,
         wrVars, brokerVars

LEMMA TypeRun ==
  ASSUME TypeOK, ProgressInv, NEW w \in Runner, Execute(w)
  PROVE  TypeOK'
  <1> USE DEF TypeOK, rowVars, runVars, historyVars, wrVars, brokerVars, apiVars, Goto, Continues,
              Raises, SetStatus, Execute
  <1>1. CASE LoadRows(w)
    BY <1>1 DEF LoadRows
  <1>2. CASE ResolveCredentials(w)
    BY <1>2 DEF ResolveCredentials
  <1>3. CASE RefuseRun(w)
    BY <1>3 DEF RefuseRun, Statuses
  <1>4. CASE MarkRunning(w)
    BY <1>4 DEF MarkRunning, Statuses
  <1>5. CASE BeginLevel(w)
    <2> DEFINE ph == [n \in Node |-> IF n \in Levels[level[w]] THEN "executing" ELSE phase[w][n]]
               bg == [n \in Node |-> IF n \in Levels[level[w]] THEN begun[job[w]][n] + 1
                                                              ELSE begun[job[w]][n]]
    <2>1. ph \in [Node -> Phases]
      BY DEF Phases
    <2>2. job[w] \in Execution
      BY <1>5 DEF BeginLevel, ProgressInv, Progress
    <2>3. bg \in [Node -> Nat]
      BY <2>2
    <2>4. phase' = [phase EXCEPT ![w] = ph] /\ begun' = [begun EXCEPT ![job[w]] = bg]
      BY <1>5, <2>2 DEF BeginLevel
    <2> HIDE DEF ph, bg
    <2>5. phase' \in [Runner -> [Node -> Phases]] /\ begun' \in [Execution -> [Node -> Nat]]
      BY <2>1, <2>3, <2>4
    <2>6. pc' \in [Runner -> WorkerPCs]
          /\ UNCHANGED <<rowVars, gone, job, level, snap, returned, apiVars, brokerVars, faults>>
      BY <1>5 DEF BeginLevel
    <2>7. QED
      BY <2>5, <2>6
  <1>6. CASE LevelsDone(w)
    BY <1>6 DEF LevelsDone
  <1>7. CASE GatherReturns(w)
    BY <1>7, LevelsType DEF GatherReturns, ProgressInv, Progress
  <1>8. CASE GatherRaises(w)
    BY <1>8 DEF GatherRaises
  <1>9. CASE MarkSuccess(w)
    BY <1>9 DEF MarkSuccess, Statuses
  <1>10. CASE Finalize(w)
    BY <1>10 DEF Finalize
  <1>11. CASE MarkFailed(w)
    BY <1>11 DEF MarkFailed, Statuses
  <1>12. QED
    BY <1>1, <1>2, <1>3, <1>4, <1>5, <1>6, <1>7, <1>8, <1>9, <1>10, <1>11 DEF RunStep

LEMMA TypeNode ==
  ASSUME TypeOK, ProgressInv, NEW w \in Runner, ExecuteNode(w)
  PROVE  TypeOK'
  <1> USE DEF TypeOK, rowVars, runVars, historyVars, wrVars, brokerVars, apiVars, NodeTask,
              ExecuteNode, Phases
  <1> SUFFICES ASSUME NEW n \in Node,
                      \/ HandlerReturns(w, n) \/ HandlerRaises(w, n)
                      \/ WriteResult(w, n) \/ WriteRaises(w, n)
               PROVE  TypeOK'
    BY DEF NodeStep
  <1>0. job[w] \in Execution
    BY DEF HandlerReturns, HandlerRaises, WriteResult, WriteRaises, ProgressInv, Progress
  <1>1. CASE HandlerReturns(w, n)
    BY <1>1, <1>0 DEF HandlerReturns
  <1>2. CASE HandlerRaises(w, n)
    BY <1>2 DEF HandlerRaises
  <1>3. CASE WriteResult(w, n)
    BY <1>3, <1>0 DEF WriteResult
  <1>4. CASE WriteRaises(w, n)
    BY <1>4 DEF WriteRaises
  <1>5. QED
    BY <1>1, <1>2, <1>3, <1>4

LEMMA TypeWorker ==
  ASSUME TypeOK, ProgressInv, NEW w \in Runner, WorkerStep(w)
  PROVE  TypeOK'
  <1> USE DEF TypeOK, rowVars, runVars, historyVars, wrVars, brokerVars, apiVars, Goto, Continues
  <1>1. ASSUME NEW e \in Execution, Deliver(w, e)
        PROVE  TypeOK'
    BY <1>1 DEF Deliver, TakeJob
  <1>2. CASE ClaimSucceeds(w)
    BY <1>2 DEF ClaimSucceeds
  <1>3. CASE ClaimSkips(w) \/ ClaimRaises(w)
    BY <1>3 DEF ClaimSkips, ClaimRaises
  <1>4. CASE Execute(w)
    BY <1>4, TypeRun
  <1>5. CASE Release(w)
    BY <1>5 DEF Release
  <1>6. CASE Acknowledge(w)
    BY <1>6, LevelsType DEF Acknowledge, StopProcessing, ForgetRun, Phases
  <1>7. QED
    BY <1>1, <1>2, <1>3, <1>4, <1>5, <1>6 DEF WorkerStep

LEMMA TypeEnvironment ==
  ASSUME TypeOK, ProgressInv, Environment
  PROVE  TypeOK'
  <1> USE DEF TypeOK, rowVars, runVars, historyVars, wrVars, brokerVars, apiVars, Strikes
  <1>1. ASSUME NEW w \in Runner, Crash(w)
        PROVE  TypeOK'
    <2>1. copies' \in [Execution -> Nat]
      BY <1>1 DEF Crash, Returned, ProgressInv, Progress
    <2>2. faults' \in [FaultKinds -> Nat]
      BY <1>1 DEF Crash
    <2>3. phase' \in [Runner -> [Node -> Phases]] /\ snap' \in [Runner -> [Node -> SUBSET Node]]
      BY <1>1 DEF Crash, StopProcessing, ForgetRun, Phases
    <2>4. level' \in [Runner -> 1..(Len(Levels) + 1)]
      BY <1>1, LevelsType DEF Crash, StopProcessing, ForgetRun
    <2>5. /\ pc' \in [Runner -> WorkerPCs]
          /\ job' \in [Runner -> Execution \cup {None}]
          /\ held' \in [Runner -> BOOLEAN]
      BY <1>1 DEF Crash, StopProcessing, ForgetRun
    <2>6. UNCHANGED <<rowVars, gone, historyVars, apiVars, sentinel>>
      BY <1>1 DEF Crash, StopProcessing
    <2>7. QED
      BY <2>1, <2>2, <2>3, <2>4, <2>5, <2>6
  <1>2. ASSUME NEW w \in Runner, Redeliver(w)
        PROVE  TypeOK'
    <2>1. copies' \in [Execution -> Nat]
      BY <1>2 DEF Redeliver, Returned, ProgressInv, Progress
    <2>2. faults' \in [FaultKinds -> Nat] /\ held' \in [Runner -> BOOLEAN]
      BY <1>2 DEF Redeliver
    <2>3. UNCHANGED <<wrVars, apiVars, sentinel>>
      BY <1>2 DEF Redeliver
    <2>4. QED
      BY <2>1, <2>2, <2>3
  <1>3. CASE Reboot
    BY <1>3 DEF Reboot
  <1>4. ASSUME NEW e \in Execution, Expire(e)
        PROVE  TypeOK'
    BY <1>4 DEF Expire
  <1>5. CASE ThrottleEnds \/ PoolSleeps
    BY <1>5 DEF ThrottleEnds, PoolSleeps
  <1>6. CASE Delete /\ UNCHANGED <<apiVars, brokerVars, faults>>
    BY <1>6 DEF Delete
  <1>7. QED
    BY <1>1, <1>2, <1>3, <1>4, <1>5, <1>6 DEF Environment

(***************************************************************************)
(* Progress.                                                               *)
(***************************************************************************)
LEMMA LevelsDisjoint ==
  ASSUME NEW j \in DOMAIN Levels, NEW k \in DOMAIN Levels, NEW n \in Levels[j], n \in Levels[k]
  PROVE  j = k
  BY RunAssumption DEF IsLevelling

LEMMA ProgressKept ==
  ASSUME NEW v \in Runner, Progress(v),
         pc'[v] = pc[v], job'[v] = job[v], level'[v] = level[v], phase'[v] = phase[v],
         held'[v] => held[v]
  PROVE  Progress(v)'
  BY DEF Progress

LEMMA ProgressRun ==
  ASSUME TypeOK, ProgressInv, NEW w \in Runner, Execute(w)
  PROVE  ProgressInv'
  <1> USE DEF Goto, Continues, Raises, SetStatus
  <1>0. Progress(w) /\ UNCHANGED <<job, held>>
    BY DEF ProgressInv, Execute, RunStep, LoadRows, ResolveCredentials, RefuseRun, MarkRunning,
           BeginLevel, LevelsDone, GatherReturns, GatherRaises, MarkSuccess, Finalize, MarkFailed,
           brokerVars
  <1>1. ASSUME NEW v \in Runner, v # w
        PROVE  Progress(v)'
    <2>1. pc'[v] = pc[v] /\ level'[v] = level[v] /\ phase'[v] = phase[v]
      BY <1>1 DEF TypeOK, Execute, RunStep, LoadRows, ResolveCredentials, RefuseRun, MarkRunning,
             BeginLevel, LevelsDone, GatherReturns, GatherRaises, MarkSuccess, Finalize, MarkFailed
    <2>2. QED
      BY <1>0, <2>1, ProgressKept DEF ProgressInv
  <1>2. Progress(w)'
    <2> USE <1>0
    <2> USE DEF TypeOK
    <2>1. CASE LoadRows(w) \/ ResolveCredentials(w) \/ RefuseRun(w)
      BY <2>1 DEF LoadRows, ResolveCredentials, RefuseRun, Progress
    <2>2. CASE MarkRunning(w)
      BY <2>2, LevelsType DEF MarkRunning, Progress
    <2>3. CASE BeginLevel(w)
      <3>1. /\ pc'[w] = "gather" /\ pc[w] = "level"
            /\ level'[w] = level[w] /\ level[w] <= Len(Levels)
            /\ \A n \in Node :
                  phase'[w][n] = IF n \in Levels[level[w]] THEN "executing" ELSE phase[w][n]
        BY <2>3 DEF BeginLevel
      <3>2. level[w] \in DOMAIN Levels
        BY <3>1, LevelsType
      <3>3. ASSUME NEW k \in DOMAIN Levels, k > level[w], NEW n \in Levels[k]
            PROVE  phase'[w][n] = "idle"
        <4>1. n \in Node
          BY <3>3, LevelsType
        <4>2. n \notin Levels[level[w]]
          BY <3>2, <3>3, LevelsDisjoint
        <4>3. phase[w][n] = "idle"
          BY <3>1, <3>3 DEF Progress
        <4>4. QED
          BY <3>1, <4>1, <4>2, <4>3
      <3>4. QED
        BY <3>1, <3>3 DEF Progress
    <2>4. CASE GatherReturns(w)
      <3>1. /\ pc'[w] = "level" /\ pc[w] = "gather"
            /\ level'[w] = level[w] + 1 /\ phase' = phase
        BY <2>4 DEF GatherReturns
      <3>2. \A k \in DOMAIN Levels : k >= level[w] + 1 => k > level[w]
        BY LevelsType
      <3>3. QED
        BY <3>1, <3>2 DEF Progress
    <2>5. CASE LevelsDone(w) \/ GatherRaises(w) \/ MarkSuccess(w) \/ Finalize(w) \/ MarkFailed(w)
      BY <2>5 DEF LevelsDone, GatherRaises, MarkSuccess, Finalize, MarkFailed, Progress
    <2>6. QED
      BY <2>1, <2>2, <2>3, <2>4, <2>5 DEF Execute, RunStep
  <1>3. QED
    BY <1>1, <1>2 DEF ProgressInv

LEMMA StopKeepsProgress ==
  ASSUME TypeOK, ProgressInv, NEW w \in Runner, StopProcessing(w)
  PROVE  ProgressInv'
  <1>1. /\ pc'[w] = "idle" /\ job'[w] = None /\ level'[w] = 1 /\ ~held'[w]
        /\ \A n \in Node : phase'[w][n] = "idle"
    BY DEF StopProcessing, ForgetRun, TypeOK
  <1>2. Progress(w)'
    BY <1>1, RunAssumption DEF Progress
  <1>3. ASSUME NEW v \in Runner, v # w
        PROVE  Progress(v)'
    BY <1>3, ProgressKept DEF ProgressInv, StopProcessing, ForgetRun, TypeOK
  <1>4. QED
    BY <1>2, <1>3 DEF ProgressInv

LEMMA ProgressNode ==
  ASSUME TypeOK, ProgressInv, NEW w \in Runner, ExecuteNode(w)
  PROVE  ProgressInv'
  <1>1. PICK n \in Node :
           \/ HandlerReturns(w, n) \/ HandlerRaises(w, n)
           \/ WriteResult(w, n) \/ WriteRaises(w, n)
    BY DEF ExecuteNode, NodeStep
  <1>2. /\ UNCHANGED <<pc, job, level, held>>
        /\ phase[w][n] # "idle"
        /\ \A v \in Runner, m \in Node : phase[v][m] = "idle" => phase'[v][m] = "idle"
    <2>1. PICK from \in {"executing", "writing"}, to \in Phases : NodeTask(w, n, from, to)
      BY <1>1 DEF HandlerReturns, HandlerRaises, WriteResult, WriteRaises, Phases
    <2>2. /\ phase[w][n] = from /\ phase' = [phase EXCEPT ![w][n] = to]
          /\ UNCHANGED <<pc, job, level>>
      BY <2>1 DEF NodeTask
    <2>3. UNCHANGED held
      BY DEF ExecuteNode, brokerVars
    <2>4. QED
      BY <2>2, <2>3 DEF TypeOK
  <1>3. QED
    BY <1>2, LevelsType DEF ProgressInv, Progress

LEMMA ProgressWorker ==
  ASSUME TypeOK, ProgressInv, NEW w \in Runner, WorkerStep(w)
  PROVE  ProgressInv'
  <1> USE DEF Goto, Continues
  <1>1. CASE Execute(w)
    BY <1>1, ProgressRun
  <1>2. ASSUME NEW e \in Execution, Deliver(w, e)
        PROVE  ProgressInv'
    <2>1. /\ pc[w] = "idle" /\ pc'[w] = "claim" /\ job'[w] = e
          /\ UNCHANGED <<level, phase>>
      BY <1>2 DEF Deliver, TakeJob, TypeOK
    <2>2. Progress(w)'
      BY <2>1 DEF ProgressInv, Progress
    <2>3. ASSUME NEW v \in Runner, v # w PROVE Progress(v)'
      BY <1>2, <2>3, ProgressKept DEF ProgressInv, Deliver, TakeJob, TypeOK
    <2>4. QED
      BY <2>2, <2>3 DEF ProgressInv
  <1>3. CASE ClaimSucceeds(w) \/ ClaimSkips(w) \/ ClaimRaises(w) \/ Release(w)
    <2>1. /\ pc[w] \in {"claim", "returned"} /\ pc'[w] \in {"load", "close"}
          /\ pc'[w] = "load" => pc[w] = "claim"
          /\ UNCHANGED <<job, level, phase, held>>
      BY <1>3 DEF ClaimSucceeds, ClaimSkips, ClaimRaises, Release, TypeOK, brokerVars
    <2>2. Progress(w)'
      BY <2>1 DEF ProgressInv, Progress
    <2>3. ASSUME NEW v \in Runner, v # w PROVE Progress(v)'
      <3>1. pc'[v] = pc[v]
        BY <1>3, <2>3 DEF ClaimSucceeds, ClaimSkips, ClaimRaises, Release, TypeOK
      <3>2. QED
        BY <2>1, <3>1, ProgressKept DEF ProgressInv
    <2>4. QED
      BY <2>2, <2>3 DEF ProgressInv
  <1>4. CASE Acknowledge(w)
    BY <1>4, StopKeepsProgress DEF Acknowledge
  <1>5. QED
    BY <1>1, <1>2, <1>3, <1>4 DEF WorkerStep

LEMMA ProgressEnvironment ==
  ASSUME TypeOK, ProgressInv, Environment
  PROVE  ProgressInv'
  <1>1. ASSUME NEW w \in Runner, Crash(w)
        PROVE  ProgressInv'
    BY <1>1, StopKeepsProgress DEF Crash
  <1>2. CASE /\ UNCHANGED runVars
             /\ \A v \in Runner : held'[v] => held[v]
    BY <1>2, ProgressKept DEF ProgressInv, runVars
  <1>3. ASSUME NEW w \in Runner, Redeliver(w)
        PROVE  UNCHANGED runVars /\ \A v \in Runner : held'[v] => held[v]
    BY <1>3 DEF Redeliver, wrVars, TypeOK
  <1>4. CASE Reboot
    BY <1>2, <1>4 DEF Reboot, wrVars
  <1>5. ASSUME NEW e \in Execution, Expire(e)
        PROVE  UNCHANGED runVars /\ UNCHANGED held
    BY <1>5 DEF Expire, wrVars
  <1>6. CASE ThrottleEnds \/ PoolSleeps \/ (Delete /\ UNCHANGED <<apiVars, brokerVars, faults>>)
    BY <1>2, <1>6 DEF ThrottleEnds, PoolSleeps, Delete, wrVars, brokerVars
  <1>7. QED
    BY <1>1, <1>2, <1>3, <1>4, <1>5, <1>6 DEF Environment

(* Every variable stays in its range, and a run's counter, level and phases *)
(* agree, whatever is redelivered, crashes or reboots.                     *)
THEOREM Typing == Spec => [](TypeOK /\ ProgressInv)
  <1>1. Init => TypeOK /\ ProgressInv
    <2>1. Init => ProgressInv
      BY RunAssumption DEF Init, WRInit, ProgressInv, Progress
    <2>2. QED
      BY <2>1, InitTypeOK
  <1>2. TypeOK /\ ProgressInv /\ [Next]_vars => (TypeOK /\ ProgressInv)'
    <2> SUFFICES ASSUME TypeOK, ProgressInv, [Next]_vars
                 PROVE  (TypeOK /\ ProgressInv)'
      OBVIOUS
    <2>1. ASSUME NEW e \in Execution, ApiStep(e)
          PROVE  (TypeOK /\ ProgressInv)'
      BY <2>1, TypeApi, ApiKeepsRuns DEF ProgressInv, Progress, runVars
    <2>2. ASSUME NEW w \in Runner, WorkerStep(w)
          PROVE  (TypeOK /\ ProgressInv)'
      BY <2>2, TypeWorker, ProgressWorker
    <2>3. ASSUME NEW w \in Runner, ExecuteNode(w)
          PROVE  (TypeOK /\ ProgressInv)'
      BY <2>3, TypeNode, ProgressNode
    <2>4. CASE Environment
      BY <2>4, TypeEnvironment, ProgressEnvironment
    <2>5. CASE UNCHANGED vars
      BY <2>5 DEF vars, wrVars, rowVars, runVars, historyVars, apiVars, brokerVars,
                  TypeOK, ProgressInv, Progress
    <2>6. QED
      BY <2>1, <2>2, <2>3, <2>4, <2>5 DEF Next
  <1>3. QED
    BY <1>1, <1>2, PTL DEF Spec

(***************************************************************************)
(* The key.  StepEffect is what any one step may do to the state the key   *)
(* protects; the invariants follow from it.                                *)
(***************************************************************************)
StepEffect ==
  /\ \A v \in Runner : Entered(v)' => job'[v] = job[v] /\ (Entered(v) \/ ClaimSucceeds(v))
  /\ \A v \in Runner : pc'[v] \in RunPCs =>
        /\ pc[v] \in RunPCs \/ ClaimSucceeds(v)
        /\ \A n \in Node : phase'[v][n] = "idle" => phase[v][n] = "idle"
  /\ \A e \in Execution : Pending(e)' => Pending(e)
  /\ \A e \in Execution : sentinel'[e] = "none" => sentinel[e] = "none" \/ ~Pending(e)
  /\ begun' = begun \/ \E w \in Runner : BeginLevel(w)

LEMMA EffectApi ==
  ASSUME TypeOK, NEW e \in Execution, ApiStep(e)
  PROVE  StepEffect
  <1>1. UNCHANGED <<pc, job, phase, begun, sentinel>>
    BY ApiKeepsRuns DEF runVars, historyVars
  <1>2. \A f \in Execution : Pending(f)' => Pending(f)
    BY DEF ApiStep, ApiGoto, Request, WakeSkipped, WakePatch, WakePatched, WakeFails, Send,
           SendFails, wrVars, runVars, brokerVars, TypeOK, Pending
  <1>3. QED
    BY <1>1, <1>2 DEF StepEffect, Entered

LEMMA EffectNode ==
  ASSUME TypeOK, ProgressInv, NEW w \in Runner, ExecuteNode(w)
  PROVE  StepEffect
  <1>0. PICK n \in Node :
           \/ HandlerReturns(w, n) \/ HandlerRaises(w, n)
           \/ WriteResult(w, n) \/ WriteRaises(w, n)
    BY DEF ExecuteNode, NodeStep
  <1>1. PICK from \in {"executing", "writing"}, to \in Phases \ {"idle"} : NodeTask(w, n, from, to)
    BY <1>0 DEF HandlerReturns, HandlerRaises, WriteResult, WriteRaises, Phases
  <1>2. /\ phase[w][n] = from /\ phase' = [phase EXCEPT ![w][n] = to]
        /\ UNCHANGED <<pc, job, begun, api, copies, sentinel>>
    BY <1>1 DEF NodeTask, ExecuteNode, apiVars, brokerVars
  <1>3. \A v \in Runner, m \in Node : phase'[v][m] # phase[v][m] => phase[v][m] # "idle"
    BY <1>2 DEF TypeOK
  <1>4. \A v \in Runner : (\E m \in Node : phase'[v][m] # "idle") => \E m \in Node : phase[v][m] # "idle"
    BY <1>3
  <1>5. \A v \in Runner, m \in Node : phase'[v][m] = "idle" => phase[v][m] = "idle"
    BY <1>2, <1>1 DEF TypeOK
  <1>6. \A v \in Runner : Entered(v)' => job'[v] = job[v] /\ Entered(v)
    BY <1>2, <1>4 DEF Entered
  <1>7. \A e \in Execution : Pending(e)' => Pending(e)
    BY <1>2 DEF Pending
  <1>8. QED
    BY <1>2, <1>5, <1>6, <1>7 DEF StepEffect

LEMMA EffectRun ==
  ASSUME TypeOK, ProgressInv, NEW w \in Runner, Execute(w)
  PROVE  StepEffect
  <1> USE DEF Goto, Continues, Raises, SetStatus
  <1>1. /\ UNCHANGED <<job, api, copies, sentinel>>
        /\ pc[w] \in RunPCs /\ pc'[w] \in RunPCs
        /\ \A v \in Runner : v # w => pc'[v] = pc[v]
    BY DEF Execute, RunStep, LoadRows, ResolveCredentials, RefuseRun, MarkRunning,
           BeginLevel, LevelsDone, GatherReturns, GatherRaises, MarkSuccess, Finalize, MarkFailed,
           apiVars, brokerVars, TypeOK
  <1>2. CASE BeginLevel(w)
    <2>1. \A v \in Runner, n \in Node :
             /\ v # w => phase'[v][n] = phase[v][n]
             /\ phase'[v][n] = "idle" => phase[v][n] = "idle"
      BY <1>2 DEF BeginLevel, TypeOK
    <2>2. QED
      BY <1>1, <1>2, <2>1 DEF StepEffect, Entered, Pending
  <1>3. CASE ~BeginLevel(w)
    <2>1. UNCHANGED <<phase, begun>>
      BY <1>3 DEF Execute, RunStep, LoadRows, ResolveCredentials, RefuseRun, MarkRunning,
             LevelsDone, GatherReturns, GatherRaises, MarkSuccess, Finalize, MarkFailed,
             historyVars
    <2>2. QED
      BY <1>1, <2>1 DEF StepEffect, Entered, Pending
  <1>4. QED
    BY <1>2, <1>3

LEMMA StopEffect ==
  ASSUME TypeOK, ProgressInv, NEW w \in Runner, pc[w] # "idle", StopProcessing(w),
         \A e \in Execution : copies'[e] > 0 => copies[e] > 0 \/ job[w] = e
  PROVE  StepEffect
  <1>1. /\ pc'[w] = "idle" /\ \A n \in Node : phase'[w][n] = "idle"
        /\ \A v \in Runner : v # w => pc'[v] = pc[v] /\ job'[v] = job[v] /\ phase'[v] = phase[v]
        /\ job'[w] = None
        /\ UNCHANGED <<api, begun, sentinel>>
    BY DEF StopProcessing, ForgetRun, TypeOK, historyVars, apiVars
  <1>2. ~Entered(w)'
    BY <1>1 DEF Entered
  <1>3. \A v \in Runner : v # w => (Entered(v)' <=> Entered(v))
    BY <1>1 DEF Entered
  <1>4. \A e \in Execution : Pending(e)' => Pending(e)
    BY <1>1, RunAssumption DEF Pending
  <1>5. QED
    BY <1>1, <1>2, <1>3, <1>4 DEF StepEffect

LEMMA EffectWorker ==
  ASSUME TypeOK, ProgressInv, NEW w \in Runner, WorkerStep(w)
  PROVE  StepEffect
  <1> USE DEF Goto, Continues
  <1>1. CASE Execute(w)
    BY <1>1, EffectRun
  <1>2. ASSUME NEW e \in Execution, Deliver(w, e)
        PROVE  StepEffect
    <2>1. /\ pc[w] = "idle" /\ pc' = [pc EXCEPT ![w] = "claim"] /\ job' = [job EXCEPT ![w] = e]
          /\ copies[e] > 0 /\ copies' = [copies EXCEPT ![e] = @ - 1]
          /\ UNCHANGED <<phase, begun, api, sentinel>>
      BY <1>2 DEF Deliver, TakeJob, historyVars, apiVars
    <2>2. \A v \in Runner : Entered(v)' => Entered(v) /\ v # w
      BY <2>1 DEF Entered, TypeOK, ProgressInv, Progress
    <2>3. \A f \in Execution : Pending(f)' => Pending(f)
      BY <2>1 DEF Pending, TypeOK
    <2>4. QED
      BY <2>1, <2>2, <2>3 DEF StepEffect, TypeOK
  <1>3. CASE ClaimSucceeds(w)
    <2>1. /\ pc[w] = "claim" /\ pc' = [pc EXCEPT ![w] = "load"]
          /\ UNCHANGED <<phase, begun, job, api, copies>>
          /\ sentinel' = [sentinel EXCEPT ![job[w]] = "running"]
      BY <1>3 DEF ClaimSucceeds, historyVars, apiVars
    <2>2. QED
      BY <1>3, <2>1 DEF StepEffect, Entered, Pending, TypeOK
  <1>4. CASE ClaimSkips(w) \/ ClaimRaises(w) \/ Release(w)
    <2>1. /\ pc' = [pc EXCEPT ![w] = "close"]
          /\ UNCHANGED <<phase, begun, job, api, copies>>
          /\ sentinel' = [sentinel EXCEPT ![job[w]] = "completed"] \/ UNCHANGED sentinel
      BY <1>4 DEF ClaimSkips, ClaimRaises, Release, historyVars, apiVars, brokerVars
    <2>2. QED
      BY <2>1 DEF StepEffect, Entered, Pending, TypeOK
  <1>5. CASE Acknowledge(w)
    BY <1>5, StopEffect DEF Acknowledge
  <1>6. QED
    BY <1>1, <1>2, <1>3, <1>4, <1>5 DEF WorkerStep

LEMMA EffectEnvironment ==
  ASSUME TypeOK, ProgressInv, KeysIntact', Environment
  PROVE  StepEffect
  <1>1. ASSUME NEW w \in Runner, Crash(w)
        PROVE  StepEffect
    <2>1. \A e \in Execution : copies'[e] > 0 => copies[e] > 0 \/ job[w] = e
      BY <1>1 DEF Crash, Returned, TypeOK
    <2>2. QED
      BY <1>1, <2>1, StopEffect DEF Crash
  <1>2. ASSUME NEW w \in Runner, Redeliver(w)
        PROVE  StepEffect
    <2>1. /\ UNCHANGED <<pc, job, phase, begun, api, sentinel>>
          /\ \A e \in Execution : copies'[e] > 0 => copies[e] > 0 \/ job[w] = e
      BY <1>2 DEF Redeliver, Returned, wrVars, runVars, historyVars, apiVars, TypeOK
    <2>2. QED
      BY <2>1 DEF StepEffect, Entered, Pending
  <1>3. CASE Reboot
    BY <1>3 DEF Reboot, Strikes, TypeOK, KeysIntact
  <1>4. ASSUME NEW e \in Execution, Expire(e)
        PROVE  StepEffect
    <2>1. /\ UNCHANGED <<pc, job, phase, begun, api, copies>>
          /\ sentinel' = [sentinel EXCEPT ![e] = "none"]
          /\ ~Pending(e)
      BY <1>4 DEF Expire, wrVars, runVars, historyVars, apiVars, Pending
    <2>2. QED
      BY <2>1 DEF StepEffect, Entered, Pending, TypeOK
  <1>5. CASE ThrottleEnds \/ PoolSleeps \/ (Delete /\ UNCHANGED <<apiVars, brokerVars, faults>>)
    <2>1. UNCHANGED <<pc, job, phase, begun, api, copies, sentinel>>
      BY <1>5 DEF ThrottleEnds, PoolSleeps, Delete, wrVars, runVars, historyVars, apiVars, brokerVars
    <2>2. QED
      BY <2>1 DEF StepEffect, Entered, Pending
  <1>6. QED
    BY <1>1, <1>2, <1>3, <1>4, <1>5 DEF Environment

LEMMA EffectNext ==
  ASSUME TypeOK, ProgressInv, KeysIntact', [Next]_vars
  PROVE  StepEffect
  <1>1. CASE UNCHANGED vars
    <2>1. UNCHANGED <<pc, job, phase, begun, api, copies, sentinel>>
      BY <1>1 DEF vars, wrVars, runVars, historyVars, apiVars, brokerVars
    <2>2. QED
      BY <2>1 DEF StepEffect, Entered, Pending
  <1>2. QED
    BY <1>1, EffectApi, EffectWorker, EffectNode, EffectEnvironment DEF Next

(***************************************************************************)
(* From the effect of a step to the invariants.                            *)
(***************************************************************************)
LEMMA KeyStep ==
  ASSUME TypeOK, TypeOK', ProgressInv, KeyInv, StepEffect
  PROVE  KeyInv'
  <1>1. ASSUME NEW w \in Runner, Entered(w)'
        PROVE  /\ job'[w] = job[w] /\ job[w] \in Execution
               /\ sentinel'[job[w]] # "none"
               /\ Entered(w) \/ (ClaimSucceeds(w) /\ sentinel[job[w]] = "none")
    <2>1. job'[w] = job[w] /\ (Entered(w) \/ ClaimSucceeds(w))
      BY <1>1 DEF StepEffect
    <2>2. job[w] \in Execution
      BY <2>1 DEF ProgressInv, Progress, Entered, ClaimSucceeds, Continues, Goto
    <2>3. CASE Entered(w)
      <3>1. sentinel[job[w]] # "none" /\ Pending(job[w])
        BY <2>2, <2>3 DEF KeyInv, Pending
      <3>2. QED
        BY <2>1, <2>2, <2>3, <3>1 DEF StepEffect
    <2>4. CASE ClaimSucceeds(w)
      BY <2>1, <2>2, <2>4 DEF ClaimSucceeds, TypeOK
    <2>5. QED
      BY <2>1, <2>3, <2>4
  <1>2. ASSUME NEW v \in Runner, NEW w \in Runner, Entered(v)', Entered(w)', job'[v] = job'[w]
        PROVE  v = w
    <2>1. job[v] = job[w]
      BY <1>1, <1>2
    <2>2. CASE Entered(v) /\ Entered(w)
      BY <2>1, <2>2 DEF KeyInv
    <2>3. CASE ~Entered(v) /\ ~Entered(w)
      <3>1. ClaimSucceeds(v) /\ ClaimSucceeds(w)
        BY <1>1, <1>2, <2>3
      <3>2. QED
        BY <3>1 DEF ClaimSucceeds, Continues, Goto, TypeOK
    <2>4. CASE Entered(v) /\ ~Entered(w)
      BY <1>1, <1>2, <2>1, <2>4 DEF KeyInv
    <2>5. CASE ~Entered(v) /\ Entered(w)
      BY <1>1, <1>2, <2>1, <2>5 DEF KeyInv
    <2>6. QED
      BY <2>2, <2>3, <2>4, <2>5
  <1>3. QED
    BY <1>1, <1>2 DEF KeyInv

LEMMA BeginEffect ==
  ASSUME TypeOK, ProgressInv, NEW w \in Runner, BeginLevel(w)
  PROVE  /\ pc[w] = "level" /\ job[w] \in Execution /\ Entered(w)
         /\ \A n \in Levels[level[w]] : phase[w][n] = "idle" /\ phase'[w][n] = "executing"
         /\ \A e \in Execution, n \in Node :
               begun'[e][n] = IF e = job[w] /\ n \in Levels[level[w]] THEN begun[e][n] + 1
                                                                  ELSE begun[e][n]
  <1>1. pc[w] = "level" /\ level[w] <= Len(Levels)
    BY DEF BeginLevel, Goto
  <1>2. job[w] \in Execution /\ level[w] \in DOMAIN Levels
    BY <1>1, LevelsType DEF ProgressInv, Progress, TypeOK
  <1>3. \A n \in Levels[level[w]] : n \in Node /\ phase[w][n] = "idle"
    <2>1. level[w] >= level[w] /\ Levels[level[w]] \subseteq Node
      BY <1>2, LevelsType
    <2>2. Progress(w)
      BY DEF ProgressInv
    <2>3. \A k \in DOMAIN Levels : k >= level[w] => \A n \in Levels[k] : phase[w][n] = "idle"
      BY <1>1, <2>2 DEF Progress
    <2>4. QED
      BY <1>2, <2>1, <2>3
  <1>4. \A n \in Levels[level[w]] : phase'[w][n] = "executing"
    BY <1>3 DEF BeginLevel, TypeOK
  <1>5. \A e \in Execution, n \in Node :
           begun'[e][n] = IF e = job[w] /\ n \in Levels[level[w]] THEN begun[e][n] + 1
                                                              ELSE begun[e][n]
    <2> DEFINE bg == [n \in Node |-> IF n \in Levels[level[w]] THEN begun[job[w]][n] + 1
                                                           ELSE begun[job[w]][n]]
    <2>1. begun' = [begun EXCEPT ![job[w]] = bg]
      BY <1>2 DEF BeginLevel
    <2> HIDE DEF bg
    <2>2. \A e \in Execution : begun'[e] = IF e = job[w] THEN bg ELSE begun[e]
      BY <2>1, <1>2 DEF TypeOK
    <2>3. \A n \in Node : bg[n] = IF n \in Levels[level[w]] THEN begun[job[w]][n] + 1
                                                          ELSE begun[job[w]][n]
      BY DEF bg
    <2>4. ASSUME NEW e \in Execution, NEW n \in Node
          PROVE  begun'[e][n] = IF e = job[w] /\ n \in Levels[level[w]] THEN begun[e][n] + 1
                                                                    ELSE begun[e][n]
      <3>1. CASE e = job[w]
        BY <2>2, <2>3, <3>1
      <3>2. CASE e # job[w]
        BY <2>2, <3>2
      <3>3. QED
        BY <3>1, <3>2
    <2>5. QED
      BY <2>4
  <1>6. QED
    BY <1>1, <1>2, <1>3, <1>4, <1>5 DEF Entered

LEMMA FreshStep ==
  ASSUME TypeOK, ProgressInv, KeyInv, FreshInv, StepEffect
  PROVE  FreshInv'
  <1> SUFFICES ASSUME NEW e \in Execution, Pending(e)', sentinel'[e] = "none", NEW n \in Node
               PROVE  begun'[e][n] = 0
    BY DEF FreshInv
  <1>1. Pending(e) /\ sentinel[e] = "none"
    BY DEF StepEffect
  <1>2. begun[e][n] = 0
    BY <1>1 DEF FreshInv
  <1>3. ASSUME NEW w \in Runner, BeginLevel(w)
        PROVE  begun'[e][n] = 0
    <2>1. job[w] # e
      BY <1>1, <1>3, BeginEffect DEF KeyInv
    <2>2. QED
      BY <1>2, <1>3, <2>1, BeginEffect
  <1>4. QED
    BY <1>2, <1>3 DEF StepEffect

LEMMA BegunStep ==
  ASSUME TypeOK, ProgressInv, KeysIntact, KeyInv, FreshInv, BegunInv, AtMostOnce, StepEffect
  PROVE  BegunInv' /\ AtMostOnce'
  <1>1. ASSUME NEW w \in Runner, NEW n \in Node, pc'[w] \in RunPCs, phase'[w][n] = "idle"
        PROVE  begun'[job'[w]][n] = 0
    <2>1. job'[w] = job[w] /\ (pc[w] \in RunPCs \/ ClaimSucceeds(w)) /\ phase[w][n] = "idle"
      BY <1>1 DEF StepEffect, Entered
    <2>2. job[w] \in Execution
      BY <2>1 DEF ProgressInv, Progress, ClaimSucceeds, Continues, Goto
    <2>3. begun[job[w]][n] = 0
      <3>1. CASE pc[w] \in RunPCs
        BY <2>1, <3>1 DEF BegunInv
      <3>2. CASE ClaimSucceeds(w)
        <4>1. sentinel[job[w]] = "none" /\ Pending(job[w])
          BY <2>2, <3>2 DEF ClaimSucceeds, Pending
        <4>2. QED
          BY <2>2, <4>1 DEF FreshInv
      <3>3. QED
        BY <2>1, <3>1, <3>2
    <2>4. ASSUME NEW v \in Runner, BeginLevel(v)
          PROVE  begun'[job[w]][n] = 0
      <3>1. CASE job[v] # job[w]
        BY <2>2, <2>3, <2>4, <3>1, BeginEffect
      <3>2. CASE job[v] = job[w]
        <4>1. ~ClaimSucceeds(w)
          BY <2>4, <3>2, BeginEffect DEF KeyInv, ClaimSucceeds
        <4>2. v = w
          BY <2>1, <2>4, <3>2, <4>1, BeginEffect DEF KeyInv, Entered
        <4>3. n \notin Levels[level[w]]
          BY <1>1, <2>4, <4>2, BeginEffect
        <4>4. QED
          BY <2>2, <2>3, <2>4, <4>2, <4>3, BeginEffect
      <3>3. QED
        BY <3>1, <3>2
    <2>5. QED
      BY <2>1, <2>3, <2>4 DEF StepEffect
  <1>2. ASSUME NEW e \in Execution, NEW n \in Node
        PROVE  begun'[e][n] <= 1
    <2>1. ASSUME NEW w \in Runner, BeginLevel(w)
          PROVE  begun'[e][n] <= 1
      <3>1. CASE e = job[w] /\ n \in Levels[level[w]]
        <4>1. begun[e][n] = 0
          BY <2>1, <3>1, BeginEffect DEF BegunInv
        <4>2. QED
          BY <2>1, <3>1, <4>1, BeginEffect
      <3>2. CASE ~(e = job[w] /\ n \in Levels[level[w]])
        BY <2>1, <3>2, BeginEffect DEF AtMostOnce
      <3>3. QED
        BY <3>1, <3>2
    <2>2. QED
      BY <2>1 DEF StepEffect, AtMostOnce
  <1>3. QED
    BY <1>1, <1>2 DEF BegunInv, AtMostOnce

(* The faults that have struck only grow in number. *)
LEMMA FaultsCount ==
  ASSUME [Next]_vars
  PROVE  \/ faults' = faults
         \/ \E k \in FaultKinds : faults' = [faults EXCEPT ![k] = @ + 1]
  <1>1. CASE \E e \in Execution : ApiStep(e)
    BY <1>1 DEF ApiStep, Request, WakeSkipped, WakePatch, WakePatched, WakeFails, Send, SendFails
  <1>2. CASE \E w \in Runner : WorkerStep(w) \/ ExecuteNode(w)
    BY <1>2 DEF WorkerStep, Deliver, ClaimSucceeds, ClaimSkips, ClaimRaises, Release, Acknowledge,
                Execute, ExecuteNode
  <1>3. CASE Environment
    BY <1>3 DEF Environment, Crash, Redeliver, Reboot, Strikes, Expire, ThrottleEnds, PoolSleeps
  <1>4. CASE UNCHANGED vars
    BY <1>4 DEF vars
  <1>5. QED
    BY <1>1, <1>2, <1>3, <1>4 DEF Next

(* No step gives back what a reboot took. *)
LEMMA IntactBefore ==
  ASSUME TypeOK, KeysIntact', [Next]_vars
  PROVE  KeysIntact
  BY FaultsCount DEF KeysIntact, TypeOK

(***************************************************************************)
(* The theorems.                                                           *)
(***************************************************************************)
LEMMA InductiveInvariant == Spec => []IInv
  <1>1. Init => IInv
    <2> SUFFICES ASSUME Init PROVE IInv
      OBVIOUS
    <2>1. TypeOK
      BY InitTypeOK
    <2>2. ProgressInv
      BY RunAssumption DEF Init, WRInit, ProgressInv, Progress
    <2>3. KeyInv /\ FreshInv /\ BegunInv /\ AtMostOnce
      BY DEF Init, WRInit, KeyInv, FreshInv, BegunInv, AtMostOnce, Entered
    <2>4. QED
      BY <2>1, <2>2, <2>3 DEF IInv
  <1>2. IInv /\ (TypeOK /\ ProgressInv)' /\ [Next]_vars => IInv'
    <2> SUFFICES ASSUME IInv, TypeOK', ProgressInv', [Next]_vars, KeysIntact'
                 PROVE  KeyInv' /\ FreshInv' /\ BegunInv' /\ AtMostOnce'
      BY DEF IInv, AtMostOnce
    <2>1. TypeOK /\ ProgressInv /\ AtMostOnce
      BY DEF IInv
    <2>2. KeysIntact
      BY <2>1, IntactBefore
    <2>3. KeyInv /\ FreshInv /\ BegunInv
      BY <2>2 DEF IInv
    <2>4. StepEffect
      BY <2>1, EffectNext
    <2>5. KeyInv'
      BY <2>1, <2>3, <2>4, KeyStep
    <2>6. FreshInv'
      BY <2>1, <2>3, <2>4, FreshStep
    <2>7. BegunInv' /\ AtMostOnce'
      BY <2>1, <2>2, <2>3, <2>4, BegunStep
    <2>8. QED
      BY <2>5, <2>6, <2>7
  <1>3. QED
    BY <1>1, <1>2, Typing, PTL DEF Spec

(* However many messages name an execution, and whichever workers crash    *)
(* under it, each of its handlers starts at most once: SETNX at the task's *)
(* entry and the "completed" value left behind are enough, as long as the  *)
(* broker has lost no key in a reboot.                                     *)
THEOREM StartsAtMostOnce == Spec => []AtMostOnce
  <1>1. IInv => AtMostOnce
    BY DEF IInv
  <1>2. QED
    BY <1>1, InductiveInvariant, PTL

(* Just as long, two workers never work for one execution at a time, the   *)
(* handlers a failed run leaves behind included.                           *)
THEOREM RunsAlone == Spec => []OneRunner
  <1>1. IInv => OneRunner
    BY DEF IInv, KeyInv, OneRunner, Busy, Entered
  <1>2. QED
    BY <1>1, InductiveInvariant, PTL

(* Every variable of the Celery path stays in its range, reboots included. *)
THEOREM TypeCorrect == Spec => []TypeOK
  BY Typing, PTL

(* So an execution runs once: one worker at a time, each handler started   *)
(* by one of them only.                                                    *)
THEOREM ExecutionsRunOnce == Spec => []RunsOnce
  <1>1. AtMostOnce /\ OneRunner => RunsOnce
    BY DEF RunsOnce
  <1>2. QED
    BY <1>1, StartsAtMostOnce, RunsAlone, PTL
(***************************************************************************)
(* Nothing is forgotten.                                                   *)
(***************************************************************************)
USE DEF NobodyDied

(* Calls whose failure a run outlives: the others end it where it stands,  *)
(* or lose the task before it begins.                                      *)
Outlived == {"wake", "append", "succeed", "finalize", "release"}

(* A step that takes nothing away from what carries e. *)
LEMMA CarriedKept ==
  ASSUME NEW e \in Execution, Carried(e),
         sentinel[e] = "none" => sentinel'[e] = "none",
         api[e] # "answered" => api'[e] # "answered" \/ copies'[e] > 0,
         copies[e] > 0 => copies'[e] > 0 \/ \E w \in Runner : job'[w] = e /\ pc'[w] = "claim",
         \A w \in Runner : job[w] = e /\ pc[w] = "claim" => job'[w] = e /\ pc'[w] = "claim",
         \A w \in Runner : job[w] = e /\ Working(w) => job'[w] = e /\ pc'[w] \in RunPCs \ {"returned"}
  PROVE  Carried(e)'
  BY DEF Carried, Working

LEMMA CarriedApi ==
  ASSUME TypeOK, CarriedInv, KeysIntact, NobodyDied, FailingCalls \subseteq Outlived,
         NEW e \in Execution, ApiStep(e)
  PROVE  CarriedInv'
  <1>1. UNCHANGED <<pc, job, sentinel>>
    BY ApiKeepsRuns DEF runVars
  <1>2. ASSUME NEW f \in Execution, Carried(f) PROVE Carried(f)'
    <2>1. /\ api[f] # "answered" => api'[f] # "answered" \/ copies'[f] > 0
          /\ copies[f] > 0 => copies'[f] > 0
      <3>1. CASE Send(e)
        <4>1. PICK k \in 1..MaxPublishes : copies' = [copies EXCEPT ![e] = k]
          BY <3>1 DEF Send
        <4>2. api' = [api EXCEPT ![e] = "answered"] /\ k > 0
          BY <3>1, DispatchAssumption DEF Send, ApiGoto
        <4>3. QED
          BY <4>1, <4>2 DEF TypeOK
      <3>2. CASE ~Send(e)
        <4>1. copies' = copies
          BY <3>2 DEF ApiStep, Request, WakeSkipped, WakePatch, WakePatched, WakeFails, SendFails, brokerVars
        <4>2. api'[f] = "answered" => api[f] = "answered"
          BY <3>2 DEF ApiStep, ApiGoto, Request, WakeSkipped, WakePatch, WakePatched, WakeFails,
                      SendFails, TypeOK, Outlived
        <4>3. QED
          BY <4>1, <4>2
      <3>3. QED
        BY <3>1, <3>2
    <2>2. QED
      BY <1>1, <1>2, <2>1, CarriedKept DEF Working
  <1>3. CASE Request(e)
    <2>1. /\ status' = [status EXCEPT ![e] = "queued"] /\ api[e] = "idle" /\ api'[e] # "idle"
          /\ copies' = copies /\ \A f \in Execution : api'[f] = "idle" => api[f] = "idle"
      BY <1>3 DEF Request, ApiGoto, brokerVars, TypeOK
    <2>2. status[e] = "absent" /\ \A w \in Runner : job[w] # e
      BY <2>1 DEF CarriedInv
    <2>3. status'[e] = "queued" /\ \A f \in Execution : f # e => status'[f] = status[f]
      BY <2>1 DEF TypeOK
    <2>4. \A f \in Execution : status'[f] \notin Terminal => status[f] \notin Terminal
      BY <2>2, <2>3 DEF Terminal
    <2>5. ASSUME NEW w \in Runner, pc'[w] = "finalize" PROVE status'[job'[w]] \in Terminal
      <3>1. status[job[w]] \in Terminal
        BY <1>1, <2>5 DEF CarriedInv
      <3>2. job[w] \in Execution \/ job[w] = None
        BY DEF TypeOK
      <3>3. CASE job[w] \in Execution
        BY <1>1, <2>2, <2>3, <3>1, <3>3
      <3>4. CASE job[w] = None
        BY <1>1, <2>1, <3>1, <3>4, RunAssumption DEF TypeOK
      <3>5. QED
        BY <3>2, <3>3, <3>4
    <2>6. QED
      BY <1>1, <1>2, <2>1, <2>3, <2>4, <2>5 DEF CarriedInv
  <1>4. CASE ~Request(e)
    <2>1. /\ status' = status /\ api[e] # "idle"
          /\ \A f \in Execution : api'[f] = "idle" => api[f] = "idle" /\ copies'[f] = copies[f]
      BY <1>4 DEF ApiStep, ApiGoto, WakeSkipped, WakePatch, WakePatched, WakeFails, Send,
             SendFails, brokerVars, wrVars, rowVars, TypeOK
    <2>2. QED
      BY <1>1, <1>2, <2>1 DEF CarriedInv
  <1>5. QED
    BY <1>3, <1>4

LEMMA CarriedRun ==
  ASSUME TypeOK, ProgressInv, KeyInv, CarriedInv, KeysIntact, NobodyDied,
         FailingCalls \subseteq Outlived, NEW w \in Runner, Execute(w)
  PROVE  CarriedInv'
  <1> USE DEF Goto, Continues, Raises, SetStatus
  <1>1. /\ UNCHANGED <<job, api, copies, sentinel>>
        /\ pc[w] \in RunPCs \ {"returned"} /\ pc'[w] \in RunPCs
        /\ \A v \in Runner : v # w => pc'[v] = pc[v]
    BY DEF Execute, RunStep, LoadRows, ResolveCredentials, RefuseRun, MarkRunning,
           BeginLevel, LevelsDone, GatherReturns, GatherRaises, MarkSuccess, Finalize, MarkFailed,
           apiVars, brokerVars, TypeOK
  <1>2. job[w] \in Execution /\ Entered(w)
    BY <1>1 DEF ProgressInv, Progress, Entered
  <1>3. status' = status \/ \E s \in Statuses : status' = [status EXCEPT ![job[w]] = s]
    BY DEF Execute, RunStep, LoadRows, ResolveCredentials, RefuseRun, MarkRunning,
           BeginLevel, LevelsDone, GatherReturns, GatherRaises, MarkSuccess, Finalize, MarkFailed,
           rowVars, Statuses
  <1>4. \A e \in Execution : e # job[w] => status'[e] = status[e]
    BY <1>3 DEF TypeOK
  <1>5. pc'[w] \in {"returned", "finalize"} => status'[job[w]] \in Terminal
    <2>1. CASE LoadRows(w) \/ ResolveCredentials(w) \/ MarkRunning(w) \/ BeginLevel(w)
                 \/ LevelsDone(w) \/ GatherReturns(w) \/ GatherRaises(w)
      <3>1. pc'[w] \notin {"returned", "finalize"}
        BY <2>1 DEF LoadRows, ResolveCredentials, MarkRunning, BeginLevel, LevelsDone,
                    GatherReturns, GatherRaises, Outlived, TypeOK
      <3>2. QED
        BY <3>1
    <2>2. CASE RefuseRun(w) \/ MarkFailed(w) \/ MarkSuccess(w)
      BY <1>2, <2>2 DEF RefuseRun, MarkFailed, MarkSuccess, Outlived, TypeOK, Terminal
    <2>3. CASE Finalize(w)
      <3>1. pc[w] = "finalize" /\ status' = status
        BY <2>3 DEF Finalize, rowVars
      <3>2. QED
        BY <3>1 DEF CarriedInv
    <2>4. QED
      BY <2>1, <2>2, <2>3 DEF Execute, RunStep
  <1>6. ASSUME NEW e \in Execution, status'[e] \notin Terminal PROVE Carried(e)'
    <2>1. CASE e = job[w]
      <3>1. pc'[w] \in RunPCs \ {"returned"} /\ job'[w] = e
        BY <1>1, <1>5, <1>6, <2>1
      <3>2. QED
        BY <3>1 DEF Carried, Working
    <2>2. CASE e # job[w]
      <3>1. Carried(e)
        BY <1>4, <1>6, <2>2 DEF CarriedInv
      <3>2. \A v \in Runner : job[v] = e => pc'[v] = pc[v] /\ job'[v] = e
        BY <1>1, <2>2
      <3>3. QED
        BY <1>1, <3>1, <3>2, CarriedKept DEF Working
    <2>3. QED
      BY <2>1, <2>2
  <1>7. ASSUME NEW v \in Runner, pc'[v] = "finalize" PROVE status'[job'[v]] \in Terminal
    <2>1. CASE v = w
      BY <1>1, <1>5, <1>7, <2>1
    <2>2. CASE v # w
      <3>1. pc[v] = "finalize" /\ status[job[v]] \in Terminal
        BY <1>1, <1>7, <2>2 DEF CarriedInv
      <3>2. job[v] \in Execution /\ Entered(v)
        BY <3>1 DEF ProgressInv, Progress, Entered
      <3>3. job[v] # job[w]
        BY <1>2, <2>2, <3>2 DEF KeyInv
      <3>4. QED
        BY <1>1, <1>4, <3>1, <3>2, <3>3
    <2>3. QED
      BY <2>1, <2>2
  <1>8. QED
    BY <1>1, <1>2, <1>4, <1>6, <1>7 DEF CarriedInv

LEMMA CarriedWorker ==
  ASSUME TypeOK, ProgressInv, KeyInv, CarriedInv, KeysIntact, NobodyDied,
         FailingCalls \subseteq Outlived, NEW w \in Runner, WorkerStep(w)
  PROVE  CarriedInv'
  <1> USE DEF Goto, Continues
  <1>1. CASE Execute(w)
    BY <1>1, CarriedRun
  <1>2. ASSUME ~Execute(w) PROVE UNCHANGED <<status, api>>
    BY <1>2 DEF WorkerStep, Deliver, ClaimSucceeds, ClaimSkips, ClaimRaises, Release, Acknowledge,
                StopProcessing, rowVars, apiVars
  (* What is left to show once the row is as it was. *)
  <1>3. ASSUME UNCHANGED <<status, api>>,
               \A e \in Execution : status[e] \notin Terminal /\ Carried(e) => Carried(e)',
               \A e \in Execution : api[e] = "idle" /\ copies[e] = 0 /\ (\A v \in Runner : job[v] # e)
                   => copies'[e] = 0 /\ \A v \in Runner : job'[v] # e,
               \A v \in Runner : pc'[v] = "finalize" => pc[v] = "finalize" /\ job'[v] = job[v]
        PROVE  CarriedInv'
    BY <1>3 DEF CarriedInv
  <1>4. ASSUME NEW e \in Execution, Deliver(w, e)
        PROVE  CarriedInv'
    <2>1. /\ pc[w] = "idle" /\ pc' = [pc EXCEPT ![w] = "claim"] /\ job' = [job EXCEPT ![w] = e]
          /\ copies[e] > 0 /\ copies' = [copies EXCEPT ![e] = @ - 1]
          /\ UNCHANGED <<status, api, sentinel>>
      BY <1>4 DEF Deliver, TakeJob, rowVars, apiVars
    <2>2. /\ pc'[w] = "claim" /\ job'[w] = e /\ \A v \in Runner : v # w => pc'[v] = pc[v] /\ job'[v] = job[v]
          /\ \A f \in Execution : f # e => copies'[f] = copies[f]
      BY <2>1 DEF TypeOK
    <2>3. ASSUME NEW f \in Execution, Carried(f) PROVE Carried(f)'
      BY <2>1, <2>2, <2>3, CarriedKept DEF Working
    <2>4. QED
      BY <2>1, <2>2, <2>3, <1>3
  <1>5. CASE ClaimSucceeds(w)
    <2>1. /\ pc[w] = "claim" /\ pc' = [pc EXCEPT ![w] = "load"] /\ UNCHANGED <<status, api, job, copies>>
          /\ sentinel' = [sentinel EXCEPT ![job[w]] = "running"]
      BY <1>5 DEF ClaimSucceeds, rowVars, apiVars
    <2>2. /\ pc'[w] = "load" /\ \A v \in Runner : v # w => pc'[v] = pc[v]
          /\ \A f \in Execution : f # job[w] => sentinel'[f] = sentinel[f]
      BY <2>1 DEF TypeOK
    <2>3. ASSUME NEW f \in Execution, Carried(f) PROVE Carried(f)'
      <3>1. CASE f = job[w]
        BY <2>1, <2>2, <3>1 DEF Carried, Working
      <3>2. CASE f # job[w]
        BY <2>1, <2>2, <2>3, <3>2, CarriedKept DEF Working
      <3>3. QED
        BY <3>1, <3>2
    <2>4. QED
      BY <2>1, <2>2, <2>3, <1>3
  <1>6. CASE ClaimSkips(w) \/ Release(w)
    <2>1. /\ pc[w] \in {"claim", "returned"} /\ pc' = [pc EXCEPT ![w] = "close"]
          /\ UNCHANGED <<status, api, job, copies>>
          /\ \A f \in Execution : f # job[w] => sentinel'[f] = sentinel[f]
      BY <1>6 DEF ClaimSkips, Release, rowVars, apiVars, brokerVars, TypeOK
    <2>2. pc'[w] = "close" /\ \A v \in Runner : v # w => pc'[v] = pc[v]
      BY <2>1 DEF TypeOK
    <2>3. sentinel[job[w]] # "none"
      BY <1>6 DEF ClaimSkips, Release, KeyInv, Entered
    <2>4. ASSUME NEW f \in Execution, Carried(f) PROVE Carried(f)'
      <3>1. CASE f = job[w]
        <4>1. PICK v \in Runner : job[v] = f /\ Working(v)
          BY <2>3, <2>4, <3>1 DEF Carried
        <4>2. v # w
          BY <2>1, <4>1 DEF Working
        <4>3. QED
          BY <2>1, <2>2, <4>1, <4>2 DEF Carried, Working
      <3>2. CASE f # job[w]
        BY <2>1, <2>2, <2>4, <3>2, CarriedKept DEF Working
      <3>3. QED
        BY <3>1, <3>2
    <2>5. QED
      BY <2>1, <2>2, <2>4, <1>3
  <1>7. CASE ClaimRaises(w)
    BY <1>7 DEF ClaimRaises, Outlived
  <1>8. CASE Acknowledge(w)
    <2>1. /\ pc[w] = "close" /\ pc' = [pc EXCEPT ![w] = "idle"] /\ job' = [job EXCEPT ![w] = None]
          /\ UNCHANGED <<status, api, copies, sentinel>>
      BY <1>8 DEF Acknowledge, StopProcessing, ForgetRun, rowVars, apiVars
    <2>2. pc'[w] = "idle" /\ job'[w] = None /\ \A v \in Runner : v # w => pc'[v] = pc[v] /\ job'[v] = job[v]
      BY <2>1 DEF TypeOK
    <2>3. ASSUME NEW f \in Execution, Carried(f) PROVE Carried(f)'
      BY <2>1, <2>2, <2>3, CarriedKept DEF Working
    <2>4. QED
      BY <2>1, <2>2, <2>3, <1>3, RunAssumption
  <1>9. QED
    BY <1>1, <1>4, <1>5, <1>6, <1>7, <1>8 DEF WorkerStep

LEMMA CarriedEnvironment ==
  ASSUME TypeOK, ProgressInv, CarriedInv, KeysIntact, NobodyDied, KeysIntact', NobodyDied', Environment
  PROVE  CarriedInv'
  <1>1. ASSUME NEW w \in Runner, Crash(w) PROVE FALSE
    BY <1>1 DEF Crash, Strikes, TypeOK
  <1>2. CASE Reboot
    BY <1>2 DEF Reboot, Strikes, TypeOK, KeysIntact
  <1>3. ASSUME NEW w \in Runner, Redeliver(w) PROVE CarriedInv'
    <2>1. /\ UNCHANGED <<status, api, sentinel, pc, job>> /\ job[w] \in Execution
          /\ copies' = [copies EXCEPT ![job[w]] = @ + 1]
      BY <1>3 DEF Redeliver, Returned, wrVars, rowVars, runVars, apiVars, ProgressInv, Progress
    <2>2. \A f \in Execution : (copies[f] > 0 => copies'[f] > 0) /\ (f # job[w] => copies'[f] = copies[f])
      BY <2>1 DEF TypeOK
    <2>3. ASSUME NEW f \in Execution, Carried(f) PROVE Carried(f)'
      BY <2>1, <2>2, <2>3, CarriedKept DEF Working
    <2>4. QED
      BY <2>1, <2>2, <2>3 DEF CarriedInv
  <1>4. ASSUME NEW e \in Execution, Expire(e) PROVE CarriedInv'
    <2>1. /\ UNCHANGED <<status, api, copies, pc, job>> /\ sentinel' = [sentinel EXCEPT ![e] = "none"]
          /\ sentinel[e] # "none" /\ copies[e] = 0 /\ \A w \in Runner : job[w] # e
      BY <1>4 DEF Expire, wrVars, rowVars, runVars, apiVars
    <2>2. \A f \in Execution : sentinel[f] = "none" => sentinel'[f] = "none"
      BY <2>1 DEF TypeOK
    <2>3. ASSUME NEW f \in Execution, Carried(f) PROVE Carried(f)'
      BY <2>1, <2>2, <2>3, CarriedKept DEF Working
    <2>4. QED
      BY <2>1, <2>3 DEF CarriedInv
  <1>5. CASE ThrottleEnds \/ PoolSleeps \/ (Delete /\ UNCHANGED <<apiVars, brokerVars, faults>>)
    <2>1. UNCHANGED <<status, api, copies, sentinel, pc, job>>
      BY <1>5 DEF ThrottleEnds, PoolSleeps, Delete, wrVars, rowVars, runVars, apiVars, brokerVars
    <2>2. QED
      BY <2>1 DEF CarriedInv, Carried, Working
  <1>6. QED
    BY <1>1, <1>2, <1>3, <1>4, <1>5 DEF Environment

LEMMA CarriedStep ==
  ASSUME FailingCalls \subseteq Outlived, IInv, CarriedInv, [Next]_vars
  PROVE  CarriedInv'
  <1> SUFFICES ASSUME KeysIntact', NobodyDied' PROVE CarriedInv'
    BY DEF CarriedInv
  <1>1. TypeOK /\ ProgressInv
    BY DEF IInv
  <1>2. KeysIntact /\ NobodyDied
    <2>1. \/ faults' = faults
          \/ \E k \in FaultKinds : faults' = [faults EXCEPT ![k] = @ + 1]
      BY FaultsCount
    <2>2. QED
      BY <1>1, <2>1 DEF KeysIntact, TypeOK
  <1>3. KeyInv
    BY <1>2 DEF IInv
  <1>4. ASSUME NEW e \in Execution, ApiStep(e) PROVE CarriedInv'
    BY <1>1, <1>2, <1>4, CarriedApi
  <1>5. ASSUME NEW w \in Runner, WorkerStep(w) PROVE CarriedInv'
    BY <1>1, <1>2, <1>3, <1>5, CarriedWorker
  <1>6. ASSUME UNCHANGED <<status, api, copies, sentinel, pc, job>> PROVE CarriedInv'
    BY <1>2, <1>6 DEF CarriedInv, Carried, Working
  <1>7. ASSUME NEW w \in Runner, ExecuteNode(w) PROVE CarriedInv'
    <2>1. UNCHANGED <<status, api, copies, sentinel, pc, job>>
      BY <1>7 DEF ExecuteNode, NodeStep, HandlerReturns, HandlerRaises, WriteResult, WriteRaises,
                  NodeTask, apiVars, brokerVars
    <2>2. QED
      BY <1>6, <2>1
  <1>8. CASE Environment
    BY <1>1, <1>2, <1>8, CarriedEnvironment
  <1>9. CASE UNCHANGED vars
    BY <1>6, <1>9 DEF vars, wrVars, rowVars, runVars, apiVars, brokerVars
  <1>10. QED
    BY <1>4, <1>5, <1>7, <1>8, <1>9 DEF Next

(* A task that was enqueued stays with the queue or with a worker until    *)
(* its row is final, whatever the publisher repeats, the broker delivers   *)
(* again and whichever of the calls a run outlives fail, until a worker    *)
(* dies or the broker reboots.                                             *)
THEOREM NothingIsForgotten ==
  ASSUME FailingCalls \subseteq Outlived
  PROVE  Spec => []NothingForgotten
  <1>1. Init => CarriedInv
    BY RunAssumption DEF Init, WRInit, CarriedInv, Carried
  <1>2. IInv /\ CarriedInv /\ [Next]_vars => CarriedInv'
    BY CarriedStep
  <1>3. CarriedInv => NothingForgotten
    BY DEF CarriedInv, Carried, NothingForgotten
  <1>4. QED
    BY <1>1, <1>2, <1>3, InductiveInvariant, PTL DEF Spec
(***************************************************************************)
(* The Celery path implements ExecutionLifecycle, for every workflow and   *)
(* whatever is published, delivered again or crashes, as long as the       *)
(* broker does not reboot and finalize does not raise (a success would     *)
(* become a failure).  The key of an execution says which worker may move  *)
(* it on; LifeInv says that this worker's place in run_workflow agrees     *)
(* with the row and with the handlers that have begun and returned.        *)
(***************************************************************************)
Stage(w) ==
  /\ pc[w] \in {"load", "resolve", "refuse", "start"} => status[job[w]] = "queued"
  /\ pc[w] \in {"level", "gather", "succeed", "except"} => status[job[w]] = "running"

PhasesTrue(w) ==
  \A n \in Node :
    /\ phase[w][n] \in {"executing", "writing"} =>
         begun[job[w]][n] > 0 /\ n \notin returned[job[w]]
    /\ phase[w][n] = "done" => n \in returned[job[w]]

LevelsTrue(w) ==
  /\ pc[w] \in {"level", "gather"} =>
       \A k \in DOMAIN Levels : k < level[w] => \A n \in Levels[k] : phase[w][n] = "done"
  /\ pc[w] = "succeed" => \A n \in Node : phase[w][n] = "done"

RunTrue(w) == Stage(w) /\ PhasesTrue(w) /\ LevelsTrue(w)

Out(e) == copies[e] > 0 \/ \E w \in Runner : job[w] = e

(* Before its request, and before anybody claims it. *)
AskedTrue(e) ==
  /\ api[e] = "idle" => status[e] = "absent" /\ ~Out(e)
  /\ api[e] # "idle" /\ Pending(e) /\ sentinel[e] = "none" => status[e] = "queued"

ReturnedTrue(e) == \A n \in returned[e] : begun[e][n] > 0

LifeInv ==
  /\ \A w \in Runner : RunTrue(w)
  /\ \A e \in Execution : AskedTrue(e) /\ ReturnedTrue(e)

Base == TypeOK /\ ProgressInv /\ KeysIntact /\ KeyInv /\ FreshInv /\ BegunInv

AbsStays == UNCHANGED <<status, begun, returned>>

-----------------------------------------------------------------------------
LEMMA ApartIsTrue ==
  ASSUME NEW w \in Runner, ~Entered(w)
  PROVE  RunTrue(w)
  BY DEF Entered, RunTrue, Stage, PhasesTrue, LevelsTrue

LEMMA ApartIsTrueNext ==
  ASSUME NEW w \in Runner, ~Entered(w)'
  PROVE  RunTrue(w)'
  BY DEF Entered, RunTrue, Stage, PhasesTrue, LevelsTrue

LEMMA EnteredHasJob ==
  ASSUME ProgressInv, NEW w \in Runner, Entered(w)
  PROVE  job[w] \in Execution
  BY DEF ProgressInv, Progress, Entered

LEMMA ClaimLoads ==
  ASSUME TypeOK, NEW w \in Runner, ClaimSucceeds(w)
  PROVE  pc[w] = "claim" /\ pc'[w] = "load"
  BY DEF ClaimSucceeds, Continues, Goto, TypeOK

LEMMA RunKept ==
  ASSUME NEW w \in Runner, RunTrue(w),
         pc'[w] = pc[w] \/ pc'[w] \in {"finalize", "returned", "close"},
         job'[w] = job[w], level'[w] = level[w], phase'[w] = phase[w],
         status'[job[w]] = status[job[w]], begun'[job[w]] = begun[job[w]],
         returned'[job[w]] = returned[job[w]]
  PROVE  RunTrue(w)'
  BY DEF RunTrue, Stage, PhasesTrue, LevelsTrue

(* What no run and no request does: nothing of it shows in the lifecycle.  *)
LEMMA QuietStep ==
  ASSUME Base, LifeInv, StepEffect, AbsStays, UNCHANGED api,
         \A e \in Execution : Out(e)' => Out(e),
         \A w \in Runner : Entered(w)' /\ ~ClaimSucceeds(w) =>
           /\ pc'[w] = pc[w] \/ pc'[w] = "close"
           /\ level'[w] = level[w] /\ phase'[w] = phase[w],
         \A w \in Runner : ClaimSucceeds(w) => pc'[w] = "load" /\ \A n \in Node : phase'[w][n] = "idle"
  PROVE  LifeInv'
  <1>1. ASSUME NEW w \in Runner, Entered(w)' PROVE RunTrue(w)'
    <2>1. job'[w] = job[w]
      BY <1>1 DEF StepEffect
    <2>2. CASE ~ClaimSucceeds(w)
      BY <1>1, <2>1, <2>2, RunKept DEF LifeInv, AbsStays
    <2>3. CASE ClaimSucceeds(w)
      <3>1. pc[w] = "claim" /\ sentinel[job[w]] = "none" /\ job[w] \in Execution
        BY <2>3 DEF ClaimSucceeds, Continues, Goto, Base, ProgressInv, Progress
      <3>2. Out(job[w]) /\ Pending(job[w])
        BY <3>1 DEF Out, Pending
      <3>3. status[job[w]] = "queued"
        BY <3>1, <3>2 DEF LifeInv, AskedTrue
      <3>4. QED
        BY <2>1, <2>3, <3>3 DEF RunTrue, Stage, PhasesTrue, LevelsTrue, AbsStays
    <2>4. QED
      BY <2>2, <2>3
  <1>2. ASSUME NEW e \in Execution PROVE AskedTrue(e)' /\ ReturnedTrue(e)'
    <2>1. AskedTrue(e) /\ ReturnedTrue(e)
      BY DEF LifeInv
    <2>2. (Pending(e)' => Pending(e)) /\ (sentinel'[e] = "none" => sentinel[e] = "none" \/ ~Pending(e))
      BY DEF StepEffect
    <2>3. QED
      BY <2>1, <2>2 DEF AskedTrue, ReturnedTrue, AbsStays
  <1>3. QED
    BY <1>1, <1>2, ApartIsTrueNext DEF LifeInv

-----------------------------------------------------------------------------
(* The request. *)
LEMMA LifeApi ==
  ASSUME Base, LifeInv, NEW e \in Execution, ApiStep(e)
  PROVE  LifeInv' /\ (AbsStays \/ Lifecycle!Submit(e))
  <1>1. UNCHANGED <<pc, job, level, phase, begun, returned, sentinel>>
    BY ApiKeepsRuns DEF runVars, historyVars
  <1>2. /\ \A f \in Execution : f # e => api'[f] = api[f] /\ copies'[f] = copies[f]
        /\ api'[e] # "idle"
    BY DEF ApiStep, ApiGoto, Request, WakeSkipped, WakePatch, WakePatched, WakeFails, Send,
           SendFails, brokerVars, Base, TypeOK
  <1>3. CASE Request(e)
    <2>1. /\ status' = [status EXCEPT ![e] = "queued"] /\ api[e] = "idle"
          /\ status[e] = "absent" /\ \A w \in Runner : job[w] # e
      BY <1>3 DEF Request, ApiGoto, LifeInv, AskedTrue, Out
    <2>2. status'[e] = "queued" /\ \A f \in Execution : f # e => status'[f] = status[f]
      BY <2>1 DEF Base, TypeOK
    <2>3. ASSUME NEW w \in Runner PROVE RunTrue(w)'
      <3>1. CASE Entered(w)
        <4>1. status'[job[w]] = status[job[w]]
          BY <2>1, <2>2, <3>1, EnteredHasJob DEF Base
        <4>2. QED
          BY <1>1, <4>1, RunKept DEF LifeInv
      <3>2. CASE ~Entered(w)
        BY <1>1, <3>2, ApartIsTrueNext DEF Entered
      <3>3. QED
        BY <3>1, <3>2
    <2>4. ASSUME NEW f \in Execution PROVE AskedTrue(f)' /\ ReturnedTrue(f)'
      BY <1>1, <1>2, <2>2 DEF LifeInv, AskedTrue, ReturnedTrue, Out, Pending
    <2>5. Lifecycle!Submit(e)
      BY <1>1, <2>1 DEF Lifecycle!Submit, Lifecycle!Move
    <2>6. QED
      BY <2>3, <2>4, <2>5 DEF LifeInv
  <1>4. CASE ~Request(e)
    <2>1. status' = status /\ api[e] # "idle" /\ api[e] # "answered"
      BY <1>4 DEF ApiStep, ApiGoto, WakeSkipped, WakePatch, WakePatched, WakeFails, Send,
             SendFails, wrVars, rowVars
    <2>2. AbsStays
      BY <1>1, <2>1 DEF AbsStays
    <2>3. ASSUME NEW w \in Runner PROVE RunTrue(w)'
      BY <1>1, <2>1, RunKept DEF LifeInv
    <2>4. ASSUME NEW f \in Execution PROVE AskedTrue(f)' /\ ReturnedTrue(f)'
      <3>1. CASE f = e
        BY <1>1, <1>2, <2>1, <3>1 DEF LifeInv, AskedTrue, ReturnedTrue, Pending
      <3>2. CASE f # e
        BY <1>1, <1>2, <2>1, <3>2 DEF LifeInv, AskedTrue, ReturnedTrue, Pending, Out
      <3>3. QED
        BY <3>1, <3>2
    <2>5. QED
      BY <2>2, <2>3, <2>4 DEF LifeInv
  <1>5. QED
    BY <1>3, <1>4

-----------------------------------------------------------------------------
(* A step of w's run leaves the other runs and the requests alone. *)
LEMMA OthersStay ==
  ASSUME Base, LifeInv, NEW w \in Runner, Entered(w),
         UNCHANGED <<job, api, copies, sentinel>>,
         \A v \in Runner : v # w => pc'[v] = pc[v] /\ level'[v] = level[v] /\ phase'[v] = phase[v],
         \A e \in Execution : e # job[w] =>
           status'[e] = status[e] /\ begun'[e] = begun[e] /\ returned'[e] = returned[e],
         RunTrue(w)', ReturnedTrue(job[w])'
  PROVE  LifeInv'
  <1>0. job[w] \in Execution
    BY EnteredHasJob DEF Base
  <1>1. ASSUME NEW v \in Runner, v # w PROVE RunTrue(v)'
    <2>1. CASE Entered(v)
      <3>1. job[v] # job[w] /\ job[v] \in Execution
        BY <1>1, <2>1, EnteredHasJob DEF Base, KeyInv
      <3>2. QED
        BY <1>1, <3>1, RunKept DEF LifeInv
    <2>2. CASE ~Entered(v)
      BY <1>1, <2>2, ApartIsTrueNext DEF Entered
    <2>3. QED
      BY <2>1, <2>2
  <1>2. ASSUME NEW e \in Execution, e # job[w] PROVE AskedTrue(e)' /\ ReturnedTrue(e)'
    BY <1>2 DEF LifeInv, AskedTrue, ReturnedTrue, Out, Pending
  <1>3. AskedTrue(job[w])'
    <2>1. sentinel[job[w]] # "none" /\ Out(job[w])
      BY <1>0 DEF Base, KeyInv, Out
    <2>2. api[job[w]] # "idle"
      BY <1>0, <2>1 DEF LifeInv, AskedTrue
    <2>3. QED
      BY <2>1, <2>2 DEF AskedTrue
  <1>4. QED
    BY <1>0, <1>1, <1>2, <1>3 DEF LifeInv

(* One that does not show in the lifecycle. *)
LEMMA SilentRun ==
  ASSUME Base, LifeInv, NEW w \in Runner, pc[w] \in RunPCs,
         UNCHANGED <<job, api, copies, sentinel, status, begun, returned>>,
         \A v \in Runner : v # w => pc'[v] = pc[v] /\ level'[v] = level[v] /\ phase'[v] = phase[v],
         RunTrue(w)'
  PROVE  LifeInv' /\ AbsStays
  <1>1. Entered(w) /\ job[w] \in Execution
    BY EnteredHasJob DEF Entered, Base
  <1>2. ReturnedTrue(job[w])'
    BY <1>1 DEF LifeInv, ReturnedTrue
  <1>3. QED
    BY <1>1, <1>2, OthersStay DEF AbsStays

(* One that sets the status of its row. *)
LEMMA StatusRun ==
  ASSUME Base, LifeInv, NEW w \in Runner, pc[w] \in RunPCs, NEW s,
         status' = [status EXCEPT ![job[w]] = s],
         pc' = [pc EXCEPT ![w] = IF s = "running" THEN "level"
                                 ELSE IF s = "success" THEN "finalize" ELSE "returned"],
         UNCHANGED <<job, level, phase, api, copies, sentinel, begun, returned>>,
         s = "running" => level[w] = 1
  PROVE  LifeInv'
  <1>1. Entered(w) /\ job[w] \in Execution
    BY EnteredHasJob DEF Entered, Base
  <1>2. /\ status'[job[w]] = s
        /\ \A e \in Execution : e # job[w] => status'[e] = status[e]
        /\ \A v \in Runner : v # w => pc'[v] = pc[v]
    BY <1>1 DEF Base, TypeOK
  <1>3. pc'[w] \in {"level", "finalize", "returned"} /\ (pc'[w] = "level" => s = "running")
    BY DEF Base, TypeOK
  <1>4. PhasesTrue(w)'
    BY DEF LifeInv, RunTrue, PhasesTrue
  <1>5. \A k \in DOMAIN Levels : ~(k < 1)
    BY LevelsType
  <1>6. Stage(w)' /\ LevelsTrue(w)'
    BY <1>2, <1>3, <1>5 DEF Stage, LevelsTrue
  <1>7. ReturnedTrue(job[w])'
    BY <1>1 DEF LifeInv, ReturnedTrue
  <1>8. QED
    BY <1>1, <1>2, <1>4, <1>6, <1>7, OthersStay DEF RunTrue

LEMMA RunFrame ==
  ASSUME Base, NEW w \in Runner, Execute(w)
  PROVE  /\ pc[w] \in RunPCs
         /\ UNCHANGED <<job, api, copies, sentinel>>
         /\ \A v \in Runner : v # w => pc'[v] = pc[v] /\ level'[v] = level[v] /\ phase'[v] = phase[v]
  BY DEF Execute, RunStep, LoadRows, ResolveCredentials, RefuseRun, MarkRunning,
         BeginLevel, LevelsDone, GatherReturns, GatherRaises, MarkSuccess, Finalize, MarkFailed,
         Goto, Continues, Raises, SetStatus, apiVars, brokerVars, Base, TypeOK

(* Up to the first level, and when the run has failed or cannot say so. *)
LEMMA LifeEnds ==
  ASSUME Base, LifeInv, NEW w \in Runner, Execute(w), "finalize" \notin FailingCalls,
         \/ LoadRows(w) \/ ResolveCredentials(w) \/ RefuseRun(w) \/ MarkRunning(w)
         \/ MarkFailed(w) \/ Finalize(w)
  PROVE  LifeInv' /\ (AbsStays \/ Lifecycle!Next)
  <1> USE DEF Goto, Continues, Raises, SetStatus, rowVars, historyVars
  <1>0. job[w] \in Execution
    BY RunFrame, EnteredHasJob DEF Entered, Base
  <1>1. ASSUME UNCHANGED <<status, level, phase, begun, returned>>,
               \/ pc[w] \in {"load", "resolve"} /\ pc'[w] \in {"resolve", "refuse", "start"}
               \/ pc'[w] = "returned"
        PROVE  LifeInv' /\ AbsStays
    <2>1. RunTrue(w)'
      BY <1>1, RunFrame DEF LifeInv, RunTrue, Stage, PhasesTrue, LevelsTrue
    <2>2. QED
      BY <1>1, <2>1, RunFrame, SilentRun
  <1>2. CASE LoadRows(w) \/ ResolveCredentials(w)
    <2>1. UNCHANGED <<status, level, phase, begun, returned>>
      BY <1>2 DEF LoadRows, ResolveCredentials
    <2>2. \/ pc[w] \in {"load", "resolve"} /\ pc'[w] \in {"resolve", "refuse", "start"}
          \/ pc'[w] = "returned"
      BY <1>2 DEF LoadRows, ResolveCredentials, Base, TypeOK
    <2>3. QED
      BY <1>1, <2>1, <2>2
  <1>3. CASE Finalize(w) \/ Raises(w, "refuse", "returned") \/ Raises(w, "start", "returned")
             \/ Raises(w, "except", "returned")
    <2>1. UNCHANGED <<status, level, phase, begun, returned>> /\ pc'[w] = "returned"
      BY <1>3 DEF Finalize, Base, TypeOK
    <2>2. QED
      BY <1>1, <2>1
  <1>4. ASSUME Goto(w, "refuse", "returned"), SetStatus(w, "failed")
        PROVE  LifeInv' /\ Lifecycle!Refuse(job[w])
    <2>1. LifeInv'
      BY <1>4, RunFrame, StatusRun
    <2>2. status[job[w]] = "queued"
      BY <1>4 DEF LifeInv, RunTrue, Stage
    <2>3. QED
      BY <1>4, <2>1, <2>2 DEF Lifecycle!Refuse, Lifecycle!Move
  <1>5. ASSUME Goto(w, "start", "level"), SetStatus(w, "running")
        PROVE  LifeInv' /\ Lifecycle!Start(job[w])
    <2>1. level[w] = 1
      BY <1>5 DEF Base, ProgressInv, Progress
    <2>2. LifeInv'
      BY <1>5, <2>1, RunFrame, StatusRun
    <2>3. status[job[w]] = "queued"
      BY <1>5 DEF LifeInv, RunTrue, Stage
    <2>4. QED
      BY <1>5, <2>2, <2>3 DEF Lifecycle!Start, Lifecycle!Move
  <1>6. ASSUME Goto(w, "except", "returned"), SetStatus(w, "failed")
        PROVE  LifeInv' /\ Lifecycle!Fail(job[w])
    <2>1. LifeInv'
      BY <1>6, RunFrame, StatusRun
    <2>2. status[job[w]] = "running"
      BY <1>6 DEF LifeInv, RunTrue, Stage
    <2>3. QED
      BY <1>6, <2>1, <2>2 DEF Lifecycle!Fail, Lifecycle!Move
  <1>7. RefuseRun(w) => (Goto(w, "refuse", "returned") /\ SetStatus(w, "failed"))
                        \/ Raises(w, "refuse", "returned")
    BY DEF RefuseRun
  <1>8. MarkRunning(w) => (Goto(w, "start", "level") /\ SetStatus(w, "running"))
                          \/ Raises(w, "start", "returned")
    BY DEF MarkRunning
  <1>9. MarkFailed(w) => (Goto(w, "except", "returned") /\ SetStatus(w, "failed"))
                         \/ Raises(w, "except", "returned")
    BY DEF MarkFailed
  <1>10. Lifecycle!Refuse(job[w]) \/ Lifecycle!Start(job[w]) \/ Lifecycle!Fail(job[w])
           => Lifecycle!Next
    BY <1>0 DEF Lifecycle!Next
  <1> HIDE DEF Goto, Continues, Raises, SetStatus
  <1>11. QED
    BY <1>2, <1>3, <1>4, <1>5, <1>6, <1>7, <1>8, <1>9, <1>10

(* A level begins when all those before it are done. *)
LEMMA LifeBegins ==
  ASSUME Base, LifeInv, NEW w \in Runner, Execute(w), BeginLevel(w)
  PROVE  LifeInv' /\ (AbsStays \/ Lifecycle!Next)
  <1> DEFINE e == job[w]
             S == Levels[level[w]]
  <1>0. /\ e \in Execution /\ pc[w] = "level" /\ Entered(w)
        /\ \A n \in S : phase[w][n] = "idle" /\ phase'[w][n] = "executing"
        /\ \A f \in Execution, n \in Node :
             begun'[f][n] = IF f = e /\ n \in S THEN begun[f][n] + 1 ELSE begun[f][n]
    BY BeginEffect DEF Base
  <1>1. /\ level[w] <= Len(Levels) /\ level'[w] = level[w] /\ pc'[w] = "gather"
        /\ status' = status /\ returned' = returned /\ job' = job
        /\ \A n \in Node : n \notin S => phase'[w][n] = phase[w][n]
    BY DEF BeginLevel, Goto, rowVars, Base, TypeOK
  <1>2. level[w] \in DOMAIN Levels /\ S \subseteq Node
    BY <1>1, LevelsType DEF Base, TypeOK
  <1>3. \A f \in Execution : f # e => begun'[f] = begun[f]
    BY <1>0 DEF BeginLevel, Base, TypeOK
  <1>4. begun \in [Execution -> [Node -> Nat]] /\ returned \in [Execution -> SUBSET Node]
    BY DEF Base, TypeOK
  <1> HIDE DEF S, e
  <1>5. \A n \in S : begun[e][n] = 0 /\ n \notin returned[e]
    <2>1. \A n \in S : begun[e][n] = 0
      BY <1>0, <1>2 DEF Base, BegunInv, e
    <2>2. \A n \in returned[e] : begun[e][n] > 0
      BY <1>0 DEF LifeInv, ReturnedTrue
    <2>3. QED
      BY <2>1, <2>2
  <1>6. Stage(w)'
    BY <1>0, <1>1 DEF LifeInv, RunTrue, Stage, e
  <1>7. PhasesTrue(w)'
    <2>1. \A n \in S : begun'[e][n] > 0 /\ n \notin returned'[e]
      BY <1>0, <1>1, <1>2, <1>5
    <2>2. \A n \in Node : n \notin S => begun'[e][n] = begun[e][n]
      BY <1>0
    <2>3. job'[w] = e
      BY DEF BeginLevel, e
    <2>4. \A n \in Node : n \notin S =>
            /\ phase[w][n] \in {"executing", "writing"} => begun[e][n] > 0 /\ n \notin returned[e]
            /\ phase[w][n] = "done" => n \in returned[e]
      BY DEF LifeInv, RunTrue, PhasesTrue, e
    <2>5. ASSUME NEW n \in Node
          PROVE  /\ phase'[w][n] \in {"executing", "writing"} =>
                      begun'[e][n] > 0 /\ n \notin returned'[e]
                 /\ phase'[w][n] = "done" => n \in returned'[e]
      <3>1. CASE n \in S
        BY <1>0, <2>1, <3>1
      <3>2. CASE n \notin S
        BY <1>1, <2>2, <2>4, <3>2
      <3>3. QED
        BY <3>1, <3>2
    <2>6. QED
      BY <2>3, <2>5 DEF PhasesTrue
  <1>8. \A k \in DOMAIN Levels : k < level[w] => \A n \in Levels[k] : n \in Node /\ phase[w][n] = "done"
    BY <1>0, LevelsType DEF LifeInv, RunTrue, LevelsTrue
  <1>9. LevelsTrue(w)'
    <2>1. ASSUME NEW k \in DOMAIN Levels, k < level[w], NEW n \in Levels[k]
          PROVE  phase'[w][n] = "done"
      <3>1. phase[w][n] = "done" /\ n \in Node
        BY <1>8, <2>1
      <3>2. QED
        BY <1>0, <1>1, <3>1
    <2>2. QED
      BY <1>1, <2>1 DEF LevelsTrue
  <1>10. ReturnedTrue(e)'
    <2>1. \A n \in returned[e] : begun[e][n] > 0 /\ n \in Node
      BY <1>0, <1>4 DEF LifeInv, ReturnedTrue
    <2>2. \A n \in returned[e] : begun'[e][n] > 0
      BY <1>0, <1>4, <2>1
    <2>3. QED
      BY <1>1, <2>2 DEF ReturnedTrue, e
  <1>11. LifeInv'
    BY <1>0, <1>1, <1>3, <1>6, <1>7, <1>9, <1>10, RunFrame, OthersStay DEF RunTrue, e
  <1>12. CASE S = {}
    <2>1. \A f \in Execution : begun'[f] = begun[f]
      <3>1. begun' \in [Execution -> [Node -> Nat]]
        BY TypeRun DEF Base, TypeOK
      <3>2. \A n \in Node : begun'[e][n] = begun[e][n]
        BY <1>0, <1>12
      <3>3. begun'[e] = begun[e]
        BY <1>0, <1>4, <3>1, <3>2
      <3>4. QED
        BY <1>3, <3>3
    <2>2. begun' = begun
      <3>1. begun' \in [Execution -> [Node -> Nat]]
        BY TypeRun DEF Base, TypeOK
      <3>2. QED
        BY <1>4, <2>1, <3>1
    <2>3. QED
      BY <1>1, <1>11, <2>2 DEF AbsStays
  <1>13. CASE S # {}
    <2> DEFINE abs == [f \in Execution |-> {n \in Node : begun[f][n] > 0}]
               new == [f \in Execution |-> {n \in Node : begun'[f][n] > 0}]
    <2>1. status[e] = "running"
      BY <1>0 DEF LifeInv, RunTrue, Stage, e
    <2>2. S \cap abs[e] = {}
      BY <1>0, <1>5
    <2>3. ASSUME NEW n \in S, NEW m \in Node, <<m, n>> \in Edge
          PROVE  m \in returned[e]
      <3>1. PICK k \in DOMAIN Levels : m \in Levels[k]
        BY RunAssumption DEF IsLevelling
      <3>2. k < level[w]
        <4>1. /\ <<m, n>>[1] \in Levels[k] /\ <<m, n>>[2] \in Levels[level[w]]
              /\ k \in DOMAIN Levels /\ level[w] \in DOMAIN Levels
          BY <1>2, <2>3, <3>1 DEF S
        <4>2. QED
          BY <2>3, <4>1, RunAssumption DEF IsLevelling
      <3>3. phase[w][m] = "done"
        BY <1>8, <3>1, <3>2
      <3>4. QED
        BY <3>3 DEF LifeInv, RunTrue, PhasesTrue, e
    <2>4. \A n \in S : Lifecycle!Predecessors(n) \subseteq returned[e]
      BY <2>3 DEF Lifecycle!Predecessors
    <2>5. \A f \in Execution : new[f] = IF f = e THEN abs[f] \union S ELSE abs[f]
      <3>1. ASSUME NEW f \in Execution, NEW n \in Node
            PROVE  begun'[f][n] > 0 <=> (begun[f][n] > 0 \/ (f = e /\ n \in S))
        BY <1>0, <1>4
      <3>2. QED
        BY <1>2, <3>1
    <2>6. new = [abs EXCEPT ![e] = @ \union S]
      <3> HIDE DEF abs
      <3>1. abs = [f \in Execution |-> abs[f]]
        BY DEF abs
      <3>2. QED
        BY <1>0, <2>5, <3>1
    <2>7. PICK f \in Execution, T \in SUBSET Node : f = e /\ T = S
      BY <1>0, <1>2
    <2> HIDE DEF abs, new
    <2>8. Lifecycle!Next
      <3>1. Lifecycle!Begin(f, T)
        BY <1>1, <1>13, <2>1, <2>2, <2>4, <2>6, <2>7 DEF Lifecycle!Begin, abs, new
      <3>2. QED
        BY <3>1 DEF Lifecycle!Next
    <2>9. QED
      BY <1>11, <2>8
  <1>14. QED
    BY <1>12, <1>13

(* Between two levels, and after the last. *)
LEMMA LifeAdvances ==
  ASSUME Base, LifeInv, NEW w \in Runner, Execute(w),
         LevelsDone(w) \/ GatherReturns(w) \/ GatherRaises(w) \/ MarkSuccess(w)
  PROVE  LifeInv' /\ (AbsStays \/ Lifecycle!Next)
  <1> USE DEF Goto, Continues, Raises, SetStatus, rowVars, historyVars
  <1>0. /\ job[w] \in Execution /\ level[w] \in Nat
        /\ \A n \in Node : \E k \in 1..Len(Levels) : n \in Levels[k]
        /\ Len(Levels) \in Nat /\ DOMAIN Levels = 1..Len(Levels)
    BY RunFrame, EnteredHasJob, LevelsType, RunAssumption DEF Entered, Base, TypeOK, IsLevelling
  <1>1. CASE LevelsDone(w)
    <2>1. /\ pc[w] = "level" /\ level[w] > Len(Levels) /\ pc'[w] = "succeed"
          /\ UNCHANGED <<status, level, phase, begun, returned>>
      BY <1>1 DEF LevelsDone, Base, TypeOK
    <2>2. \A k \in 1..Len(Levels) : \A n \in Levels[k] : phase[w][n] = "done"
      BY <1>0, <2>1 DEF LifeInv, RunTrue, LevelsTrue
    <2>3. \A n \in Node : phase[w][n] = "done"
      BY <1>0, <2>2
    <2>4. RunTrue(w)'
      BY <2>1, <2>3, RunFrame DEF LifeInv, RunTrue, Stage, PhasesTrue, LevelsTrue
    <2>5. QED
      BY <2>1, <2>4, RunFrame, SilentRun
  <1>2. CASE GatherReturns(w)
    <2>1. /\ pc[w] = "gather" /\ pc'[w] = "level" /\ level'[w] = level[w] + 1
          /\ \A n \in Levels[level[w]] : phase[w][n] = "done"
          /\ UNCHANGED <<status, phase, begun, returned>>
      BY <1>2 DEF GatherReturns, Base, TypeOK
    <2>2. \A k \in DOMAIN Levels : k < level[w] => \A n \in Levels[k] : phase[w][n] = "done"
      BY <2>1 DEF LifeInv, RunTrue, LevelsTrue
    <2>3. \A k \in DOMAIN Levels : k < level'[w] => k < level[w] \/ k = level[w]
      BY <1>0, <2>1
    <2>4. LevelsTrue(w)'
      BY <2>1, <2>2, <2>3 DEF LevelsTrue
    <2>5. Stage(w)' /\ PhasesTrue(w)'
      BY <2>1, RunFrame DEF LifeInv, RunTrue, Stage, PhasesTrue
    <2>6. QED
      BY <2>1, <2>4, <2>5, RunFrame, SilentRun DEF RunTrue
  <1>3. CASE GatherRaises(w) \/ Raises(w, "succeed", "except")
    <2>1. /\ pc[w] \in {"gather", "succeed"} /\ pc'[w] = "except"
          /\ UNCHANGED <<status, level, phase, begun, returned>>
      BY <1>3 DEF GatherRaises, Base, TypeOK
    <2>2. RunTrue(w)'
      BY <2>1, RunFrame DEF LifeInv, RunTrue, Stage, PhasesTrue, LevelsTrue
    <2>3. QED
      BY <2>1, <2>2, RunFrame, SilentRun
  <1>4. CASE Goto(w, "succeed", "finalize") /\ SetStatus(w, "success")
    <2>1. LifeInv'
      BY <1>4, RunFrame, StatusRun
    <2>2. status[job[w]] = "running" /\ \A n \in Node : n \in returned[job[w]]
      BY <1>4 DEF LifeInv, RunTrue, Stage, PhasesTrue, LevelsTrue
    <2>3. returned[job[w]] = Node
      BY <1>0, <2>2 DEF Base, TypeOK
    <2>4. Lifecycle!Succeed(job[w])
      BY <1>4, <2>2, <2>3 DEF Lifecycle!Succeed, Lifecycle!Move
    <2>5. QED
      BY <1>0, <2>1, <2>4 DEF Lifecycle!Next
  <1>5. MarkSuccess(w) => (Goto(w, "succeed", "finalize") /\ SetStatus(w, "success"))
                          \/ Raises(w, "succeed", "except")
    BY DEF MarkSuccess
  <1>6. QED
    BY <1>1, <1>2, <1>3, <1>4, <1>5

-----------------------------------------------------------------------------
(* The tasks of a level. *)
LEMMA LifeNode ==
  ASSUME Base, LifeInv, NEW w \in Runner, ExecuteNode(w)
  PROVE  LifeInv' /\ (AbsStays \/ Lifecycle!Next)
  <1>0. PICK n \in Node :
          \/ HandlerReturns(w, n) \/ HandlerRaises(w, n)
          \/ WriteResult(w, n) \/ WriteRaises(w, n)
    BY DEF ExecuteNode, NodeStep
  <1> DEFINE e == job[w]
  <1>1. PICK from \in {"executing", "writing"}, to \in {"writing", "done", "raised"} :
          /\ phase[w][n] = from /\ phase' = [phase EXCEPT ![w][n] = to]
          /\ to = "done" <=> WriteResult(w, n)
          /\ UNCHANGED <<status, pc, job, level, begun, api, copies, sentinel>>
          /\ returned' = IF to = "done" THEN [returned EXCEPT ![e] = @ \union {n}] ELSE returned
    BY <1>0 DEF HandlerReturns, HandlerRaises, WriteResult, WriteRaises, NodeTask, ExecuteNode,
                apiVars, brokerVars
  <1>2. /\ phase'[w][n] = to
        /\ \A m \in Node : m # n => phase'[w][m] = phase[w][m]
        /\ \A v \in Runner : v # w => phase'[v] = phase[v]
    BY <1>1 DEF Base, TypeOK
  <1>3. Entered(w) /\ e \in Execution
    <2>1. Entered(w)
      BY <1>1 DEF Entered
    <2>2. QED
      BY <2>1, EnteredHasJob DEF Base
  <1>4. /\ \A f \in Execution : f # e => returned'[f] = returned[f]
        /\ returned'[e] = IF to = "done" THEN returned[e] \union {n} ELSE returned[e]
    BY <1>1, <1>3 DEF Base, TypeOK
  <1>5. begun[e][n] > 0 /\ n \notin returned[e]
    BY <1>1 DEF LifeInv, RunTrue, PhasesTrue
  <1>6. Stage(w)'
    BY <1>1 DEF LifeInv, RunTrue, Stage
  <1>7. PhasesTrue(w)'
    <2>1. ASSUME NEW m \in Node
          PROVE  /\ phase'[w][m] \in {"executing", "writing"} =>
                      begun'[e][m] > 0 /\ m \notin returned'[e]
                 /\ phase'[w][m] = "done" => m \in returned'[e]
      <3>1. CASE m = n
        BY <1>1, <1>2, <1>4, <1>5, <3>1
      <3>2. CASE m # n
        <4>1. /\ phase[w][m] \in {"executing", "writing"} => begun[e][m] > 0 /\ m \notin returned[e]
              /\ phase[w][m] = "done" => m \in returned[e]
          BY DEF LifeInv, RunTrue, PhasesTrue
        <4>2. QED
          BY <1>1, <1>2, <1>4, <3>2, <4>1
      <3>3. QED
        BY <3>1, <3>2
    <2>2. job'[w] = e
      BY <1>1
    <2> HIDE DEF e
    <2>3. QED
      BY <2>1, <2>2 DEF PhasesTrue
  <1>8. LevelsTrue(w)'
    <2>1. \A m \in Node : phase[w][m] = "done" => phase'[w][m] = "done"
      BY <1>1, <1>2
    <2>2. \A k \in DOMAIN Levels : Levels[k] \subseteq Node
      BY RunAssumption DEF IsLevelling
    <2>3. QED
      BY <1>1, <2>1, <2>2 DEF LifeInv, RunTrue, LevelsTrue
  <1>9. ReturnedTrue(e)'
    BY <1>1, <1>3, <1>4, <1>5 DEF LifeInv, ReturnedTrue
  <1>10. LifeInv'
    BY <1>1, <1>2, <1>3, <1>4, <1>6, <1>7, <1>8, <1>9, OthersStay DEF RunTrue
  <1>11. CASE to # "done"
    BY <1>1, <1>10, <1>11 DEF AbsStays
  <1>12. CASE to = "done"
    <2>1. Lifecycle!Return(e, n)
      BY <1>1, <1>3, <1>5, <1>12 DEF Lifecycle!Return
    <2>2. QED
      BY <1>3, <1>10, <2>1 DEF Lifecycle!Next
  <1>13. QED
    BY <1>11, <1>12

(* Messages, the key, and the faults. *)
LEMMA LifeBroker ==
  ASSUME Base, LifeInv, KeysIntact', [Next]_vars,
         ~\E e \in Execution : ApiStep(e),
         ~\E w \in Runner : Execute(w) \/ ExecuteNode(w)
  PROVE  LifeInv' /\ AbsStays
  <1>0. StepEffect
    BY EffectNext DEF Base
  <1>1. CASE \E w \in Runner : WorkerStep(w)
    <2> SUFFICES ASSUME NEW w \in Runner, WorkerStep(w) PROVE LifeInv' /\ AbsStays
      BY <1>1
    <2>1. AbsStays /\ UNCHANGED api
      BY DEF WorkerStep, Deliver, TakeJob, ClaimSucceeds, ClaimSkips, ClaimRaises, Release,
             Acknowledge, StopProcessing, Continues, rowVars, historyVars, apiVars, AbsStays
    <2>2. \A e \in Execution : Out(e)' => Out(e)
      <3>1. ASSUME NEW e \in Execution, Deliver(w, e)
            PROVE  \A f \in Execution : Out(f)' => Out(f)
        <4>1. /\ copies[e] > 0 /\ copies' = [copies EXCEPT ![e] = @ - 1]
              /\ job' = [job EXCEPT ![w] = e]
          BY <3>1 DEF Deliver, TakeJob
        <4>2. \A f \in Execution : copies'[f] > 0 => copies[f] > 0
          BY <4>1 DEF Base, TypeOK
        <4>3. \A v \in Runner : job'[v] = job[v] \/ job'[v] = e
          BY <4>1 DEF Base, TypeOK
        <4>4. QED
          BY <4>1, <4>2, <4>3 DEF Out
      <3>2. CASE ~\E e \in Execution : Deliver(w, e)
        <4>1. UNCHANGED copies /\ \A v \in Runner : job'[v] = job[v] \/ job'[v] = None
          BY <3>2 DEF WorkerStep, ClaimSucceeds, ClaimSkips, ClaimRaises, Release,
             Acknowledge, StopProcessing, ForgetRun, Continues, brokerVars, Execute, Base, TypeOK
        <4>2. QED
          BY <4>1, RunAssumption DEF Out
      <3>3. QED
        BY <3>1, <3>2
    <2>3. /\ \A v \in Runner : v # w =>
               pc'[v] = pc[v] /\ level'[v] = level[v] /\ phase'[v] = phase[v]
          /\ \/ pc'[w] \in {"claim", "load", "close"} /\ UNCHANGED <<level, phase>>
             \/ pc'[w] = "idle" /\ \A n \in Node : phase'[w][n] = "idle"
      BY DEF WorkerStep, Deliver, TakeJob, ClaimSucceeds, ClaimSkips, ClaimRaises, Release,
             Acknowledge, StopProcessing, ForgetRun, Continues, Goto, Base, TypeOK
    <2>4. \A v \in Runner : ClaimSucceeds(v) => pc'[v] = "load" /\ \A n \in Node : phase'[v][n] = "idle"
      BY DEF ClaimSucceeds, Continues, Goto, Base, TypeOK, ProgressInv, Progress
    <2>5. pc'[w] = "load" => ClaimSucceeds(w)
      BY DEF WorkerStep, Deliver, ClaimSucceeds, ClaimSkips, ClaimRaises, Release,
             Acknowledge, StopProcessing, ForgetRun, Continues, Goto, Base, TypeOK
    <2>6. pc'[w] = "claim" => \A n \in Node : phase'[w][n] = "idle"
      BY DEF WorkerStep, Deliver, TakeJob, ClaimSucceeds, ClaimSkips, ClaimRaises, Release,
             Acknowledge, StopProcessing, ForgetRun, Continues, Goto, Base, TypeOK,
             ProgressInv, Progress
    <2>7. \A v \in Runner : Entered(v)' /\ ~ClaimSucceeds(v) =>
             /\ pc'[v] = pc[v] \/ pc'[v] = "close"
             /\ level'[v] = level[v] /\ phase'[v] = phase[v]
      BY <2>3, <2>5, <2>6 DEF Entered
    <2>8. QED
      BY <1>0, <2>1, <2>2, <2>4, <2>7, QuietStep
  <1>2. ASSUME UNCHANGED <<api, level, phase, status, begun, returned, pc, job>>,
               \A e \in Execution : copies'[e] > 0 => Out(e)
        PROVE  LifeInv' /\ AbsStays
    <2>1. AbsStays /\ \A e \in Execution : Out(e)' => Out(e)
      BY <1>2 DEF AbsStays, Out
    <2>2. \A w \in Runner : ~ClaimSucceeds(w)
      BY <1>2 DEF ClaimSucceeds, Continues, Goto, Base, TypeOK
    <2>3. QED
      BY <1>0, <1>2, <2>1, <2>2, QuietStep
  <1>3. ASSUME NEW w \in Runner, Crash(w) PROVE LifeInv' /\ AbsStays
    <2>1. /\ AbsStays /\ UNCHANGED api
          /\ pc'[w] = "idle" /\ \A n \in Node : phase'[w][n] = "idle"
          /\ job'[w] = None
          /\ \A v \in Runner : v # w =>
               pc'[v] = pc[v] /\ level'[v] = level[v] /\ phase'[v] = phase[v] /\ job'[v] = job[v]
      BY <1>3 DEF Crash, StopProcessing, ForgetRun, rowVars, historyVars, apiVars, AbsStays,
                  Base, TypeOK
    <2>2. \A e \in Execution : Out(e)' => Out(e)
      <3>1. \A e \in Execution : copies'[e] > 0 => copies[e] > 0 \/ job[w] = e
        BY <1>3 DEF Crash, Returned, Base, TypeOK
      <3>2. \A e \in Execution : None # e
        BY RunAssumption
      <3>3. QED
        BY <2>1, <3>1, <3>2 DEF Out
    <2>3. \A v \in Runner : ~ClaimSucceeds(v)
      BY <2>1, ClaimLoads DEF Base
    <2>4. \A v \in Runner : Entered(v)' => v # w
      BY <2>1 DEF Entered
    <2>5. QED
      BY <1>0, <2>1, <2>2, <2>3, <2>4, QuietStep
  <1>4. ASSUME NEW w \in Runner, Redeliver(w) PROVE LifeInv' /\ AbsStays
    <2>1. \A e \in Execution : copies'[e] > 0 => copies[e] > 0 \/ job[w] = e
      BY <1>4 DEF Redeliver, Returned, Base, TypeOK
    <2>2. UNCHANGED <<api, level, phase, status, begun, returned, pc, job>>
      BY <1>4 DEF Redeliver, wrVars, rowVars, runVars, historyVars, apiVars
    <2>3. QED
      BY <1>2, <2>1, <2>2 DEF Out
  <1>5. CASE Reboot
    BY <1>5 DEF Reboot, Strikes, Base, TypeOK, KeysIntact
  <1>6. CASE (\E e \in Execution : Expire(e)) \/ ThrottleEnds \/ PoolSleeps \/ UNCHANGED vars
             \/ (Delete /\ UNCHANGED <<apiVars, brokerVars, faults>>)
    <2>1. UNCHANGED <<api, level, phase, status, begun, returned, pc, job, copies>>
      BY <1>6 DEF Expire, ThrottleEnds, PoolSleeps, Delete, vars, wrVars, rowVars, runVars,
                  historyVars, apiVars, brokerVars
    <2>2. QED
      BY <1>2, <2>1 DEF Out
  <1>7. QED
    BY <1>1, <1>3, <1>4, <1>5, <1>6 DEF Next, Environment

-----------------------------------------------------------------------------
LEMMA LifeStep ==
  ASSUME Base, LifeInv, KeysIntact', [Next]_vars, "finalize" \notin FailingCalls
  PROVE  LifeInv' /\ (AbsStays \/ Lifecycle!Next)
  <1>1. CASE \E e \in Execution : ApiStep(e)
    BY <1>1, LifeApi DEF Lifecycle!Next
  <1>2. ASSUME NEW w \in Runner, Execute(w) PROVE LifeInv' /\ (AbsStays \/ Lifecycle!Next)
    BY <1>2, LifeEnds, LifeBegins, LifeAdvances DEF Execute, RunStep
  <1>3. CASE \E w \in Runner : ExecuteNode(w)
    BY <1>3, LifeNode
  <1>4. CASE ~(\E e \in Execution : ApiStep(e)) /\ ~(\E w \in Runner : Execute(w) \/ ExecuteNode(w))
    BY <1>4, LifeBroker
  <1>5. QED
    BY <1>1, <1>2, <1>3, <1>4

LEMMA AbsStutters == AbsStays => UNCHANGED Lifecycle!vars
  <1> SUFFICES ASSUME AbsStays PROVE UNCHANGED Lifecycle!vars
    OBVIOUS
  <1>1. status' = status /\ begun' = begun /\ returned' = returned
    BY DEF AbsStays
  <1>2. QED
    BY <1>1 DEF Lifecycle!vars

LEMMA LifeStarts == Init => LifeInv /\ Lifecycle!Init /\ KeysIntact
  <1> SUFFICES ASSUME Init PROVE LifeInv /\ Lifecycle!Init /\ KeysIntact
    OBVIOUS
  <1>1. \A w \in Runner : ~Entered(w)
    BY DEF Init, WRInit, Entered
  <1>2. \A e \in Execution : AskedTrue(e) /\ ReturnedTrue(e)
    BY RunAssumption DEF Init, WRInit, AskedTrue, ReturnedTrue, Out
  <1>3. Lifecycle!Init
    BY DEF Init, WRInit, Lifecycle!Init
  <1>4. QED
    BY <1>1, <1>2, <1>3, ApartIsTrue DEF LifeInv, Init, KeysIntact

LEMMA NoReboot == MaxReboots = 0 /\ TypeOK /\ KeysIntact /\ [Next]_vars => KeysIntact'
  <1> SUFFICES ASSUME MaxReboots = 0, TypeOK, KeysIntact, [Next]_vars PROVE KeysIntact'
    OBVIOUS
  <1>1. CASE \E e \in Execution : ApiStep(e)
    BY <1>1 DEF ApiStep, Request, WakeSkipped, WakePatch, WakePatched, WakeFails, Send, SendFails,
                KeysIntact
  <1>2. CASE \E w \in Runner : WorkerStep(w) \/ ExecuteNode(w)
    BY <1>2 DEF WorkerStep, Deliver, ClaimSucceeds, ClaimSkips, ClaimRaises, Release, Acknowledge,
                Execute, ExecuteNode, KeysIntact
  <1>3. CASE Environment
    BY <1>3 DEF Environment, Crash, Redeliver, Reboot, Strikes, Expire, ThrottleEnds, PoolSleeps,
                KeysIntact, TypeOK
  <1>4. CASE UNCHANGED vars
    BY <1>4 DEF vars, KeysIntact
  <1>5. QED
    BY <1>1, <1>2, <1>3, <1>4 DEF Next

(* An execution dispatched through Celery lives as ExecutionLifecycle      *)
(* says, whatever is published twice, delivered again, crashes, or fails   *)
(* but finalize: its handlers start only while it runs and after their     *)
(* predecessors, each once, success means that all returned, and a status  *)
(* that is final stays.                                                    *)
THEOREM DispatchImplementsLifecycle ==
  ASSUME MaxReboots = 0, "finalize" \notin FailingCalls
  PROVE  Spec => ImplementsLifecycle
  <1>1. Init => LifeInv /\ Lifecycle!Init /\ KeysIntact
    BY LifeStarts
  <1>2. IInv /\ KeysIntact /\ LifeInv /\ [Next]_vars
          => KeysIntact' /\ LifeInv' /\ [Lifecycle!Next]_Lifecycle!vars
    <2> SUFFICES ASSUME IInv, KeysIntact, LifeInv, [Next]_vars
                 PROVE  KeysIntact' /\ LifeInv' /\ [Lifecycle!Next]_Lifecycle!vars
      OBVIOUS
    <2>1. Base
      BY DEF IInv, Base
    <2>2. KeysIntact'
      BY <2>1, NoReboot DEF Base
    <2>3. LifeInv' /\ (AbsStays \/ Lifecycle!Next)
      BY <2>1, <2>2, LifeStep
    <2>4. QED
      BY <2>2, <2>3, AbsStutters
  <1>3. QED
    BY <1>1, <1>2, InductiveInvariant, PTL DEF Spec, ImplementsLifecycle, Lifecycle!Spec
=============================================================================
