----------------------------- MODULE AgentChannel -----------------------------
(***************************************************************************)
(* The agent path: execute_workflow (API_Server/app/services/              *)
(* workflow_service.py) sends an execute frame over the agent's WebSocket; *)
(* the agent (Execution_Engine/src/agent) runs the workflow and reports    *)
(* every repository call as a frame (ws_repo.py), which the socket's       *)
(* handler (API_Server/app/routers/agents.py) applies to the row.          *)
(*                                                                         *)
(* From WorkflowRun come the executions' rows and the levels of a run; a   *)
(* runner is a task the agent starts for an execute frame.  TCP is         *)
(* external: each direction delivers in order, and a connection that       *)
(* breaks loses a suffix of what is under way; either end may notice late. *)
(***************************************************************************)
EXTENDS WorkflowRun

CONSTANTS
    Agent,         \* the owner's registered agents
    Socket,        \* the connections that are ever opened
    MaxRestarts    \* bound on restarts of the API server

(* A report of a node's result is not taken for one of another kind. *)
ASSUME ChannelAssumption ==
    /\ None \notin Socket \cup Agent
    /\ Node \cap (Statuses \cup {"final"}) = {}
    /\ MaxRestarts \in Nat

VARIABLES
    api, target,   \* per execution: where its request stands, the socket it picked
    table,         \* agent_connections
    link, peer,    \* per socket: the server's end, the agent it was opened by
    alive,         \* per socket: the agent process behind it is up
    intact,        \* per socket: what is sent arrives
    toAgent,       \* per socket: execute frames under way
    toServer,      \* per socket: reports under way
    origin,        \* per runner: the socket its frame came by
    overlapped,    \* history: a connection replaced one that was still in the table
    restarts

apiVars == <<api, target>>
serverVars == <<table, link, peer, overlapped>>
wireVars == <<alive, intact, toAgent, toServer>>
vars == <<wrVars, apiVars, serverVars, wireVars, origin, restarts>>

ApiPCs == {"idle", "lookup", "encrypt", "send", "refuse", "answered"}
TaskPCs == RunPCs \cup {"idle"}

(* A report: a status, a node whose result it carries, or "final". *)
Reports == Execution \X ({"running", "success", "failed", "final"} \cup Node)

Init ==
    /\ WRInit
    /\ api = [e \in Execution |-> "idle"]
    /\ target = [e \in Execution |-> None]
    /\ table = [a \in Agent |-> None]
    /\ link = [s \in Socket |-> "none"]
    /\ peer = [s \in Socket |-> None]
    /\ alive = [s \in Socket |-> FALSE]
    /\ intact = [s \in Socket |-> FALSE]
    /\ toAgent = [s \in Socket |-> {}]
    /\ toServer = [s \in Socket |-> <<>>]
    /\ origin = [w \in Runner |-> None]
    /\ overlapped = FALSE
    /\ restarts = 0

-----------------------------------------------------------------------------
(* execute_workflow with execution_mode "agent". *)
ApiGoto(e, from, to) ==
    /\ api[e] = from
    /\ api' = [api EXCEPT ![e] = to]
    /\ UNCHANGED <<results, finalized, gone, runVars, historyVars, serverVars,
                   alive, intact, toServer, origin, restarts>>

Request(e) ==
    /\ ApiGoto(e, "idle", "lookup")
    /\ status' = [status EXCEPT ![e] = "queued"]
    /\ UNCHANGED <<target, toAgent>>

(* The first agent of the owner that is in the table; the order of the     *)
(* list is not the model's.                                                *)
PickAgent(e) ==
    /\ ApiGoto(e, "lookup", "encrypt")
    /\ \E a \in Agent : table[a] # None /\ target' = [target EXCEPT ![e] = table[a]]
    /\ UNCHANGED <<status, toAgent>>

(* Mutant: the service holds a dict of its own ("agent_connections or {}"). *)
NoAgent_OwnDict(e) ==
    /\ ApiGoto(e, "lookup", "refuse")
    /\ UNCHANGED <<status, target, toAgent>>

NoAgent(e) ==
    /\ \A a \in Agent : table[a] = None
    /\ ApiGoto(e, "lookup", "refuse")
    /\ UNCHANGED <<status, target, toAgent>>

(* retrieve_for_agent, once per reference; if it raises, so does the       *)
(* request, and the row stays as it is.                                    *)
Encrypt(e) ==
    /\ \/ ApiGoto(e, "encrypt", "send")
       \/ "encrypt" \in FailingCalls /\ ApiGoto(e, "encrypt", "answered")
    /\ UNCHANGED <<status, target, toAgent>>

(* Mutant: no break after the first agent. *)
SendExecute_ToAll(e) ==
    /\ ApiGoto(e, "send", "answered")
    /\ toAgent' = [s \in Socket |-> IF intact[s] /\ link[s] = "open" THEN toAgent[s] \cup {e}
                                                                 ELSE toAgent[s]]
    /\ UNCHANGED <<status, target>>

(* send_json raises on a socket that is not open, and the frame is lost on *)
(* one that only seems to be: nothing tells the two from a success later.  *)
SendExecute(e) ==
    /\ ApiGoto(e, "send", "answered")
    /\ LET s == target[e] IN
       IF intact[s] /\ link[s] = "open" THEN toAgent' = [toAgent EXCEPT ![s] = @ \cup {e}]
                                        ELSE UNCHANGED toAgent
    /\ UNCHANGED <<status, target>>

Refuse(e) ==
    /\ ApiGoto(e, "refuse", "answered")
    /\ \/ status' = [status EXCEPT ![e] = "failed"]
       \/ "refuse" \in FailingCalls /\ UNCHANGED status
    /\ UNCHANGED <<target, toAgent>>

ApiStep(e) ==
    \/ Request(e) \/ PickAgent(e) \/ NoAgent(e) \/ Encrypt(e) \/ SendExecute(e) \/ Refuse(e)

-----------------------------------------------------------------------------
(* agent_ws, one handler per socket. *)

(* An agent whose process is not up opens a connection.  The table has it  *)
(* before the handshake is answered.                                       *)
Connect(s, a) ==
    /\ link[s] = "none"
    /\ \A r \in Socket : peer[r] = a => ~alive[r]
    /\ link' = [link EXCEPT ![s] = "accepting"]
    /\ peer' = [peer EXCEPT ![s] = a]
    /\ table' = [table EXCEPT ![a] = s]
    /\ overlapped' = (overlapped \/ table[a] # None)
    /\ alive' = [alive EXCEPT ![s] = TRUE]
    /\ intact' = [intact EXCEPT ![s] = TRUE]
    /\ UNCHANGED <<wrVars, apiVars, toAgent, toServer, origin, restarts>>

Accept(s) ==
    /\ link[s] = "accepting"
    /\ link' = [link EXCEPT ![s] = "open"]
    /\ UNCHANGED <<wrVars, apiVars, table, peer, overlapped, wireVars, origin, restarts>>

(* status_update, node_result and execution_result. *)
Apply(e, report) ==
    /\ status' = IF report \in Statuses THEN [status EXCEPT ![e] = report] ELSE status
    /\ results' = IF report \in Node THEN [results EXCEPT ![e] = @ \cup {report}] ELSE results
    /\ finalized' = IF report = "final" THEN [finalized EXCEPT ![e] = TRUE] ELSE finalized

Receive(s) ==
    /\ link[s] = "open" /\ toServer[s] # <<>>
    /\ Apply(Head(toServer[s])[1], Head(toServer[s])[2])
    /\ toServer' = [toServer EXCEPT ![s] = Tail(@)]
    /\ UNCHANGED <<gone, runVars, historyVars, apiVars, serverVars, alive, intact, toAgent,
                   origin, restarts>>

(* The finally block removes the agent's entry, whichever socket it names. *)
Teardown(s) ==
    /\ link' = [link EXCEPT ![s] = "closed"]
    /\ table' = [table EXCEPT ![peer[s]] = None]
    /\ intact' = [intact EXCEPT ![s] = FALSE]
    /\ toServer' = [toServer EXCEPT ![s] = <<>>]
    /\ UNCHANGED <<wrVars, apiVars, peer, overlapped, alive, toAgent, origin, restarts>>

(* Mutants: the entry is removed after a WebSocketDisconnect only; an      *)
(* exception is logged and the loop goes on.                               *)
FrameFails_KeepsEntry(s) ==
    /\ "receive" \in FailingCalls
    /\ link[s] = "open" /\ toServer[s] # <<>>
    /\ link' = [link EXCEPT ![s] = "closed"]
    /\ intact' = [intact EXCEPT ![s] = FALSE]
    /\ toServer' = [toServer EXCEPT ![s] = <<>>]
    /\ UNCHANGED <<wrVars, apiVars, table, peer, overlapped, alive, toAgent, origin, restarts>>

FrameFails_GoesOn(s) ==
    /\ "receive" \in FailingCalls
    /\ link[s] = "open" /\ toServer[s] # <<>>
    /\ toServer' = [toServer EXCEPT ![s] = Tail(@)]
    /\ UNCHANGED <<wrVars, apiVars, serverVars, alive, intact, toAgent, origin, restarts>>

(* The repository call raises and takes the handler with it. *)
FrameFails(s) ==
    /\ "receive" \in FailingCalls
    /\ link[s] = "open" /\ toServer[s] # <<>>
    /\ Teardown(s)

(* WebSocketDisconnect, once all that arrived has been read. *)
Disconnected(s) ==
    /\ link[s] = "open" /\ ~intact[s] /\ toServer[s] = <<>>
    /\ Teardown(s)

ServerStep(s) == Accept(s) \/ Receive(s) \/ FrameFails(s) \/ Disconnected(s)

(* The process and with it the table and the requests under way. *)
Restart ==
    /\ restarts < MaxRestarts
    /\ restarts' = restarts + 1
    /\ api' = [e \in Execution |-> IF api[e] = "idle" THEN "idle" ELSE "answered"]
    /\ table' = [a \in Agent |-> None]
    /\ link' = [s \in Socket |-> IF link[s] = "none" THEN "none" ELSE "closed"]
    /\ intact' = [s \in Socket |-> FALSE]
    /\ toServer' = [s \in Socket |-> <<>>]
    /\ UNCHANGED <<wrVars, target, peer, overlapped, alive, toAgent, origin>>

-----------------------------------------------------------------------------
(* The agent.  run_workflow is given a repository that sends frames. *)
AgentKeeps == UNCHANGED <<rowVars, gone, apiVars, serverVars, alive, intact, restarts>>

Says(w, report) ==
    LET s == origin[w] IN
    toServer' = IF intact[s] THEN [toServer EXCEPT ![s] = Append(@, <<job[w], report>>)]
                             ELSE toServer

(* create_task(handle_execute(...)), for every execute frame. *)
TakeExecute(w) ==
    /\ Goto(w, "idle", "resolve")
    /\ \E s \in Socket, e \in Execution :
          /\ alive[s] /\ e \in toAgent[s]
          /\ TakeJob(w, e)
          /\ origin' = [origin EXCEPT ![w] = s]
          /\ toAgent' = [toAgent EXCEPT ![s] = @ \ {e}]
    /\ UNCHANGED <<historyVars, toServer>> /\ AgentKeeps

(* A step of the task that sends nothing, or one report. *)
Quietly == UNCHANGED <<toAgent, toServer, origin>> /\ AgentKeeps

Report(w, from, report, to) ==
    /\ Goto(w, from, to)
    /\ Says(w, report)
    /\ UNCHANGED <<job, level, phase, snap, historyVars, toAgent, origin>> /\ AgentKeeps

(* The bundled payloads are decrypted. *)
Decrypt(w) == Continues(w, "resolve", "start") /\ Quietly

DecryptFails(w) == Report(w, "resolve", "failed", "returned")

ReportRunning(w) == Report(w, "start", "running", "level")
ReportSuccess(w) == Report(w, "succeed", "success", "finalize")
ReportFinal(w) == Report(w, "finalize", "final", "returned")
ReportFailed(w) == Report(w, "except", "failed", "returned")

(* ConnectionClosed, inside run_workflow's try block or outside it. *)
ReportRaises(w) ==
    /\ ~intact[origin[w]]
    /\ \/ \E call \in {"resolve", "start", "except"} : Continues(w, call, "returned")
       \/ \E call \in {"succeed", "finalize"} : Continues(w, call, "except")
    /\ Quietly

RunLevels(w) ==
    /\ BeginLevel(w) \/ LevelsDone(w) \/ GatherReturns(w) \/ GatherRaises(w)
    /\ Quietly

TaskStep(w) ==
    /\ pc[w] # "idle"
    /\ \/ Decrypt(w) \/ DecryptFails(w) \/ ReportRunning(w) \/ RunLevels(w)
       \/ ReportSuccess(w) \/ ReportFinal(w) \/ ReportFailed(w) \/ ReportRaises(w)

(* _run_node: the handler's result goes out as a node_result. *)
ReportResult(w, n) ==
    /\ NodeTask(w, n, "executing", "done")
    /\ Says(w, n)
    /\ returned' = [returned EXCEPT ![job[w]] = @ \cup {n}]
    /\ UNCHANGED <<results, snap, apiVars, serverVars, alive, intact, toAgent, origin, restarts>>

(* The handler raises, or its report does. *)
NodeRaises(w, n) == HandlerRaises(w, n) /\ UNCHANGED <<apiVars, serverVars, wireVars, origin, restarts>>

ReportNode(w) == \E n \in Node : ReportResult(w, n) \/ NodeRaises(w, n)

-----------------------------------------------------------------------------
(* The network. *)
Prefixes(q) == {SubSeq(q, 1, k) : k \in 0..Len(q)}

Breaks(s) ==
    /\ intact[s]
    /\ intact' = [intact EXCEPT ![s] = FALSE]
    /\ \E q \in Prefixes(toServer[s]) : toServer' = [toServer EXCEPT ![s] = q]
    /\ \E lost \in SUBSET toAgent[s] : toAgent' = [toAgent EXCEPT ![s] = @ \ lost]
    /\ UNCHANGED <<wrVars, apiVars, serverVars, alive, origin, restarts>>

(* run_agent returns on a closed connection; asyncio.run cancels the tasks *)
(* and the process ends.  A process that dies breaks its connection first. *)
AgentStops(s) ==
    /\ alive[s] /\ ~intact[s]
    /\ alive' = [alive EXCEPT ![s] = FALSE]
    /\ LET mine == {w \in Runner : origin[w] = s} IN
       /\ pc' = [w \in Runner |-> IF w \in mine THEN "idle" ELSE pc[w]]
       /\ job' = [w \in Runner |-> IF w \in mine THEN None ELSE job[w]]
       /\ level' = [w \in Runner |-> IF w \in mine THEN 1 ELSE level[w]]
       /\ phase' = [w \in Runner |-> IF w \in mine THEN [n \in Node |-> "idle"] ELSE phase[w]]
       /\ origin' = [w \in Runner |-> IF w \in mine THEN None ELSE origin[w]]
    /\ UNCHANGED <<rowVars, gone, snap, historyVars, apiVars, serverVars, intact, toAgent,
                   toServer, restarts>>

Next ==
    \/ \E e \in Execution : ApiStep(e)
    \/ \E s \in Socket : (\E a \in Agent : Connect(s, a)) \/ ServerStep(s) \/ Breaks(s) \/ AgentStops(s)
    \/ \E w \in Runner : TakeExecute(w) \/ TaskStep(w) \/ ReportNode(w)
    \/ Restart

Spec == Init /\ [][Next]_vars

(* The handler reads what arrives, and the agent's tasks run. *)
Fairness ==
    /\ \A s \in Socket : WF_vars(ServerStep(s))
    /\ \A w \in Runner : WF_vars(TakeExecute(w)) /\ WF_vars(TaskStep(w)) /\ WF_vars(ReportNode(w))

FairSpec == Spec /\ Fairness

-----------------------------------------------------------------------------
(* The socket's handler is running. *)
Handled(s) == link[s] \in {"accepting", "open"}

(* What the server keeps of requests and connections. *)
ServerTypeOK ==
    /\ api \in [Execution -> ApiPCs]
    /\ target \in [Execution -> Socket \cup {None}]
    /\ table \in [Agent -> Socket \cup {None}]
    /\ link \in [Socket -> {"none", "accepting", "open", "closed"}]
    /\ peer \in [Socket -> Agent \cup {None}]
    /\ overlapped \in BOOLEAN

(* Every variable stays in its range. *)
TypeOK ==
    /\ ServerTypeOK
    /\ status \in [Execution -> Statuses]
    /\ results \in [Execution -> SUBSET Node]
    /\ finalized \in [Execution -> BOOLEAN]
    /\ gone = {}
    /\ pc \in [Runner -> TaskPCs]
    /\ job \in [Runner -> Execution \cup {None}]
    /\ level \in [Runner -> 1..(Len(Levels) + 1)]
    /\ phase \in [Runner -> [Node -> Phases]]
    /\ begun \in [Execution -> [Node -> Nat]]
    /\ returned \in [Execution -> SUBSET Node]
    /\ alive \in [Socket -> BOOLEAN] /\ intact \in [Socket -> BOOLEAN]
    /\ toAgent \in [Socket -> SUBSET Execution]
    /\ toServer \in [Socket -> Seq(Reports)]
    /\ origin \in [Runner -> Socket \cup {None}]
    /\ restarts \in 0..MaxRestarts

(* No request is sent into a socket whose handler is gone because the      *)
(* table still has it: whatever ends a handler takes the entry along.      *)
TableLive == \A a \in Agent : table[a] # None => Handled(table[a])

(* Reports are applied in the order they were sent, so a row that says     *)
(* success has the result of every node, whatever was lost after it.       *)
SuccessComplete ==
    \A e \in Execution : status[e] = "success" => results[e] = Node /\ returned[e] = Node

(* No report, however late, and no other agent moves a final status. *)
FinalStays == [][\A e \in Execution : status[e] \in Terminal => status'[e] = status[e]]_vars

(* On a connection that holds, the row has all that the agent reported     *)
(* once nothing is under way: a task that is over has settled it.          *)
RowCatchesUp ==
    \A w \in Runner :
        /\ pc[w] = "returned" /\ intact[origin[w]]
        /\ \A k \in DOMAIN toServer[origin[w]] : toServer[origin[w]][k][1] # job[w]
        => /\ status[job[w]] \in Terminal
           /\ status[job[w]] = "success" => finalized[job[w]]

(* The row keeps pace: what it says of an execution was reported whole,    *)
(* and what a connection that holds reported is in it.                     *)
RowComplete == SuccessComplete /\ RowCatchesUp

(* "no connected agent" is said only when none is, as long as no           *)
(* connection was replaced before its handler ended.                       *)
RefusedAlone ==
    [][\A e \in Execution :
          api[e] = "lookup" /\ api'[e] = "refuse" /\ ~overlapped =>
              \A s \in Socket : ~(link[s] = "open" /\ intact[s])]_vars

(* An execute frame on a connection that holds leads to a final status. *)
AgentSettles ==
    \A e \in Execution, s \in Socket :
        (e \in toAgent[s] /\ intact[s]) ~> (status[e] \in Terminal \/ ~intact[s])

-----------------------------------------------------------------------------
(* The inductive invariant behind TableLive and RefusedAlone. *)

(* An agent's entry names one of its own sockets, with a running handler. *)
EntryInv ==
    \A a \in Agent : table[a] # None => peer[table[a]] = a /\ Handled(table[a])

(* A handler belongs to an agent and, unless connections have overlapped,  *)
(* has the agent's entry.                                                  *)
HandlerInv ==
    \A s \in Socket :
        Handled(s) => peer[s] \in Agent /\ (~overlapped => table[peer[s]] = s)

IInv == ServerTypeOK /\ EntryInv /\ HandlerInv

-----------------------------------------------------------------------------
(* The inductive invariant behind RowComplete and FinalStays: TypeOK and,  *)
(* for every connection, execution and task, the four that follow.         *)

(* The reports on socket s that are about e, by their place in the queue.  *)
About(s, e) == {k \in DOMAIN toServer[s] : toServer[s][k][1] = e}

Reported(e, r) == \E s \in Socket : \E k \in DOMAIN toServer[s] : toServer[s][k] = <<e, r>>

(* What the row says already or will say once all that arrived is read. *)
ToldStatus(e, r) == status[e] = r \/ Reported(e, r)
ToldNode(e, n) == n \in results[e] \/ Reported(e, n)
ToldFinal(e) == finalized[e] \/ Reported(e, "final")

(* Nothing is on a socket before it is opened. *)
FreshInv(s) ==
    link[s] = "none" => toAgent[s] = {} /\ toServer[s] = <<>> /\ \A w \in Runner : origin[w] # s

(* An execution is sent once, to one agent; its reports come from the one  *)
(* task that took it, by one socket.                                       *)
SourceInv(e) ==
    /\ \A v, w \in Runner : job[v] = e /\ job[w] = e => v = w
    /\ \A w \in Runner, s \in Socket : job[w] = e /\ About(s, e) # {} => s = origin[w]
    /\ \A s, t \in Socket : About(s, e) # {} /\ About(t, e) # {} => s = t
    /\ \A s, t \in Socket : e \in toAgent[s] /\ e \in toAgent[t] => s = t
    /\ \A s \in Socket : e \in toAgent[s] => api[e] = "answered"
    /\ api[e] # "answered" \/ (\E s \in Socket : e \in toAgent[s]) =>
           /\ status[e] = IF api[e] = "idle" THEN "absent" ELSE "queued"
           /\ \A s \in Socket : About(s, e) = {}
           /\ \A w \in Runner : job[w] # e

(* Of the statuses reported of e a final one is the last, and before a     *)
(* success come the results of all nodes.                                  *)
OrderInv(e) ==
    /\ status[e] \in Terminal =>
           \A s \in Socket : \A k \in About(s, e) : toServer[s][k][2] \notin Statuses
    /\ \A s \in Socket : \A j, k \in About(s, e) :
           j < k /\ toServer[s][k][2] \in Statuses => toServer[s][j][2] \notin Terminal
    /\ status[e] = "success" => results[e] = Node /\ returned[e] = Node
    /\ \A s \in Socket : \A k \in About(s, e) : toServer[s][k][2] = "success" =>
           /\ returned[e] = Node
           /\ \A n \in Node : n \in results[e] \/ \E j \in About(s, e) : j < k /\ toServer[s][j][2] = n

(* What the task that runs e has reported of it, where the connection holds. *)
ReportInv(w, e) ==
    /\ \A n \in Node : phase[w][n] = "done" =>
           n \in returned[e] /\ (intact[origin[w]] => ToldNode(e, n))
    /\ pc[w] \in {"resolve", "start"} =>
           status[e] = "queued" /\ \A s \in Socket : About(s, e) = {}
    /\ pc[w] \in {"level", "gather", "succeed", "except"} /\ intact[origin[w]] =>
           \A r \in Terminal : ~ToldStatus(e, r)
    /\ pc[w] = "finalize" /\ intact[origin[w]] => ToldStatus(e, "success")
    /\ pc[w] = "returned" /\ intact[origin[w]] =>
           /\ \E r \in Terminal : ToldStatus(e, r)
           /\ ToldStatus(e, "success") => ToldFinal(e)

(* Where a task is and what its handlers have done. *)
TaskInv(w) ==
    /\ pc[w] = "idle" <=> job[w] = None
    /\ pc[w] \in {"idle", "resolve", "start"} =>
           level[w] = 1 /\ \A n \in Node : phase[w][n] = "idle"
    /\ job[w] # None => origin[w] \in Socket
    /\ \A k \in 1..(level[w] - 1) : \A n \in Levels[k] : phase[w][n] = "done"
    /\ pc[w] = "gather" => level[w] <= Len(Levels)
    /\ pc[w] = "succeed" => level[w] > Len(Levels)
    /\ \A e \in Execution : job[w] = e => ReportInv(w, e)

RowInv ==
    /\ TypeOK
    /\ \A s \in Socket : FreshInv(s)
    /\ \A e \in Execution : SourceInv(e) /\ OrderInv(e)
    /\ \A w \in Runner : TaskInv(w)
=============================================================================
