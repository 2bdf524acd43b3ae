-------------------------- MODULE AgentChannelProofs --------------------------
(***************************************************************************)
(* The agent path, for any agents, connections, executions, workflows and  *)
(* restarts.  The connection table never names a socket without a handler, *)
(* and it misses a connected agent only after two connections have         *)
(* overlapped (IInv).  The executions' rows keep pace with what the agents *)
(* report, and a final status stays (RowInv).                              *)
(***************************************************************************)
EXTENDS AgentChannel, TLAPS

USE DEF ApiPCs

(* The steps that are none of the server's leave its state alone. *)
LEMMA ServerKept ==
  ASSUME [Next]_vars
  PROVE  \/ UNCHANGED <<table, link, peer, overlapped, api, target>>
         \/ \E e \in Execution : ApiStep(e)
         \/ \E s \in Socket, a \in Agent : Connect(s, a)
         \/ \E s \in Socket : Accept(s) \/ FrameFails(s) \/ Disconnected(s)
         \/ Restart
  <1> USE DEF apiVars, serverVars, AgentKeeps
  <1>1. ASSUME NEW w \in Runner, TakeExecute(w)
        PROVE  UNCHANGED <<apiVars, serverVars>>
    BY <1>1 DEF TakeExecute
  <1>2. ASSUME NEW w \in Runner, TaskStep(w)
        PROVE  UNCHANGED <<apiVars, serverVars>>
    BY <1>2 DEF TaskStep, Decrypt, DecryptFails, ReportRunning, RunLevels, ReportSuccess,
                ReportFinal, ReportFailed, ReportRaises, Report, Quietly
  <1>3. ASSUME NEW w \in Runner, ReportNode(w)
        PROVE  UNCHANGED <<apiVars, serverVars>>
    BY <1>3 DEF ReportNode, ReportResult, NodeRaises
  <1>4. ASSUME NEW s \in Socket, Receive(s) \/ Breaks(s) \/ AgentStops(s)
        PROVE  UNCHANGED <<apiVars, serverVars>>
    BY <1>4 DEF Receive, Breaks, AgentStops
  <1>5. QED
    BY <1>1, <1>2, <1>3, <1>4 DEF Next, ServerStep, vars

LEMMA ApiKeepsTable ==
  ASSUME ServerTypeOK, NEW e \in Execution, ApiStep(e)
  PROVE  /\ UNCHANGED <<table, link, peer, overlapped>>
         /\ api' \in [Execution -> ApiPCs]
         /\ target' \in [Execution -> Socket \cup {None}]
  <1> USE DEF ServerTypeOK, ApiGoto, serverVars
  <1>1. CASE Request(e) \/ NoAgent(e) \/ SendExecute(e) \/ Refuse(e)
    BY <1>1 DEF Request, NoAgent, SendExecute, Refuse
  <1>2. CASE PickAgent(e)
    BY <1>2 DEF PickAgent
  <1>3. CASE Encrypt(e)
    BY <1>3 DEF Encrypt
  <1>4. QED
    BY <1>1, <1>2, <1>3 DEF ApiStep

(* One agent's socket comes, its entry with it. *)
LEMMA ConnectKeeps ==
  ASSUME IInv, NEW s \in Socket, NEW a \in Agent, Connect(s, a)
  PROVE  IInv'
  <1> USE ChannelAssumption DEF Handled
  <1>0. /\ ServerTypeOK /\ EntryInv /\ HandlerInv
        /\ table \in [Agent -> Socket \cup {None}] /\ peer \in [Socket -> Agent \cup {None}]
        /\ DOMAIN link = Socket
    BY DEF IInv, ServerTypeOK
  <1>1. /\ link[s] = "none" /\ link' = [link EXCEPT ![s] = "accepting"]
        /\ peer' = [peer EXCEPT ![s] = a] /\ table' = [table EXCEPT ![a] = s]
        /\ overlapped' = (overlapped \/ table[a] # None)
        /\ UNCHANGED <<api, target>>
    BY DEF Connect, apiVars
  <1>2. ServerTypeOK'
    BY <1>0, <1>1 DEF ServerTypeOK
  <1>3. EntryInv'
    <2> SUFFICES ASSUME NEW b \in Agent, table'[b] # None
                 PROVE  peer'[table'[b]] = b /\ link'[table'[b]] \in {"accepting", "open"}
      BY DEF EntryInv
    <2>1. CASE b = a
      BY <1>0, <1>1, <2>1
    <2>2. CASE b # a
      <3>1. table'[b] = table[b] /\ table[b] \in Socket
        BY <1>0, <1>1, <2>2
      <3>2. peer[table[b]] = b /\ link[table[b]] \in {"accepting", "open"}
        BY <1>0, <3>1 DEF EntryInv
      <3>3. QED
        BY <1>0, <1>1, <3>1, <3>2
    <2>3. QED
      BY <2>1, <2>2
  <1>4. HandlerInv'
    <2> SUFFICES ASSUME NEW r \in Socket, Handled(r)'
                 PROVE  peer'[r] \in Agent /\ (~overlapped' => table'[peer'[r]] = r)
      BY DEF HandlerInv
    <2>1. CASE r = s
      BY <1>0, <1>1, <2>1
    <2>2. CASE r # s
      <3>1. Handled(r) /\ peer'[r] = peer[r]
        BY <1>0, <1>1, <2>2
      <3>2. peer[r] \in Agent /\ (~overlapped => table[peer[r]] = r)
        BY <1>0, <3>1 DEF HandlerInv
      <3>3. ~overlapped' => ~overlapped /\ table[a] = None
        BY <1>0, <1>1
      <3>4. QED
        BY <1>0, <1>1, <3>1, <3>2, <3>3
    <2>3. QED
      BY <2>1, <2>2
  <1>5. QED
    BY <1>2, <1>3, <1>4 DEF IInv

(* A handler goes, and whatever entry its agent has with it. *)
LEMMA TeardownKeeps ==
  ASSUME IInv, NEW s \in Socket, Handled(s), Teardown(s)
  PROVE  IInv'
  <1> USE ChannelAssumption DEF Handled
  <1>0. /\ ServerTypeOK /\ EntryInv /\ HandlerInv
        /\ table \in [Agent -> Socket \cup {None}] /\ peer \in [Socket -> Agent \cup {None}]
        /\ DOMAIN link = Socket
    BY DEF IInv, ServerTypeOK
  <1>1. peer[s] \in Agent
    BY <1>0 DEF HandlerInv
  <1>2. /\ link' = [link EXCEPT ![s] = "closed"] /\ table' = [table EXCEPT ![peer[s]] = None]
        /\ UNCHANGED <<peer, overlapped, api, target>>
    BY DEF Teardown, apiVars
  <1>3. ServerTypeOK'
    BY <1>0, <1>1, <1>2 DEF ServerTypeOK
  <1>4. EntryInv'
    <2> SUFFICES ASSUME NEW b \in Agent, table'[b] # None
                 PROVE  peer'[table'[b]] = b /\ link'[table'[b]] \in {"accepting", "open"}
      BY DEF EntryInv
    <2>1. b # peer[s] /\ table'[b] = table[b] /\ table[b] \in Socket
      BY <1>0, <1>1, <1>2
    <2>2. peer[table[b]] = b /\ Handled(table[b])
      BY <1>0, <2>1 DEF EntryInv
    <2>3. table[b] # s
      BY <2>1, <2>2
    <2>4. QED
      BY <1>0, <1>2, <2>1, <2>2, <2>3
  <1>5. HandlerInv'
    <2> SUFFICES ASSUME NEW r \in Socket, Handled(r)'
                 PROVE  peer'[r] \in Agent /\ (~overlapped' => table'[peer'[r]] = r)
      BY DEF HandlerInv
    <2>1. r # s /\ Handled(r)
      BY <1>0, <1>2
    <2>2. peer[r] \in Agent /\ (~overlapped => table[peer[r]] = r)
      BY <1>0, <2>1 DEF HandlerInv
    <2>3. ~overlapped => table[peer[s]] = s
      BY <1>0 DEF HandlerInv
    <2>4. QED
      BY <1>1, <1>2, <2>1, <2>2, <2>3
  <1>6. QED
    BY <1>3, <1>4, <1>5 DEF IInv

LEMMA ConnectionsKept == IInv /\ [Next]_vars => IInv'
  <1> SUFFICES ASSUME IInv, [Next]_vars PROVE IInv'
    OBVIOUS
  <1>1. CASE UNCHANGED <<table, link, peer, overlapped, api, target>>
    BY <1>1 DEF IInv, ServerTypeOK, EntryInv, HandlerInv, Handled
  <1>2. ASSUME NEW e \in Execution, ApiStep(e)
        PROVE  IInv'
    BY <1>2, ApiKeepsTable DEF IInv, ServerTypeOK, EntryInv, HandlerInv, Handled
  <1>3. ASSUME NEW s \in Socket, NEW a \in Agent, Connect(s, a)
        PROVE  IInv'
    BY <1>3, ConnectKeeps
  <1>4. ASSUME NEW s \in Socket, Accept(s)
        PROVE  IInv'
    <2>1. /\ link[s] = "accepting" /\ link' = [link EXCEPT ![s] = "open"]
          /\ UNCHANGED <<table, peer, overlapped, api, target>>
      BY <1>4 DEF Accept, apiVars
    <2>2. \A r \in Socket : Handled(r)' <=> Handled(r)
      BY <2>1 DEF IInv, ServerTypeOK, Handled
    <2>3. ServerTypeOK'
      BY <2>1 DEF IInv, ServerTypeOK
    <2>4. QED
      BY <2>1, <2>2, <2>3 DEF IInv, ServerTypeOK, EntryInv, HandlerInv
  <1>5. ASSUME NEW s \in Socket, FrameFails(s) \/ Disconnected(s)
        PROVE  IInv'
    BY <1>5, TeardownKeeps DEF FrameFails, Disconnected, Handled
  <1>6. CASE Restart
    <2>1. /\ api' = [e \in Execution |-> IF api[e] = "idle" THEN "idle" ELSE "answered"]
          /\ table' = [a \in Agent |-> None]
          /\ link' = [s \in Socket |-> IF link[s] = "none" THEN "none" ELSE "closed"]
          /\ target' = target /\ peer' = peer /\ overlapped' = overlapped
      BY <1>6 DEF Restart
    <2>2. api' \in [Execution -> ApiPCs]
      BY <2>1 DEF IInv, ServerTypeOK, ApiPCs
    <2>3. table' \in [Agent -> Socket \cup {None}] /\ \A a \in Agent : table'[a] = None
      BY <2>1
    <2>4. /\ link' \in [Socket -> {"none", "accepting", "open", "closed"}]
          /\ \A s \in Socket : link'[s] \notin {"accepting", "open"}
      BY <2>1 DEF IInv, ServerTypeOK
    <2>5. ServerTypeOK'
      BY <2>1, <2>2, <2>3, <2>4 DEF IInv, ServerTypeOK
    <2>6. QED
      BY <2>3, <2>4, <2>5 DEF IInv, EntryInv, HandlerInv, Handled
  <1>7. QED
    BY <1>1, <1>2, <1>3, <1>4, <1>5, <1>6, ServerKept

LEMMA Connections == Spec => []IInv
  <1>1. Init => IInv
    BY DEF Init, IInv, ServerTypeOK, EntryInv, HandlerInv, Handled
  <1>2. QED
    BY <1>1, ConnectionsKept, PTL DEF Spec

(* Whatever ends a handler, a lost connection, a failing call or a restart, *)
(* its entry goes too: agent_connections never names a dead socket.         *)
THEOREM EntriesAreLive == Spec => []TableLive
  <1>1. IInv => TableLive
    BY DEF IInv, EntryInv, TableLive
  <1>2. QED
    BY <1>1, Connections, PTL

(* Until a connection replaces one whose handler still runs, "no connected  *)
(* agent" is written only when no socket is open.                           *)
THEOREM RefusalsAreTrue == Spec => RefusedAlone
  <1> DEFINE Honest ==
        \A e \in Execution :
            api[e] = "lookup" /\ api'[e] = "refuse" /\ ~overlapped =>
                \A s \in Socket : ~(link[s] = "open" /\ intact[s])
  <1>1. IInv /\ [Next]_vars => Honest
    <2> SUFFICES ASSUME IInv, [Next]_vars,
                        NEW e \in Execution, api[e] = "lookup", api'[e] = "refuse", ~overlapped,
                        NEW s \in Socket, link[s] = "open"
                 PROVE  FALSE
      OBVIOUS
    <2> USE DEF IInv, ServerTypeOK
    <2>1. PICK f \in Execution : ApiStep(f)
      BY ServerKept DEF Connect, Accept, FrameFails, Disconnected, Teardown, Restart, apiVars
    <2>2. f = e /\ NoAgent(e)
      BY <2>1 DEF ApiStep, Request, PickAgent, NoAgent, Encrypt, SendExecute, Refuse, ApiGoto
    <2>3. peer[s] \in Agent /\ table[peer[s]] = s
      BY DEF HandlerInv, Handled
    <2>4. QED
      BY <2>2, <2>3, ChannelAssumption DEF NoAgent
  <1>2. QED
    BY <1>1, Connections, PTL DEF Spec, RefusedAlone

-----------------------------------------------------------------------------
(* The row keeps pace with the agent: RowInv. *)

LEMMA RowInvStarts == Init => RowInv
  <1> SUFFICES ASSUME Init PROVE RowInv
    OBVIOUS
  <1> USE DEF Init, WRInit
  <1>1. Levels \in Seq(SUBSET Node) /\ Len(Levels) \in Nat /\ None \notin Execution
    BY RunAssumption
  <1>2. TypeOK
    <2>1. ServerTypeOK
      BY DEF ServerTypeOK
    <2>2. /\ status \in [Execution -> Statuses] /\ results \in [Execution -> SUBSET Node]
          /\ finalized \in [Execution -> BOOLEAN] /\ gone = {}
      BY DEF Statuses
    <2>3. pc \in [Runner -> TaskPCs] /\ job \in [Runner -> Execution \cup {None}]
      BY DEF TaskPCs
    <2>4. level \in [Runner -> 1..(Len(Levels) + 1)]
      BY <1>1
    <2>5. phase \in [Runner -> [Node -> Phases]] /\ begun \in [Execution -> [Node -> Nat]]
      BY DEF Phases
    <2>6. returned \in [Execution -> SUBSET Node] /\ toAgent \in [Socket -> SUBSET Execution]
      OBVIOUS
    <2>7. toServer \in [Socket -> Seq(Reports)] /\ origin \in [Runner -> Socket \cup {None}]
      OBVIOUS
    <2>8. /\ alive \in [Socket -> BOOLEAN] /\ intact \in [Socket -> BOOLEAN]
          /\ restarts \in 0..MaxRestarts
      BY ChannelAssumption
    <2>9. QED
      BY <2>1, <2>2, <2>3, <2>4, <2>5, <2>6, <2>7, <2>8 DEF TypeOK
  <1>3. \A s \in Socket : FreshInv(s)
    BY ChannelAssumption DEF FreshInv
  <1>4. \A e \in Execution : SourceInv(e) /\ OrderInv(e)
    BY <1>1 DEF SourceInv, OrderInv, About, Terminal
  <1>5. \A w \in Runner : TaskInv(w)
    BY <1>1 DEF TaskInv
  <1>6. QED
    BY <1>2, <1>3, <1>4, <1>5 DEF RowInv

(* A task that stays where it is, while what it has reported stays told. *)
LEMMA TaskStays ==
  ASSUME NEW w \in Runner, TaskInv(w),
         pc'[w] = pc[w], job'[w] = job[w], level'[w] = level[w], phase'[w] = phase[w],
         origin'[w] = origin[w],
         \A e \in Execution : job[w] = e =>
            /\ intact'[origin[w]] => intact[origin[w]]
            /\ returned[e] \subseteq returned'[e]
            /\ pc[w] \in {"resolve", "start"} =>
                  status'[e] = status[e] /\ \A s \in Socket : About(s, e) = {} => About(s, e)' = {}
            /\ intact'[origin[w]] =>
                  /\ \A n \in Node : ToldNode(e, n) => ToldNode(e, n)'
                  /\ \A r \in Terminal : ToldStatus(e, r)' <=> ToldStatus(e, r)
                  /\ ToldFinal(e) => ToldFinal(e)'
  PROVE  TaskInv(w)'
  <1>1. ASSUME NEW e \in Execution, job[w] = e
        PROVE  ReportInv(w, e)'
    <2>1. ReportInv(w, e)
      BY <1>1 DEF TaskInv
    <2>2. "success" \in Terminal
      BY DEF Terminal
    <2>3. QED
      BY <1>1, <2>1, <2>2 DEF ReportInv
  <1>2. QED
    BY <1>1 DEF TaskInv

(* What the wire loses: the ends of some queues, frames not yet taken.      *)
LEMMA Loses ==
  ASSUME RowInv, TypeOK', UNCHANGED <<wrVars, origin>>,
         \A s \in Socket : \A k \in DOMAIN toServer'[s] :
            /\ k \in DOMAIN toServer[s] /\ toServer'[s][k] = toServer[s][k]
            /\ \A j \in DOMAIN toServer[s] : j < k => j \in DOMAIN toServer'[s],
         \A s \in Socket : toServer[s] = <<>> => toServer'[s] = <<>>,
         \A s \in Socket : intact'[s] => intact[s] /\ toServer'[s] = toServer[s],
         \A s \in Socket : toAgent'[s] \subseteq toAgent[s],
         \A s \in Socket : link'[s] = "none" => link[s] = "none",
         \A e \in Execution : api'[e] = api[e] \/ (api[e] # "idle" /\ api'[e] = "answered")
  PROVE  RowInv'
  <1> USE DEF wrVars, rowVars, runVars, historyVars
  <1>0. TypeOK /\ \A w \in Runner : TaskInv(w)
    BY DEF RowInv
  <1>1. ASSUME NEW s \in Socket PROVE FreshInv(s)'
    BY <1>1 DEF RowInv, FreshInv
  <1>2. ASSUME NEW e \in Execution, NEW s \in Socket
        PROVE  /\ About(s, e)' \subseteq About(s, e)
               /\ \A k \in About(s, e)' : /\ toServer'[s][k] = toServer[s][k]
                                         /\ \A j \in About(s, e) : j < k => j \in About(s, e)'
    BY <1>2 DEF About
  <1>3. ASSUME NEW e \in Execution PROVE SourceInv(e)'
    <2>1. SourceInv(e)
      BY <1>3 DEF RowInv
    <2>2. \A s \in Socket : About(s, e)' # {} => About(s, e) # {}
      BY <1>2
    <2>3. \A s \in Socket : e \in toAgent'[s] => e \in toAgent[s]
      OBVIOUS
    <2>4. \A s \in Socket : e \in toAgent[s] => api[e] = "answered"
      BY <2>1 DEF SourceInv
    <2>5. \A s \in Socket : e \in toAgent'[s] => api'[e] = "answered"
      BY <2>3, <2>4
    <2>6. ASSUME api'[e] # "answered" \/ (\E s \in Socket : e \in toAgent'[s])
          PROVE  /\ status'[e] = IF api'[e] = "idle" THEN "absent" ELSE "queued"
                 /\ \A s \in Socket : About(s, e)' = {}
                 /\ \A w \in Runner : job'[w] # e
      <3>1. api[e] # "answered" \/ (\E s \in Socket : e \in toAgent[s])
        BY <2>6, <2>3
      <3>2. /\ status[e] = IF api[e] = "idle" THEN "absent" ELSE "queued"
            /\ \A s \in Socket : About(s, e) = {}
            /\ \A w \in Runner : job[w] # e
        BY <2>1, <3>1 DEF SourceInv
      <3>3. api'[e] = "idle" <=> api[e] = "idle"
        OBVIOUS
      <3>4. QED
        BY <3>2, <3>3, <2>2
    <2>7. /\ \A v, w \in Runner : job'[v] = e /\ job'[w] = e => v = w
          /\ \A w \in Runner, s \in Socket : job'[w] = e /\ About(s, e)' # {} => s = origin'[w]
          /\ \A s, t \in Socket : About(s, e)' # {} /\ About(t, e)' # {} => s = t
          /\ \A s, t \in Socket : e \in toAgent'[s] /\ e \in toAgent'[t] => s = t
      BY <2>1, <2>2, <2>3 DEF SourceInv
    <2>8. QED
      BY <2>5, <2>6, <2>7 DEF SourceInv
  <1>4. ASSUME NEW e \in Execution PROVE OrderInv(e)'
    <2>1. OrderInv(e)
      BY <1>4 DEF RowInv
    <2>2. QED
      BY <1>2, <2>1 DEF OrderInv
  <1>5. ASSUME NEW w \in Runner PROVE TaskInv(w)'
    <2>1. ASSUME NEW e \in Execution, job[w] = e, intact'[origin[w]],
                 NEW r
          PROVE  Reported(e, r)' <=> Reported(e, r)
      <3>1. origin[w] \in Socket /\ toServer'[origin[w]] = toServer[origin[w]]
        BY <1>0, <2>1, <1>5, RunAssumption DEF TaskInv
      <3>2. \A s \in Socket : About(s, e) # {} => s = origin[w]
        BY <2>1 DEF RowInv, SourceInv
      <3>3. \A s \in Socket : \A k \in DOMAIN toServer[s] : toServer[s][k] = <<e, r>> => k \in About(s, e)
        BY DEF About
      <3>4. QED
        BY <3>1, <3>2, <3>3 DEF Reported
    <2>2. ASSUME NEW e \in Execution, job[w] = e, intact'[origin[w]]
          PROVE  /\ \A n \in Node : ToldNode(e, n) => ToldNode(e, n)'
                 /\ \A r \in Terminal : ToldStatus(e, r)' <=> ToldStatus(e, r)
                 /\ ToldFinal(e) => ToldFinal(e)'
      BY <2>1, <2>2 DEF ToldNode, ToldStatus, ToldFinal
    <2>3. job[w] # None => (intact'[origin[w]] => intact[origin[w]])
      BY <1>0, <1>5 DEF TypeOK, TaskInv
    <2>4. \A e \in Execution, s \in Socket : About(s, e) = {} => About(s, e)' = {}
      BY <1>2
    <2>5. \A e \in Execution : job[w] = e =>
             /\ intact'[origin[w]] => intact[origin[w]]
             /\ returned[e] \subseteq returned'[e]
             /\ pc[w] \in {"resolve", "start"} =>
                   status'[e] = status[e] /\ \A s \in Socket : About(s, e) = {} => About(s, e)' = {}
             /\ intact'[origin[w]] =>
                   /\ \A n \in Node : ToldNode(e, n) => ToldNode(e, n)'
                   /\ \A r \in Terminal : ToldStatus(e, r)' <=> ToldStatus(e, r)
                   /\ ToldFinal(e) => ToldFinal(e)'
      BY <2>2, <2>3, <2>4, RunAssumption
    <2>6. /\ pc'[w] = pc[w] /\ job'[w] = job[w] /\ level'[w] = level[w]
          /\ phase'[w] = phase[w] /\ origin'[w] = origin[w]
      OBVIOUS
    <2>7. QED
      BY <1>0, <2>5, <2>6, TaskStays
  <1>6. QED
    BY <1>1, <1>3, <1>4, <1>5 DEF RowInv

LEMMA TearsDown ==
  ASSUME RowInv, NEW s \in Socket, Teardown(s)
  PROVE  RowInv'
  <1> USE DEF Teardown, apiVars, wrVars, rowVars, runVars, historyVars
  <1>0. TypeOK /\ toServer \in [Socket -> Seq(Reports)] /\ DOMAIN link = Socket
        /\ intact \in [Socket -> BOOLEAN]
    BY DEF RowInv, TypeOK, ServerTypeOK
  <1>1. ServerTypeOK'
    BY <1>0 DEF TypeOK, ServerTypeOK
  <1>2. intact' \in [Socket -> BOOLEAN] /\ toServer' \in [Socket -> Seq(Reports)]
    BY <1>0
  <1>3. TypeOK'
    BY <1>0, <1>1, <1>2 DEF TypeOK
  <1>4. \A r \in Socket : toServer'[r] = IF r = s THEN <<>> ELSE toServer[r]
    BY <1>0
  <1>5. \A r \in Socket : \A k \in DOMAIN toServer'[r] :
           /\ k \in DOMAIN toServer[r] /\ toServer'[r][k] = toServer[r][k]
           /\ \A j \in DOMAIN toServer[r] : j < k => j \in DOMAIN toServer'[r]
    BY <1>4
  <1>6. \A r \in Socket : intact'[r] => intact[r] /\ toServer'[r] = toServer[r]
    BY <1>0, <1>4
  <1>7. \A r \in Socket : link'[r] = "none" => link[r] = "none"
    BY <1>0
  <1>8. QED
    <2>1. /\ UNCHANGED <<wrVars, origin>> /\ api' = api /\ toAgent' = toAgent
          /\ \A r \in Socket : toServer[r] = <<>> => toServer'[r] = <<>>
      BY <1>4
    <2>2. QED
      BY ONLY RowInv, <1>3, <1>5, <1>6, <1>7, <2>1, Loses

LEMMA RestartKeepsRows ==
  ASSUME RowInv, Restart
  PROVE  RowInv'
  <1> USE DEF Restart, wrVars, rowVars, runVars, historyVars
  <1>0. TypeOK /\ toServer \in [Socket -> Seq(Reports)]
    BY DEF RowInv, TypeOK
  <1>1. ServerTypeOK'
    BY <1>0 DEF TypeOK, ServerTypeOK
  <1>2. /\ intact' \in [Socket -> BOOLEAN] /\ toServer' \in [Socket -> Seq(Reports)]
        /\ restarts' \in 0..MaxRestarts
    BY <1>0, ChannelAssumption DEF TypeOK
  <1>3. TypeOK'
    BY <1>0, <1>1, <1>2 DEF TypeOK
  <1>4. \A s \in Socket : toServer'[s] = <<>> /\ ~intact'[s]
    OBVIOUS
  <1>5. \A s \in Socket : link'[s] = "none" => link[s] = "none"
    OBVIOUS
  <1>6. ASSUME NEW e \in Execution
        PROVE  api'[e] = api[e] \/ (api[e] # "idle" /\ api'[e] = "answered")
    <2>1. api'[e] = IF api[e] = "idle" THEN "idle" ELSE "answered"
      OBVIOUS
    <2>2. QED
      BY <2>1
  <1>7. QED
    BY <1>3, <1>4, <1>5, <1>6, Loses

LEMMA BreakKeepsRows ==
  ASSUME RowInv, NEW s \in Socket, Breaks(s)
  PROVE  RowInv'
  <1> USE DEF Breaks, apiVars, serverVars, wrVars, rowVars, runVars, historyVars
  <1>0. TypeOK /\ toServer \in [Socket -> Seq(Reports)] /\ intact \in [Socket -> BOOLEAN]
        /\ toAgent \in [Socket -> SUBSET Execution]
    BY DEF RowInv, TypeOK
  <1>1. PICK n \in 0..Len(toServer[s]) :
           toServer' = [toServer EXCEPT ![s] = SubSeq(toServer[s], 1, n)]
    BY DEF Prefixes
  <1>2. PICK lost \in SUBSET toAgent[s] : toAgent' = [toAgent EXCEPT ![s] = @ \ lost]
    OBVIOUS
  <1>3. toServer[s] \in Seq(Reports) /\ Len(toServer[s]) \in Nat
    BY <1>0
  <1>4. /\ SubSeq(toServer[s], 1, n) \in Seq(Reports) /\ Len(SubSeq(toServer[s], 1, n)) = n
        /\ \A k \in 1..n : SubSeq(toServer[s], 1, n)[k] = toServer[s][k]
    BY <1>1, <1>3
  <1>5. toServer' \in [Socket -> Seq(Reports)]
    BY <1>0, <1>1, <1>4
  <1>6. ServerTypeOK'
    BY <1>0 DEF TypeOK, ServerTypeOK
  <1>7. intact' \in [Socket -> BOOLEAN] /\ toAgent' \in [Socket -> SUBSET Execution]
    BY <1>0, <1>2
  <1>8. TypeOK'
    BY <1>0, <1>5, <1>6, <1>7 DEF TypeOK
  <1>9. ASSUME NEW r \in Socket, NEW k \in DOMAIN toServer'[r]
        PROVE  /\ k \in DOMAIN toServer[r] /\ toServer'[r][k] = toServer[r][k]
               /\ \A j \in DOMAIN toServer[r] : j < k => j \in DOMAIN toServer'[r]
    <2>1. CASE r = s
      <3>1. toServer'[s] = SubSeq(toServer[s], 1, n)
        BY <1>0, <1>1
      <3>2. DOMAIN toServer'[s] = 1..n /\ DOMAIN toServer[s] = 1..Len(toServer[s])
        BY <3>1, <1>3, <1>4
      <3>3. QED
        BY <1>1, <1>3, <1>4, <1>9, <2>1, <3>1, <3>2
    <2>2. CASE r # s
      BY <1>0, <1>1, <1>9, <2>2
    <2>3. QED
      BY <2>1, <2>2
  <1>10. \A r \in Socket : toServer[r] = <<>> => toServer'[r] = <<>>
    <2>1. n = 0 => SubSeq(toServer[s], 1, n) = <<>>
      BY <1>3, <1>4
    <2>2. QED
      BY <1>0, <1>1, <2>1
  <1>11. \A r \in Socket : intact'[r] => intact[r] /\ toServer'[r] = toServer[r]
    BY <1>0, <1>1
  <1>12. \A r \in Socket : toAgent'[r] \subseteq toAgent[r]
    BY <1>0, <1>2
  <1>13. QED
    <2>1. /\ UNCHANGED <<wrVars, origin>> /\ api' = api /\ link' = link
      OBVIOUS
    <2>2. QED
      BY ONLY RowInv, <1>8, <1>9, <1>10, <1>11, <1>12, <2>1, Loses

LEMMA AcceptKeepsRows ==
  ASSUME RowInv, NEW s \in Socket, Accept(s)
  PROVE  RowInv'
  <1> USE DEF Accept, apiVars, wireVars, wrVars, rowVars, runVars, historyVars
  <1>0. TypeOK /\ DOMAIN link = Socket
    BY DEF RowInv, TypeOK, ServerTypeOK
  <1>1. ServerTypeOK'
    BY <1>0 DEF TypeOK, ServerTypeOK
  <1>2. TypeOK'
    BY <1>0, <1>1 DEF TypeOK
  <1>3. \A r \in Socket : link'[r] = "none" => link[r] = "none"
    BY <1>0
  <1>4. QED
    <2>1. /\ UNCHANGED <<wrVars, origin>> /\ api' = api
          /\ toServer' = toServer /\ intact' = intact /\ toAgent' = toAgent
      OBVIOUS
    <2>2. QED
      BY ONLY RowInv, <1>2, <1>3, <2>1, Loses

(* The tasks of the agent's process go, what they have reported stays.     *)
LEMMA AgentStopsKeepsRows ==
  ASSUME RowInv, NEW s \in Socket, AgentStops(s)
  PROVE  RowInv'
  <1> DEFINE Mine(w) == origin[w] = s
  <1>0. /\ TypeOK /\ \A w \in Runner : TaskInv(w)
        /\ DOMAIN alive = Socket /\ alive \in [Socket -> BOOLEAN]
    BY DEF RowInv, TypeOK
  <1>1. /\ UNCHANGED <<status, results, finalized, gone, begun, returned, api, target,
                       table, link, peer, overlapped, intact, toAgent, toServer, restarts>>
        /\ alive' = [alive EXCEPT ![s] = FALSE]
    BY DEF AgentStops, rowVars, historyVars, apiVars, serverVars
  <1>2. /\ pc' = [w \in Runner |-> IF Mine(w) THEN "idle" ELSE pc[w]]
        /\ job' = [w \in Runner |-> IF Mine(w) THEN None ELSE job[w]]
        /\ level' = [w \in Runner |-> IF Mine(w) THEN 1 ELSE level[w]]
        /\ phase' = [w \in Runner |-> IF Mine(w) THEN [n \in Node |-> "idle"] ELSE phase[w]]
        /\ origin' = [w \in Runner |-> IF Mine(w) THEN None ELSE origin[w]]
    BY DEF AgentStops
  <1>3. TypeOK'
    <2>1. Len(Levels) \in Nat
      BY RunAssumption
    <2>2. /\ pc' \in [Runner -> TaskPCs] /\ job' \in [Runner -> Execution \cup {None}]
          /\ origin' \in [Runner -> Socket \cup {None}]
      BY <1>0, <1>2 DEF TypeOK, TaskPCs
    <2>3. level' \in [Runner -> 1..(Len(Levels) + 1)]
      BY <1>0, <1>2, <2>1 DEF TypeOK
    <2>4. phase' \in [Runner -> [Node -> Phases]]
      BY <1>0, <1>2 DEF TypeOK, Phases
    <2>5. ServerTypeOK' /\ alive' \in [Socket -> BOOLEAN]
      BY <1>0, <1>1 DEF TypeOK, ServerTypeOK
    <2>6. QED
      BY <1>0, <1>1, <2>2, <2>3, <2>4, <2>5 DEF TypeOK
  <1>4. ASSUME NEW t \in Socket PROVE FreshInv(t)'
    <2>1. FreshInv(t)
      BY <1>4 DEF RowInv
    <2>2. \A w \in Runner : origin'[w] = t => origin[w] = t
      BY <1>2, ChannelAssumption
    <2>3. QED
      BY <1>1, <2>1, <2>2 DEF FreshInv
  <1>5. ASSUME NEW e \in Execution PROVE SourceInv(e)' /\ OrderInv(e)'
    <2>1. SourceInv(e) /\ OrderInv(e)
      BY <1>5 DEF RowInv
    <2>2. \A w \in Runner : job'[w] = e => job[w] = e /\ origin'[w] = origin[w]
      BY <1>2, RunAssumption
    <2>3. \A t \in Socket : About(t, e)' = About(t, e)
      BY <1>1 DEF About
    <2>4. SourceInv(e)'
      BY <1>1, <2>1, <2>2, <2>3 DEF SourceInv
    <2>5. OrderInv(e)'
      BY <1>1, <2>1, <2>3 DEF OrderInv
    <2>6. QED
      BY <2>4, <2>5
  <1>6. ASSUME NEW w \in Runner PROVE TaskInv(w)'
    <2>1. CASE Mine(w)
      <3>1. /\ pc'[w] = "idle" /\ job'[w] = None /\ level'[w] = 1
            /\ phase'[w] = [n \in Node |-> "idle"]
        BY <1>2, <1>6, <2>1
      <3>2. QED
        BY <3>1, RunAssumption DEF TaskInv
    <2>2. CASE ~Mine(w)
      <3>1. /\ pc'[w] = pc[w] /\ job'[w] = job[w] /\ level'[w] = level[w]
            /\ phase'[w] = phase[w] /\ origin'[w] = origin[w]
        BY <1>2, <1>6, <2>2
      <3>2. \A e \in Execution : \A t \in Socket : About(t, e)' = About(t, e)
        BY <1>1 DEF About
      <3>3. \A e \in Execution :
               /\ \A n \in Node : ToldNode(e, n)' <=> ToldNode(e, n)
               /\ \A r \in Terminal : ToldStatus(e, r)' <=> ToldStatus(e, r)
               /\ ToldFinal(e)' <=> ToldFinal(e)
        BY <1>1 DEF ToldNode, ToldStatus, ToldFinal, Reported
      <3>4. QED
        BY <1>0, <1>1, <1>6, <3>1, <3>2, <3>3, TaskStays
    <2>3. QED
      BY <2>1, <2>2
  <1>7. QED
    BY <1>3, <1>4, <1>5, <1>6 DEF RowInv

(* What is on a new connection is what is sent on it from now on.          *)
LEMMA ConnectKeepsRows ==
  ASSUME RowInv, NEW s \in Socket, NEW a \in Agent, Connect(s, a)
  PROVE  RowInv'
  <1>0. /\ TypeOK /\ FreshInv(s) /\ \A w \in Runner : TaskInv(w)
        /\ DOMAIN link = Socket /\ intact \in [Socket -> BOOLEAN] /\ alive \in [Socket -> BOOLEAN]
    BY DEF RowInv, TypeOK, ServerTypeOK
  <1>1. /\ link[s] = "none" /\ link' = [link EXCEPT ![s] = "accepting"]
        /\ intact' = [intact EXCEPT ![s] = TRUE]
    BY DEF Connect
  <1>2. /\ UNCHANGED <<status, results, finalized, gone, pc, job, level, phase, snap, begun,
                       returned, api, target, toAgent, toServer, origin, restarts>>
    BY DEF Connect, apiVars, wrVars, rowVars, runVars, historyVars
  <1>3. TypeOK'
    <2>1. ServerTypeOK'
      BY <1>0, <1>1, <1>2 DEF Connect, TypeOK, ServerTypeOK
    <2>2. alive' \in [Socket -> BOOLEAN] /\ intact' \in [Socket -> BOOLEAN]
      BY <1>0, <1>1 DEF Connect
    <2>3. QED
      BY <1>0, <1>2, <2>1, <2>2 DEF TypeOK
  <1>4. ASSUME NEW t \in Socket PROVE FreshInv(t)'
    BY <1>0, <1>1, <1>2, <1>4 DEF RowInv, FreshInv
  <1>5. \A e \in Execution : \A t \in Socket : About(t, e)' = About(t, e)
    BY <1>2 DEF About
  <1>6. ASSUME NEW e \in Execution PROVE SourceInv(e)' /\ OrderInv(e)'
    <2>1. SourceInv(e) /\ OrderInv(e)
      BY <1>6 DEF RowInv
    <2>2. SourceInv(e)'
      BY <1>2, <1>5, <2>1 DEF SourceInv
    <2>3. OrderInv(e)'
      BY <1>2, <1>5, <2>1 DEF OrderInv
    <2>4. QED
      BY <2>2, <2>3
  <1>7. ASSUME NEW w \in Runner PROVE TaskInv(w)'
    <2>1. \A e \in Execution :
             /\ \A n \in Node : ToldNode(e, n)' <=> ToldNode(e, n)
             /\ \A r \in Terminal : ToldStatus(e, r)' <=> ToldStatus(e, r)
             /\ ToldFinal(e)' <=> ToldFinal(e)
      BY <1>2 DEF ToldNode, ToldStatus, ToldFinal, Reported
    <2>2. job[w] # None => origin[w] # s /\ origin[w] \in Socket
      BY <1>0, <1>1, <1>7 DEF FreshInv, TaskInv
    <2>3. job[w] # None => intact'[origin[w]] = intact[origin[w]]
      BY <1>0, <1>1, <2>2
    <2>4. \A e \in Execution : job[w] = e => job[w] # None
      BY RunAssumption
    <2>5. QED
      BY <1>0, <1>2, <1>5, <1>7, <2>1, <2>3, <2>4, TaskStays
  <1>8. QED
    BY <1>3, <1>4, <1>6, <1>7 DEF RowInv

(* The one task that takes an execution is the first to report of it.      *)
LEMMA TakeKeepsRows ==
  ASSUME RowInv, NEW w \in Runner, TakeExecute(w)
  PROVE  RowInv'
  <1>0. TypeOK /\ \A v \in Runner : TaskInv(v)
    BY DEF RowInv
  <1>1. PICK s \in Socket, e \in Execution :
           /\ alive[s] /\ e \in toAgent[s]
           /\ job' = [job EXCEPT ![w] = e] /\ UNCHANGED <<level, phase, snap>>
           /\ origin' = [origin EXCEPT ![w] = s]
           /\ toAgent' = [toAgent EXCEPT ![s] = @ \ {e}]
    BY DEF TakeExecute, TakeJob
  <1>2. /\ pc[w] = "idle" /\ pc' = [pc EXCEPT ![w] = "resolve"]
        /\ UNCHANGED <<status, results, finalized, gone, begun, returned, api, target, table,
                       link, peer, overlapped, alive, intact, toServer, restarts>>
    BY DEF TakeExecute, Goto, AgentKeeps, rowVars, historyVars, apiVars, serverVars
  <1>3. job[w] = None /\ level[w] = 1 /\ \A n \in Node : phase[w][n] = "idle"
    BY <1>0, <1>2 DEF TaskInv
  <1>4. \A v \in Runner \ {w} : pc'[v] = pc[v] /\ job'[v] = job[v] /\ origin'[v] = origin[v]
    BY <1>0, <1>1, <1>2 DEF TypeOK
  <1>5. pc'[w] = "resolve" /\ job'[w] = e /\ origin'[w] = s
    BY <1>0, <1>1, <1>2 DEF TypeOK
  <1>6. TypeOK'
    <2>1. ServerTypeOK'
      BY <1>0, <1>2 DEF TypeOK, ServerTypeOK
    <2>2. /\ pc' \in [Runner -> TaskPCs] /\ job' \in [Runner -> Execution \cup {None}]
          /\ origin' \in [Runner -> Socket \cup {None}]
          /\ toAgent' \in [Socket -> SUBSET Execution]
      BY <1>0, <1>1, <1>2 DEF TypeOK, TaskPCs, RunPCs
    <2>3. QED
      BY <1>0, <1>1, <1>2, <2>1, <2>2 DEF TypeOK
  <1>7. \A t \in Socket, f \in Execution : About(t, f)' = About(t, f)
    BY <1>2 DEF About
  <1>8. \A t \in Socket : toAgent'[t] = IF t = s THEN toAgent[s] \ {e} ELSE toAgent[t]
    BY <1>0, <1>1 DEF TypeOK
  <1>9. /\ api[e] = "answered" /\ status[e] = "queued"
        /\ \A t \in Socket : About(t, e) = {} /\ (t # s => e \notin toAgent[t])
        /\ \A v \in Runner : job[v] # e
    BY <1>1 DEF RowInv, SourceInv
  <1>10. ASSUME NEW t \in Socket PROVE FreshInv(t)'
    <2>1. FreshInv(t)
      BY <1>10 DEF RowInv
    <2>2. QED
      BY <1>1, <1>2, <1>4, <1>5, <1>8, <2>1 DEF FreshInv
  <1>11. ASSUME NEW f \in Execution PROVE SourceInv(f)' /\ OrderInv(f)'
    <2>1. SourceInv(f) /\ OrderInv(f)
      BY <1>11 DEF RowInv
    <2>2. OrderInv(f)'
      BY <1>2, <1>7, <1>11, <2>1 DEF OrderInv
    <2>3. CASE f = e
      <3>1. \A v \in Runner : job'[v] = e => v = w
        BY <1>4, <1>9
      <3>2. \A t \in Socket : About(t, e)' = {} /\ e \notin toAgent'[t]
        BY <1>7, <1>8, <1>9
      <3>3. api'[e] = "answered"
        BY <1>2, <1>9
      <3>4. QED
        BY <2>2, <2>3, <3>1, <3>2, <3>3 DEF SourceInv
    <2>4. CASE f # e
      <3>1. \A v \in Runner : job'[v] = f => job[v] = f /\ origin'[v] = origin[v]
        BY <1>4, <1>5, <2>4
      <3>2. \A t \in Socket : f \in toAgent'[t] <=> f \in toAgent[t]
        BY <1>8, <2>4
      <3>3. SourceInv(f)'
        BY <1>2, <1>7, <1>11, <2>1, <3>1, <3>2 DEF SourceInv
      <3>4. QED
        BY <2>2, <3>3
    <2>5. QED
      BY <2>3, <2>4
  <1>12. ASSUME NEW v \in Runner PROVE TaskInv(v)'
    <2>1. CASE v = w
      <3>1. ReportInv(w, e)'
        BY <1>1, <1>2, <1>3, <1>5, <1>7, <1>9 DEF ReportInv
      <3>2. \A f \in Execution : job'[w] = f => f = e
        BY <1>5
      <3>3. level'[w] = 1 /\ e # None /\ \A n \in Node : phase'[w][n] = "idle"
        BY <1>1, <1>3, RunAssumption
      <3>4. QED
        BY <1>5, <2>1, <3>1, <3>2, <3>3 DEF TaskInv
    <2>2. CASE v # w
      <3>1. \A f \in Execution :
               /\ \A n \in Node : ToldNode(f, n)' <=> ToldNode(f, n)
               /\ \A r \in Terminal : ToldStatus(f, r)' <=> ToldStatus(f, r)
               /\ ToldFinal(f)' <=> ToldFinal(f)
        BY <1>2 DEF ToldNode, ToldStatus, ToldFinal, Reported
      <3>2. QED
        BY <1>0, <1>1, <1>2, <1>4, <1>7, <1>12, <2>2, <3>1, TaskStays
    <2>3. QED
      BY <2>1, <2>2
  <1>13. QED
    BY <1>6, <1>10, <1>11, <1>12 DEF RowInv

(* A step of one task that reports nothing.                                *)
LEMMA QuietKeepsRows ==
  ASSUME RowInv, TypeOK', NEW w \in Runner, TaskInv(w)',
         UNCHANGED <<status, results, finalized, returned, api, link, intact, toAgent, toServer,
                     job, origin>>,
         \A v \in Runner : v # w =>
            pc'[v] = pc[v] /\ level'[v] = level[v] /\ phase'[v] = phase[v]
  PROVE  RowInv'
  <1>1. \A e \in Execution : \A t \in Socket : About(t, e)' = About(t, e)
    BY DEF About
  <1>2. \A t \in Socket : FreshInv(t)'
    BY DEF RowInv, FreshInv
  <1>3. ASSUME NEW e \in Execution PROVE SourceInv(e)' /\ OrderInv(e)'
    <2>1. SourceInv(e) /\ OrderInv(e)
      BY <1>3 DEF RowInv
    <2>2. SourceInv(e)'
      BY <1>1, <2>1 DEF SourceInv
    <2>3. OrderInv(e)'
      BY <1>1, <2>1 DEF OrderInv
    <2>4. QED
      BY <2>2, <2>3
  <1>4. ASSUME NEW v \in Runner, v # w PROVE TaskInv(v)'
    <2>1. \A e \in Execution :
             /\ \A n \in Node : ToldNode(e, n)' <=> ToldNode(e, n)
             /\ \A r \in Terminal : ToldStatus(e, r)' <=> ToldStatus(e, r)
             /\ ToldFinal(e)' <=> ToldFinal(e)
      BY DEF ToldNode, ToldStatus, ToldFinal, Reported
    <2>2. TaskInv(v) /\ \A e \in Execution : returned[e] \subseteq returned'[e]
      BY <1>4 DEF RowInv
    <2>3. QED
      BY <1>1, <1>4, <2>1, <2>2, TaskStays
  <1>5. QED
    BY <1>2, <1>3, <1>4 DEF RowInv

(* The task moves on inside run_workflow.                                  *)
LEMMA MovesOn ==
  ASSUME RowInv, NEW w \in Runner, pc[w] # "idle", Quietly,
         NEW from \in RunPCs, NEW to \in RunPCs, Goto(w, from, to),
         UNCHANGED <<rowVars, gone, job, snap, returned>>,
         begun' \in [Execution -> [Node -> Nat]],
         level' \in [Runner -> 1..(Len(Levels) + 1)], phase' \in [Runner -> [Node -> Phases]],
         \A v \in Runner : v # w => level'[v] = level[v] /\ phase'[v] = phase[v],
         \A k \in 1..(level'[w] - 1) : \A n \in Levels[k] : phase'[w][n] = "done",
         to = "gather" => level'[w] <= Len(Levels),
         to = "succeed" => level'[w] > Len(Levels),
         \A n \in Node : phase'[w][n] = "done" => phase[w][n] = "done",
         \/ <<from, to>> = <<"resolve", "start">> /\ level' = level /\ phase' = phase
         \/ ~intact[origin[w]] /\ to \in {"except", "returned"}
         \/ /\ from \in {"level", "gather", "succeed", "except"}
            /\ to \in {"level", "gather", "succeed", "except"}
  PROVE  RowInv'
  <1>1. /\ TypeOK /\ TaskInv(w) /\ pc[w] = from /\ pc' = [pc EXCEPT ![w] = to] /\ pc'[w] = to
        /\ UNCHANGED <<status, results, finalized, gone, job, returned, api, target, table, link, peer,
                       overlapped, alive, intact, toAgent, toServer, origin, restarts>>
    BY DEF RowInv, TypeOK, Goto, Quietly, AgentKeeps, rowVars, apiVars, serverVars
  <1>2. TypeOK'
    <2>1. ServerTypeOK'
      BY <1>1 DEF TypeOK, ServerTypeOK
    <2>2. pc' \in [Runner -> TaskPCs]
      BY <1>1 DEF TypeOK, TaskPCs, RunPCs
    <2>3. QED
      BY <1>1, <2>1, <2>2 DEF TypeOK
  <1>3. job[w] # None /\ "idle" \notin RunPCs
    BY <1>1 DEF TaskInv, RunPCs
  <1>4. ASSUME NEW e \in Execution, job[w] = e PROVE ReportInv(w, e)'
    <2>1. ReportInv(w, e)
      BY <1>1, <1>4 DEF TaskInv
    <2>2. \A s \in Socket : About(s, e)' = About(s, e)
      BY <1>1 DEF About
    <2>3. /\ \A n \in Node : ToldNode(e, n)' <=> ToldNode(e, n)
          /\ \A r \in Terminal : ToldStatus(e, r)' <=> ToldStatus(e, r)
          /\ ToldFinal(e)' <=> ToldFinal(e)
      BY <1>1 DEF ToldNode, ToldStatus, ToldFinal, Reported
    <2>4. \A n \in Node : phase'[w][n] = "done" =>
             n \in returned'[e] /\ (intact'[origin'[w]] => ToldNode(e, n)')
      BY <1>1, <2>1, <2>3 DEF ReportInv
    <2>5. CASE <<from, to>> = <<"resolve", "start">> /\ level' = level /\ phase' = phase
      BY <1>1, <2>1, <2>2, <2>4, <2>5 DEF ReportInv
    <2>6. CASE ~intact[origin[w]] /\ to \in {"except", "returned"}
      BY <1>1, <2>4, <2>6 DEF ReportInv
    <2>7. CASE /\ from \in {"level", "gather", "succeed", "except"}
               /\ to \in {"level", "gather", "succeed", "except"}
      BY <1>1, <2>1, <2>3, <2>4, <2>7 DEF ReportInv
    <2>8. QED
      BY <2>5, <2>6, <2>7
  <1>5. TaskInv(w)'
    <2>1. to \in {"idle", "resolve", "start"} =>
             level'[w] = 1 /\ \A n \in Node : phase'[w][n] = "idle"
      BY <1>1 DEF TaskInv, RunPCs
    <2>2. QED
      BY <1>1, <1>3, <1>4, <2>1 DEF TaskInv
  <1>6. \A v \in Runner : v # w => pc'[v] = pc[v]
    BY <1>1 DEF TypeOK
  <1>7. QED
    BY <1>1, <1>2, <1>5, <1>6, QuietKeepsRows

(* The nodes of one level are of no other.                                 *)
LEMMA LevelsApart ==
  \A j, k \in DOMAIN Levels : \A n \in Levels[j] : n \in Levels[k] => j = k
  BY RunAssumption DEF IsLevelling

LEMMA LevelsKeepRows ==
  ASSUME RowInv, NEW w \in Runner, RunLevels(w), pc[w] # "idle"
  PROVE  RowInv'
  <1>0. /\ TypeOK /\ TaskInv(w) /\ Quietly /\ Len(Levels) \in Nat /\ DOMAIN Levels = 1..Len(Levels)
        /\ level[w] \in 1..(Len(Levels) + 1) /\ level \in [Runner -> 1..(Len(Levels) + 1)]
        /\ phase \in [Runner -> [Node -> Phases]] /\ begun \in [Execution -> [Node -> Nat]]
    BY RunAssumption DEF RowInv, TypeOK, RunLevels
  <1>1. CASE BeginLevel(w)
    <2> DEFINE Started == [n \in Node |-> IF n \in Levels[level[w]] THEN "executing" ELSE phase[w][n]]
    <2>1. /\ Goto(w, "level", "gather") /\ level[w] <= Len(Levels)
          /\ phase' = [phase EXCEPT ![w] = Started]
          /\ UNCHANGED <<rowVars, gone, job, level, snap, returned>>
      BY <1>1 DEF BeginLevel
    <2>2. Started \in [Node -> Phases]
      BY <1>0 DEF Phases
    <2>3. phase' \in [Runner -> [Node -> Phases]] /\ phase'[w] = Started
          /\ \A v \in Runner : v # w => phase'[v] = phase[v]
      BY <1>0, <2>1, <2>2
    <2>4. begun' \in [Execution -> [Node -> Nat]]
      <3>1. begun' = [begun EXCEPT ![job[w]] =
                        [n \in Node |-> IF n \in Levels[level[w]] THEN begun[job[w]][n] + 1
                                                                  ELSE begun[job[w]][n]]]
        BY <1>1 DEF BeginLevel
      <3>2. CASE job[w] \in Execution
        BY <1>0, <3>1, <3>2
      <3>3. CASE job[w] \notin Execution
        BY <1>0, <3>1, <3>3
      <3>4. QED
        BY <3>2, <3>3
    <2>5. \A k \in 1..(level[w] - 1) : \A n \in Levels[k] : Started[n] = "done"
      <3> SUFFICES ASSUME NEW k \in 1..(level[w] - 1), NEW n \in Levels[k]
                   PROVE  Started[n] = "done"
        OBVIOUS
      <3>1. k \in DOMAIN Levels /\ level[w] \in DOMAIN Levels /\ k # level[w]
        BY <1>0, <2>1
      <3>2. n \notin Levels[level[w]] /\ n \in Node
        BY <3>1, LevelsApart, RunAssumption DEF IsLevelling
      <3>3. phase[w][n] = "done"
        BY <1>0 DEF TaskInv
      <3>4. QED
        BY <3>2, <3>3
    <2>6. \A n \in Node : Started[n] = "done" => phase[w][n] = "done"
      OBVIOUS
    <2> HIDE DEF Started
    <2>7. \A k \in 1..(level'[w] - 1) : \A n \in Levels[k] : phase'[w][n] = "done"
      BY <2>1, <2>3, <2>5
    <2>8. level' \in [Runner -> 1..(Len(Levels) + 1)] /\ level'[w] <= Len(Levels)
          /\ \A v \in Runner : v # w => level'[v] = level[v]
      BY <1>0, <2>1
    <2>9. "level" \in RunPCs /\ "gather" \in RunPCs
      BY DEF RunPCs
    <2>10. QED
      BY <1>0, <2>1, <2>3, <2>4, <2>6, <2>7, <2>8, <2>9, MovesOn
  <1>2. CASE GatherReturns(w)
    <2>1. /\ Goto(w, "gather", "level") /\ level' = [level EXCEPT ![w] = @ + 1]
          /\ \A n \in Levels[level[w]] : phase[w][n] = "done"
          /\ UNCHANGED <<rowVars, gone, job, phase, snap, begun, returned>>
      BY <1>2 DEF GatherReturns, historyVars
    <2>2. level[w] <= Len(Levels)
      BY <1>0, <2>1 DEF TaskInv, Goto
    <2>3. /\ level' \in [Runner -> 1..(Len(Levels) + 1)] /\ level'[w] = level[w] + 1
          /\ \A v \in Runner : v # w => level'[v] = level[v]
      BY <1>0, <2>1, <2>2
    <2>4. \A k \in 1..(level[w] - 1) : \A n \in Levels[k] : phase[w][n] = "done"
      BY <1>0 DEF TaskInv
    <2>5. \A k \in 1..(level'[w] - 1) : \A n \in Levels[k] : phase'[w][n] = "done"
      BY <1>0, <2>1, <2>3, <2>4
    <2>6. "level" \in RunPCs /\ "gather" \in RunPCs
      BY DEF RunPCs
    <2>7. QED
      BY <1>0, <2>1, <2>3, <2>5, <2>6, MovesOn
  <1>3. ASSUME NEW to \in {"succeed", "except"}, NEW from \in {"level", "gather"},
               Continues(w, from, to), to = "succeed" => level[w] > Len(Levels)
        PROVE  RowInv'
    <2>1. /\ Goto(w, from, to)
          /\ UNCHANGED <<rowVars, gone, job, level, phase, snap, begun, returned>>
      BY <1>3 DEF Continues, historyVars
    <2>2. \A k \in 1..(level'[w] - 1) : \A n \in Levels[k] : phase'[w][n] = "done"
      BY <1>0, <2>1 DEF TaskInv
    <2>3. from \in RunPCs /\ to \in RunPCs
      BY DEF RunPCs
    <2>4. QED
      BY <1>0, <1>3, <2>1, <2>2, <2>3, MovesOn
  <1>4. QED
    BY <1>1, <1>2, <1>3 DEF RunLevels, LevelsDone, GatherRaises

LEMMA SilencesKeepRows ==
  ASSUME RowInv, NEW w \in Runner, Decrypt(w) \/ ReportRaises(w), pc[w] # "idle"
  PROVE  RowInv'
  <1>1. ASSUME NEW from \in {"resolve", "start", "except", "succeed", "finalize"},
               NEW to \in {"start", "returned", "except"},
               <<from, to>> = <<"resolve", "start">> \/ (~intact[origin[w]] /\ to # "start"),
               Continues(w, from, to), Quietly
        PROVE  RowInv'
    <2>1. /\ Goto(w, from, to)
          /\ UNCHANGED <<rowVars, gone, job, level, phase, snap, begun, returned>>
      BY <1>1 DEF Continues, historyVars
    <2>2. /\ \A k \in 1..(level'[w] - 1) : \A n \in Levels[k] : phase'[w][n] = "done"
          /\ level' \in [Runner -> 1..(Len(Levels) + 1)] /\ phase' \in [Runner -> [Node -> Phases]]
          /\ begun' \in [Execution -> [Node -> Nat]]
      BY <2>1 DEF RowInv, TypeOK, TaskInv
    <2>3. from \in RunPCs /\ to \in RunPCs
      BY DEF RunPCs
    <2>4. QED
      BY <1>1, <2>1, <2>2, <2>3, MovesOn
  <1>2. QED
    BY <1>1 DEF Decrypt, ReportRaises

LEMMA NodeRaisesKeepsRows ==
  ASSUME RowInv, NEW w \in Runner, NEW n \in Node, NodeRaises(w, n)
  PROVE  RowInv'
  <1>1. /\ TypeOK /\ TaskInv(w) /\ phase[w][n] = "executing"
        /\ phase' = [phase EXCEPT ![w][n] = "raised"]
        /\ UNCHANGED <<status, results, finalized, gone, pc, job, level, snap, begun, returned, api, target,
                       table, link, peer, overlapped, alive, intact, toAgent, toServer, origin, restarts>>
    BY DEF RowInv, NodeRaises, HandlerRaises, NodeTask, apiVars, serverVars, wireVars
  <1>2. phase \in [Runner -> [Node -> Phases]]
    BY <1>1 DEF TypeOK
  <1>3. /\ phase' \in [Runner -> [Node -> Phases]]
        /\ \A v \in Runner : v # w => phase'[v] = phase[v]
        /\ \A m \in Node : phase'[w][m] = IF m = n THEN "raised" ELSE phase[w][m]
    BY <1>1, <1>2 DEF Phases
  <1>4. TypeOK'
    BY <1>1, <1>3 DEF TypeOK, ServerTypeOK
  <1>5. ASSUME NEW e \in Execution, job[w] = e PROVE ReportInv(w, e)'
    <2>1. ReportInv(w, e)
      BY <1>1, <1>5 DEF TaskInv
    <2>2. \A s \in Socket : About(s, e)' = About(s, e)
      BY <1>1 DEF About
    <2>3. /\ \A m \in Node : ToldNode(e, m)' <=> ToldNode(e, m)
          /\ \A r \in Terminal : ToldStatus(e, r)' <=> ToldStatus(e, r)
          /\ ToldFinal(e)' <=> ToldFinal(e)
      BY <1>1 DEF ToldNode, ToldStatus, ToldFinal, Reported
    <2>4. \A m \in Node : phase'[w][m] = "done" => phase[w][m] = "done"
      BY <1>3
    <2>5. "success" \in Terminal
      BY DEF Terminal
    <2>6. QED
      BY <1>1, <2>1, <2>2, <2>3, <2>4, <2>5 DEF ReportInv
  <1>6. TaskInv(w)'
    <2>1. job[w] # None
      BY <1>1 DEF TaskInv
    <2>2. \A k \in 1..(level'[w] - 1) : \A m \in Levels[k] : m \in Node /\ phase[w][m] = "done"
      <3>1. Len(Levels) \in Nat /\ level[w] \in 1..(Len(Levels) + 1) /\ DOMAIN Levels = 1..Len(Levels)
        BY <1>1, RunAssumption DEF TypeOK
      <3>2. QED
        BY <1>1, <3>1, RunAssumption DEF TaskInv, IsLevelling
    <2>3. \A k \in 1..(level'[w] - 1) : \A m \in Levels[k] : phase'[w][m] = "done"
      BY <1>1, <1>3, <2>2
    <2>4. QED
      BY <1>1, <1>5, <2>1, <2>3 DEF TaskInv
  <1>7. QED
    BY <1>1, <1>3, <1>4, <1>6, QuietKeepsRows

(* A request that is not answered yet is alone with its row.               *)
LEMMA RequestKeepsRows ==
  ASSUME RowInv, TypeOK', NEW e \in Execution, NEW to \in ApiPCs \ {"idle"},
         api[e] # "answered", api' = [api EXCEPT ![e] = to],
         \A f \in Execution : f # e => status'[f] = status[f],
         status'[e] \in {"queued", "failed"}, to # "answered" => status'[e] = "queued",
         UNCHANGED <<results, finalized, returned, pc, job, level, phase, origin, link, intact,
                     toServer>>,
         NEW S \in SUBSET Socket,
         \A s \in Socket : s \in S => link[s] = "open",
         \A s, t \in S : s = t,
         S # {} => to = "answered" /\ status'[e] = "queued",
         \A s \in Socket : toAgent'[s] = IF s \in S THEN toAgent[s] \cup {e} ELSE toAgent[s]
  PROVE  RowInv'
  <1>0. /\ TypeOK /\ api' \in [Execution -> ApiPCs] /\ api'[e] = to
        /\ \A f \in Execution : f # e => api'[f] = api[f]
    BY DEF RowInv, TypeOK, ServerTypeOK
  <1>1. \A s \in Socket, f \in Execution : About(s, f)' = About(s, f)
    BY DEF About
  <1>2. /\ \A s \in Socket : e \notin toAgent[s] /\ About(s, e) = {}
        /\ \A w \in Runner : job[w] # e
    BY DEF RowInv, SourceInv
  <1>3. ASSUME NEW s \in Socket PROVE FreshInv(s)'
    <2>1. FreshInv(s)
      BY <1>3 DEF RowInv
    <2>2. QED
      BY <2>1 DEF FreshInv
  <1>4. SourceInv(e)'
    <2>1. /\ \A s \in Socket : e \in toAgent'[s] <=> s \in S
          /\ \A s \in Socket : About(s, e)' = {}
          /\ \A w \in Runner : job'[w] # e
      BY <1>1, <1>2
    <2>2. (api'[e] # "answered" \/ \E s \in Socket : e \in toAgent'[s]) => status'[e] = "queued"
      BY <1>0, <2>1
    <2>3. QED
      BY <1>0, <2>1, <2>2 DEF SourceInv
  <1>5. OrderInv(e)'
    BY <1>1, <1>2 DEF OrderInv, Terminal
  <1>6. ASSUME NEW f \in Execution, f # e PROVE SourceInv(f)' /\ OrderInv(f)'
    <2>1. SourceInv(f) /\ OrderInv(f)
      BY <1>6 DEF RowInv
    <2>2. \A s \in Socket : f \in toAgent'[s] <=> f \in toAgent[s]
      BY <1>6
    <2>3. SourceInv(f)'
      BY <1>0, <1>1, <1>6, <2>1, <2>2 DEF SourceInv
    <2>4. OrderInv(f)'
      BY <1>1, <1>6, <2>1 DEF OrderInv
    <2>5. QED
      BY <2>3, <2>4
  <1>7. ASSUME NEW w \in Runner PROVE TaskInv(w)'
    <2>1. ASSUME NEW f \in Execution, job[w] = f
          PROVE  /\ \A n \in Node : ToldNode(f, n)' <=> ToldNode(f, n)
                 /\ \A r \in Terminal : ToldStatus(f, r)' <=> ToldStatus(f, r)
                 /\ ToldFinal(f)' <=> ToldFinal(f)
                 /\ status'[f] = status[f]
      <3>1. status'[f] = status[f]
        BY <1>2, <1>7, <2>1
      <3>2. QED
        BY <3>1 DEF ToldNode, ToldStatus, ToldFinal, Reported
    <2>2. TaskInv(w) /\ \A f \in Execution : returned[f] \subseteq returned'[f]
      BY <1>7 DEF RowInv
    <2>3. QED
      BY <1>1, <2>1, <2>2, TaskStays
  <1>8. QED
    BY <1>3, <1>4, <1>5, <1>6, <1>7 DEF RowInv

LEMMA ApiKeepsRows ==
  ASSUME RowInv, NEW e \in Execution, ApiStep(e)
  PROVE  RowInv'
  <1>0. /\ TypeOK /\ SourceInv(e) /\ status \in [Execution -> Statuses]
        /\ api \in [Execution -> ApiPCs] /\ toAgent \in [Socket -> SUBSET Execution]
    BY DEF RowInv, TypeOK, ServerTypeOK
  <1>1. PICK from \in ApiPCs \ {"answered"}, to \in ApiPCs \ {"idle"} : ApiGoto(e, from, to)
    BY DEF ApiStep, Request, PickAgent, NoAgent, Encrypt, SendExecute, Refuse
  <1>2. /\ api[e] # "answered" /\ api' = [api EXCEPT ![e] = to] /\ api'[e] = to /\ api[e] = from
        /\ UNCHANGED <<results, finalized, gone, begun, returned, pc, job, level, phase, origin,
                       table, link, peer, overlapped, alive, intact, toServer, restarts>>
    BY <1>0, <1>1 DEF ApiGoto, runVars, historyVars, serverVars
  <1>3. status[e] = IF api[e] = "idle" THEN "absent" ELSE "queued"
    BY <1>0, <1>2 DEF SourceInv
  <1>4. ServerTypeOK'
    BY <1>0, ApiKeepsTable DEF TypeOK, ServerTypeOK
  <1>5. ASSUME toAgent' = toAgent, status' \in [Execution -> Statuses],
               \A f \in Execution : f # e => status'[f] = status[f],
               status'[e] \in {"queued", "failed"}, to # "answered" => status'[e] = "queued"
        PROVE  RowInv'
    <2>1. TypeOK'
      BY <1>0, <1>2, <1>4, <1>5 DEF TypeOK
    <2> DEFINE S == {}
    <2>2. /\ S \in SUBSET Socket /\ \A s \in Socket : s \in S => link[s] = "open"
          /\ \A s, t \in S : s = t
          /\ S # {} => to = "answered" /\ status'[e] = "queued"
          /\ \A s \in Socket : toAgent'[s] = IF s \in S THEN toAgent[s] \cup {e} ELSE toAgent[s]
      BY <1>5
    <2> HIDE DEF S
    <2>3. QED
      BY ONLY RowInv, <1>2, <1>5, <2>1, <2>2, to \in ApiPCs \ {"idle"}, RequestKeepsRows
  <1>6. CASE Request(e)
    <2>1. status' = [status EXCEPT ![e] = "queued"] /\ toAgent' = toAgent
      BY <1>6 DEF Request
    <2>2. QED
      BY <1>0, <1>5, <2>1 DEF Statuses
  <1>7. CASE PickAgent(e) \/ NoAgent(e) \/ Encrypt(e)
    <2>1. status' = status /\ toAgent' = toAgent /\ api[e] # "idle"
      BY <1>7 DEF PickAgent, NoAgent, Encrypt, ApiGoto
    <2>2. QED
      BY <1>0, <1>3, <1>5, <2>1
  <1>8. CASE Refuse(e)
    <2>1. /\ status' = [status EXCEPT ![e] = "failed"] \/ status' = status
          /\ toAgent' = toAgent /\ api[e] # "idle" /\ to = "answered"
      BY <1>0, <1>2, <1>8 DEF Refuse, ApiGoto
    <2>2. status' \in [Execution -> Statuses] /\ status'[e] \in {"queued", "failed"}
          /\ \A f \in Execution : f # e => status'[f] = status[f]
      BY <1>0, <1>3, <2>1 DEF Statuses
    <2>3. QED
      BY <1>5, <2>1, <2>2
  <1>9. CASE SendExecute(e)
    <2>1. status' = status /\ api[e] # "idle" /\ to = "answered"
      BY <1>0, <1>2, <1>9 DEF SendExecute, ApiGoto
    <2> DEFINE S == {s \in Socket : s = target[e] /\ intact[s] /\ link[s] = "open"}
    <2>2. \A s \in Socket : toAgent'[s] = IF s \in S THEN toAgent[s] \cup {e} ELSE toAgent[s]
      BY <1>0, <1>9 DEF SendExecute
    <2>3. toAgent' \in [Socket -> SUBSET Execution]
      BY <1>0, <1>9 DEF SendExecute
    <2>4. TypeOK'
      BY <1>0, <1>2, <1>4, <2>1, <2>3 DEF TypeOK
    <2>5. /\ S \in SUBSET Socket /\ \A s \in Socket : s \in S => link[s] = "open"
          /\ \A s, t \in S : s = t
          /\ S # {} => to = "answered" /\ status'[e] = "queued"
          /\ status'[e] = "queued" /\ \A f \in Execution : f # e => status'[f] = status[f]
      BY <1>3, <2>1
    <2> HIDE DEF S
    <2>6. QED
      BY ONLY RowInv, <1>2, <2>2, <2>4, <2>5, to \in ApiPCs \ {"idle"}, RequestKeepsRows
  <1>10. QED
    BY <1>6, <1>7, <1>8, <1>9 DEF ApiStep

(* The server reads a report: what was to be told is in the row.           *)
LEMMA ReceiveKeepsRows ==
  ASSUME RowInv, NEW s \in Socket, Receive(s)
  PROVE  RowInv'
  <1> DEFINE q == toServer[s]
  <1>0. /\ TypeOK /\ toServer \in [Socket -> Seq(Reports)] /\ q \in Seq(Reports)
        /\ Len(q) \in Nat /\ DOMAIN q = 1..Len(q)
    BY DEF RowInv, TypeOK
  <1>1. /\ q # <<>> /\ link[s] = "open" /\ toServer' = [toServer EXCEPT ![s] = Tail(q)]
        /\ Apply(Head(q)[1], Head(q)[2])
        /\ UNCHANGED <<gone, pc, job, level, phase, snap, begun, returned, api, target, table, link,
                       peer, overlapped, alive, intact, toAgent, origin, restarts>>
    BY DEF Receive, runVars, historyVars, apiVars, serverVars
  <1>2. /\ Len(q) >= 1 /\ Head(q) = q[1] /\ q[1] \in Reports /\ Tail(q) \in Seq(Reports)
        /\ Len(Tail(q)) = Len(q) - 1 /\ DOMAIN Tail(q) = 1..(Len(q) - 1)
        /\ \A k \in 1..(Len(q) - 1) : Tail(q)[k] = q[k + 1]
    BY <1>0, <1>1
  <1>3. PICK e \in Execution, r \in {"running", "success", "failed", "final"} \cup Node :
           q[1] = <<e, r>> /\ 1 \in About(s, e)
    <2>1. /\ q[1][1] \in Execution /\ q[1][2] \in {"running", "success", "failed", "final"} \cup Node
          /\ q[1] = <<q[1][1], q[1][2]>>
      BY <1>2 DEF Reports
    <2>2. 1 \in About(s, q[1][1])
      BY <1>0, <1>2 DEF About
    <2> HIDE DEF q
    <2>3. QED
      BY <2>1, <2>2
  <1>4. /\ toServer'[s] = Tail(q) /\ \A t \in Socket : t # s => toServer'[t] = toServer[t]
    BY <1>0, <1>1
  <1>5. /\ \A f \in Execution : status'[f] = IF f = e /\ r \in Statuses THEN r ELSE status[f]
        /\ \A f \in Execution : results'[f] = IF f = e /\ r \in Node THEN results[f] \cup {r} ELSE results[f]
        /\ \A f \in Execution : finalized'[f] = IF f = e /\ r = "final" THEN TRUE ELSE finalized[f]
    <2>1. Apply(e, r)
      BY <1>1, <1>2, <1>3
    <2>2. /\ status \in [Execution -> Statuses] /\ results \in [Execution -> SUBSET Node]
          /\ finalized \in [Execution -> BOOLEAN]
      BY <1>0 DEF TypeOK
    <2> HIDE DEF q
    <2>3. \A f \in Execution : status'[f] = IF f = e /\ r \in Statuses THEN r ELSE status[f]
      BY <2>1, <2>2 DEF Apply
    <2>4. \A f \in Execution : results'[f] = IF f = e /\ r \in Node THEN results[f] \cup {r} ELSE results[f]
      BY <2>1, <2>2 DEF Apply
    <2>5. \A f \in Execution : finalized'[f] = IF f = e /\ r = "final" THEN TRUE ELSE finalized[f]
      BY <2>1, <2>2 DEF Apply
    <2>6. QED
      BY <2>3, <2>4, <2>5
  <1>6. TypeOK'
    <2>1. ServerTypeOK' /\ toServer' \in [Socket -> Seq(Reports)]
      BY <1>0, <1>1, <1>2 DEF TypeOK, ServerTypeOK
    <2>2. /\ status' \in [Execution -> Statuses] /\ results' \in [Execution -> SUBSET Node]
          /\ finalized' \in [Execution -> BOOLEAN]
      BY <1>0, <1>1, <1>2 DEF Apply, TypeOK
    <2>3. QED
      BY <1>0, <1>1, <2>1, <2>2 DEF TypeOK
  <1>7. ASSUME NEW f \in Execution
        PROVE  /\ \A t \in Socket : t # s => About(t, f)' = About(t, f)
               /\ \A k \in About(s, f)' : /\ k \in 1..(Len(q) - 1) /\ k + 1 \in About(s, f)
                                          /\ toServer'[s][k] = toServer[s][k + 1]
               /\ \A k \in About(s, f) : k # 1 => /\ k - 1 \in About(s, f)'
                                                  /\ toServer'[s][k - 1] = toServer[s][k]
               /\ 1 \in About(s, f) => f = e
               /\ \A k \in About(s, f) : k \in 1..Len(q)
    BY <1>0, <1>2, <1>3, <1>4, <1>7 DEF About
  <1>8. \A t \in Socket, f \in Execution : About(t, f) = {} => About(t, f)' = {}
    BY <1>7
  <1> HIDE DEF q
  <1>9. ASSUME NEW t \in Socket PROVE FreshInv(t)'
    BY <1>1, <1>4, <1>9 DEF RowInv, FreshInv
  <1>10. ASSUME NEW f \in Execution PROVE SourceInv(f)'
    <2>1. SourceInv(f)
      BY <1>10 DEF RowInv
    <2>2. (\A t \in Socket : About(t, f) = {}) => status'[f] = status[f]
      BY <1>3, <1>5, <1>10
    <2>3. QED
      BY <1>1, <1>8, <1>10, <2>1, <2>2 DEF SourceInv
  <1>11. \A f \in Execution : OrderInv(f)'
    <2>1. ASSUME NEW f \in Execution, f # e PROVE OrderInv(f)'
      <3>1. OrderInv(f)
        BY <2>1 DEF RowInv
      <3>2. status'[f] = status[f] /\ results'[f] = results[f] /\ returned' = returned
        BY <1>1, <1>5, <2>1
      <3>3. ASSUME NEW t \in Socket, NEW k \in About(t, f)'
            PROVE  \E i \in About(t, f) :
                     /\ toServer'[t][k] = toServer[t][i]
                     /\ \A j \in About(t, f)' : \E h \in About(t, f) :
                           toServer'[t][j] = toServer[t][h] /\ (j < k => h < i)
                     /\ \A h \in About(t, f) : h < i => \E j \in About(t, f)' :
                           toServer'[t][j] = toServer[t][h] /\ j < k
        <4>1. CASE t = s
          <5>1. k + 1 \in About(s, f) /\ toServer'[s][k] = toServer[s][k + 1] /\ k \in Int
            BY <1>7, <3>3, <2>1, <4>1
          <5>2. \A j \in About(s, f)' : /\ j + 1 \in About(s, f) /\ toServer'[s][j] = toServer[s][j + 1]
                                        /\ (j < k => j + 1 < k + 1)
            BY <1>7, <5>1, <2>1
          <5>3. \A h \in About(s, f) : h < k + 1 =>
                   h - 1 \in About(s, f)' /\ toServer'[s][h - 1] = toServer[s][h] /\ h - 1 < k
            BY <1>7, <5>1, <2>1
          <5>4. QED
            BY <4>1, <5>1, <5>2, <5>3
        <4>2. CASE t # s
          <5>1. About(t, f)' = About(t, f) /\ toServer'[t] = toServer[t]
            BY <1>4, <1>7, <2>1, <4>2
          <5>2. QED
            BY <3>3, <5>1
        <4>3. QED
          BY <4>1, <4>2
      <3>4. status'[f] \in Terminal =>
               \A t \in Socket : \A k \in About(t, f)' : toServer'[t][k][2] \notin Statuses
        BY <3>1, <3>2, <3>3 DEF OrderInv
      <3>5. ASSUME NEW t \in Socket, NEW j \in About(t, f)', NEW k \in About(t, f)',
                   j < k, toServer'[t][k][2] \in Statuses
            PROVE  toServer'[t][j][2] \notin Terminal
        <4>1. PICK i \in About(t, f) :
                 /\ toServer'[t][k] = toServer[t][i]
                 /\ \A l \in About(t, f)' : \E h \in About(t, f) :
                        toServer'[t][l] = toServer[t][h] /\ (l < k => h < i)
          BY <3>3, <3>5
        <4>2. PICK h \in About(t, f) : toServer'[t][j] = toServer[t][h] /\ h < i
          BY <3>5, <4>1
        <4>3. QED
          BY <3>1, <3>5, <4>1, <4>2 DEF OrderInv
      <3>6. status'[f] = "success" => results'[f] = Node /\ returned'[f] = Node
        BY <3>1, <3>2 DEF OrderInv
      <3>7. ASSUME NEW t \in Socket, NEW k \in About(t, f)', toServer'[t][k][2] = "success"
            PROVE  /\ returned'[f] = Node
                   /\ \A n \in Node : \/ n \in results'[f]
                                      \/ \E j \in About(t, f)' : j < k /\ toServer'[t][j][2] = n
        <4>1. PICK i \in About(t, f) :
                 /\ toServer[t][i][2] = "success"
                 /\ \A h \in About(t, f) : h < i => \E j \in About(t, f)' :
                        toServer'[t][j] = toServer[t][h] /\ j < k
          BY <3>3, <3>7
        <4>2. /\ returned[f] = Node
              /\ \A n \in Node : n \in results[f] \/ \E j \in About(t, f) : j < i /\ toServer[t][j][2] = n
          BY <3>1, <4>1 DEF OrderInv
        <4>3. ASSUME NEW n \in Node, n \notin results[f]
              PROVE  \E j \in About(t, f)' : j < k /\ toServer'[t][j][2] = n
          BY <4>1, <4>2, <4>3
        <4>4. QED
          BY <3>2, <4>2, <4>3
      <3>8. QED
        BY <3>4, <3>5, <3>6, <3>7 DEF OrderInv
    <2>2. OrderInv(e)'
      <3>1. OrderInv(e) /\ \A t \in Socket : About(t, e) # {} => t = s
        BY <1>3 DEF RowInv, SourceInv
      <3>2. \A t \in Socket : About(t, e)' # {} => t = s
        BY <1>3, <1>8, <3>1
      <3>3. /\ status'[e] = IF r \in Statuses THEN r ELSE status[e]
            /\ results'[e] = IF r \in Node THEN results[e] \cup {r} ELSE results[e]
            /\ returned' = returned
        BY <1>1, <1>3, <1>5
      <3>4. toServer[s][1][2] = r
        BY <1>3 DEF q
      <3>5. \A k \in About(s, e)' : /\ k + 1 \in About(s, e) /\ k >= 1 /\ k \in Int
                                    /\ toServer'[s][k][2] = toServer[s][k + 1][2]
        BY <1>3, <1>7
      <3>6. ASSUME status'[e] \in Terminal, NEW k \in About(s, e)'
            PROVE  toServer'[s][k][2] \notin Statuses
        <4>1. CASE r \in Statuses
          <5>1. r \in Terminal /\ 1 < k + 1
            BY <3>3, <3>5, <3>6, <4>1
          <5>2. QED
            BY <1>3, <3>1, <3>4, <3>5, <5>1, <3>6 DEF OrderInv
        <4>2. CASE r \notin Statuses
          BY <3>1, <3>3, <3>5, <3>6, <4>2 DEF OrderInv
        <4>3. QED
          BY <4>1, <4>2
      <3>7. ASSUME NEW j \in About(s, e)', NEW k \in About(s, e)',
                   j < k, toServer'[s][k][2] \in Statuses
            PROVE  toServer'[s][j][2] \notin Terminal
        BY <3>1, <3>5, <3>7 DEF OrderInv
      <3>8. ASSUME status'[e] = "success"
            PROVE  results'[e] = Node /\ returned'[e] = Node
        <4>1. results[e] \subseteq Node /\ Node \cap Statuses = {} /\ "success" \in Statuses
          BY <1>0, <1>3, ChannelAssumption DEF TypeOK, Statuses
        <4>2. CASE r = "success"
          <5>1. returned[e] = Node /\ \A n \in Node : n \in results[e] \/ \E j \in About(s, e) : j < 1
            BY <1>3, <3>1, <3>4, <4>2 DEF OrderInv
          <5>2. \A j \in About(s, e) : ~(j < 1)
            BY <1>0, <1>3, <1>7
          <5>3. QED
            BY <3>3, <4>1, <4>2, <5>1, <5>2
        <4>3. CASE r # "success"
          BY <3>1, <3>3, <3>8, <4>1, <4>3 DEF OrderInv
        <4>4. QED
          BY <4>2, <4>3
      <3>9. ASSUME NEW k \in About(s, e)', toServer'[s][k][2] = "success"
            PROVE  /\ returned'[e] = Node
                   /\ \A n \in Node : \/ n \in results'[e]
                                      \/ \E j \in About(s, e)' : j < k /\ toServer'[s][j][2] = n
        <4>1. /\ returned[e] = Node
              /\ \A n \in Node : \/ n \in results[e]
                                 \/ \E j \in About(s, e) : j < k + 1 /\ toServer[s][j][2] = n
          BY <3>1, <3>5, <3>9 DEF OrderInv
        <4>2. ASSUME NEW n \in Node, n \notin results'[e]
              PROVE  \E j \in About(s, e)' : j < k /\ toServer'[s][j][2] = n
          <5>1. PICK j \in About(s, e) : j < k + 1 /\ toServer[s][j][2] = n
            BY <3>3, <4>1, <4>2
          <5>2. j # 1
            BY <3>3, <3>4, <4>2, <5>1
          <5>3. j - 1 \in About(s, e)' /\ toServer'[s][j - 1][2] = n /\ j \in Int
            BY <1>3, <1>7, <5>1, <5>2
          <5>4. j - 1 < k
            BY <3>5, <3>9, <5>1, <5>3
          <5>5. QED
            BY <5>3, <5>4
        <4>3. QED
          BY <3>3, <4>1, <4>2
      <3>10. QED
        BY <3>2, <3>6, <3>7, <3>8, <3>9 DEF OrderInv
    <2>3. QED
      BY <2>1, <2>2
  <1>12. ASSUME NEW w \in Runner PROVE TaskInv(w)'
    <2>1. TaskInv(w)
      BY <1>12 DEF RowInv
    <2>2. ASSUME NEW f \in Execution, NEW x, Reported(f, x)
          PROVE  Reported(f, x)' \/ (f = e /\ x = r)
      <3>1. PICK t \in Socket : \E k \in DOMAIN toServer[t] : toServer[t][k] = <<f, x>>
        BY <2>2 DEF Reported
      <3>2. PICK k \in DOMAIN toServer[t] : toServer[t][k] = <<f, x>>
        BY <3>1
      <3>3. CASE t = s
        <4>1. k \in 1..Len(q) /\ toServer[s][k] = q[k]
          BY <1>0, <3>2, <3>3 DEF q
        <4>2. CASE k = 1
          BY <1>3, <3>2, <3>3, <4>1, <4>2
        <4>3. CASE k # 1
          <5>1. k - 1 \in DOMAIN toServer'[s] /\ toServer'[s][k - 1] = <<f, x>>
            BY <1>0, <1>2, <1>4, <3>2, <3>3, <4>1, <4>3
          <5>2. QED
            BY <5>1 DEF Reported
        <4>4. QED
          BY <4>2, <4>3
      <3>4. CASE t # s
        BY <1>4, <3>2, <3>4 DEF Reported
      <3>5. QED
        BY <3>3, <3>4
    <2>3. ASSUME NEW f \in Execution, NEW x, Reported(f, x)'
          PROVE  Reported(f, x)
      <3>1. PICK t \in Socket : \E k \in DOMAIN toServer'[t] : toServer'[t][k] = <<f, x>>
        BY <2>3 DEF Reported
      <3>2. PICK k \in DOMAIN toServer'[t] : toServer'[t][k] = <<f, x>>
        BY <3>1
      <3>3. CASE t = s
        <4>1. k + 1 \in DOMAIN toServer[s] /\ toServer[s][k + 1] = <<f, x>>
          BY <1>0, <1>2, <1>4, <3>2, <3>3 DEF q
        <4>2. QED
          BY <4>1 DEF Reported
      <3>4. CASE t # s
        BY <1>4, <3>2, <3>4 DEF Reported
      <3>5. QED
        BY <3>3, <3>4
    <2>4. Reported(e, r)
      BY <1>0, <1>2, <1>3 DEF Reported, q
    <2>5. status[e] \in Terminal => r \notin Statuses
      BY <1>3 DEF RowInv, OrderInv, q
    <2>6. \A f \in Execution : \A n \in Node : ToldNode(f, n) => ToldNode(f, n)'
      BY <1>3, <1>5, <2>2 DEF ToldNode
    <2>7. \A f \in Execution : ToldFinal(f) => ToldFinal(f)'
      BY <1>3, <1>5, <2>2 DEF ToldFinal
    <2>8. \A f \in Execution : \A x \in Terminal : ToldStatus(f, x)' <=> ToldStatus(f, x)
      BY <1>3, <1>5, <2>2, <2>3, <2>4, <2>5 DEF ToldStatus, Terminal, Statuses
    <2>9. ASSUME NEW f \in Execution, job[w] = f, pc[w] \in {"resolve", "start"}
          PROVE  status'[f] = status[f] /\ \A t \in Socket : About(t, f) = {} => About(t, f)' = {}
      <3>1. About(s, f) = {}
        BY <2>1, <2>9 DEF TaskInv, ReportInv
      <3>2. QED
        BY <1>3, <1>5, <1>8, <2>9, <3>1
    <2>10. \A f \in Execution : returned[f] \subseteq returned'[f]
      BY <1>1
    <2>11. QED
      BY <1>1, <2>1, <2>6, <2>7, <2>8, <2>9, <2>10, TaskStays
  <1>13. QED
    BY <1>6, <1>9, <1>10, <1>11, <1>12 DEF RowInv

Sayable == {"running", "success", "failed", "final"} \cup Node

(* A report joins the end of the queue, if the connection holds.           *)
LEMMA Said ==
  ASSUME RowInv, NEW w \in Runner, NEW e \in Execution, job[w] = e, NEW r \in Sayable, Says(w, r)
  PROVE  /\ toServer' \in [Socket -> Seq(Reports)]
         /\ \A s \in Socket : s # origin[w] => toServer'[s] = toServer[s]
         /\ \A s \in Socket, f \in Execution :
               /\ \A k \in About(s, f) : k \in Int /\ k \in About(s, f)' /\ toServer'[s][k] = toServer[s][k]
               /\ \A k \in About(s, f)' :
                     \/ k \in About(s, f)
                     \/ /\ s = origin[w] /\ f = e /\ intact[s]
                        /\ toServer'[s][k] = <<e, r>> /\ k \in Int
                        /\ \A j \in About(s, f) : j < k
                        /\ \A j \in About(s, f)' : j = k \/ j \in About(s, f)
         /\ \A f \in Execution : \A x : Reported(f, x) => Reported(f, x)'
         /\ \A f \in Execution : \A x : Reported(f, x)' => Reported(f, x) \/ (f = e /\ x = r)
         /\ intact[origin[w]] => Reported(e, r)'
  <1> DEFINE o == origin[w]
             q == toServer[o]
  <1>1. /\ TypeOK /\ TaskInv(w) /\ o \in Socket /\ toServer \in [Socket -> Seq(Reports)]
    BY RunAssumption DEF RowInv, TypeOK, TaskInv
  <1>2. \A s \in Socket : /\ Len(toServer[s]) \in Nat /\ DOMAIN toServer[s] = 1..Len(toServer[s])
                          /\ \A k \in DOMAIN toServer[s] : k \in Int
    BY <1>1
  <1>3. <<e, r>> \in Reports
    BY DEF Reports, Sayable
  <1>4. CASE ~intact[o]
    <2>1. toServer' = toServer
      BY <1>4 DEF Says
    <2>2. \A s \in Socket, f \in Execution : About(s, f)' = About(s, f)
      BY <2>1 DEF About
    <2>3. \A f \in Execution : \A x : Reported(f, x)' <=> Reported(f, x)
      BY <2>1 DEF Reported
    <2>4. \A s \in Socket, f \in Execution : \A k \in About(s, f) : k \in Int
      BY <1>2 DEF About
    <2>5. QED
      BY <1>1, <1>4, <2>1, <2>2, <2>3, <2>4
  <1>5. CASE intact[o]
    <2>1. toServer' = [toServer EXCEPT ![o] = Append(q, <<e, r>>)]
      BY <1>5 DEF Says
    <2>2. /\ q \in Seq(Reports) /\ Append(q, <<e, r>>) \in Seq(Reports)
          /\ DOMAIN Append(q, <<e, r>>) = 1..(Len(q) + 1) /\ DOMAIN q = 1..Len(q) /\ Len(q) \in Nat
          /\ Append(q, <<e, r>>)[Len(q) + 1] = <<e, r>>
          /\ \A k \in 1..Len(q) : Append(q, <<e, r>>)[k] = q[k]
      BY <1>1, <1>3
    <2>3. /\ toServer' \in [Socket -> Seq(Reports)]
          /\ \A s \in Socket : s # o => toServer'[s] = toServer[s]
          /\ toServer'[o] = Append(q, <<e, r>>)
      BY <1>1, <2>1, <2>2
    <2>4. ASSUME NEW s \in Socket, NEW f \in Execution, NEW k \in About(s, f)
          PROVE  k \in Int /\ k \in About(s, f)' /\ toServer'[s][k] = toServer[s][k]
      <3>1. CASE s = o
        <4>1. k \in 1..Len(q) /\ q[k][1] = f
          BY <2>2, <2>4, <3>1 DEF About
        <4>2. toServer'[o][k] = q[k] /\ k \in DOMAIN toServer'[o]
          BY <2>2, <2>3, <4>1
        <4>3. QED
          BY <3>1, <4>1, <4>2 DEF About
      <3>2. CASE s # o
        BY <1>2, <2>3, <2>4, <3>2 DEF About
      <3>3. QED
        BY <3>1, <3>2
    <2>5. ASSUME NEW s \in Socket, NEW f \in Execution, NEW k \in About(s, f)', k \notin About(s, f)
          PROVE  s = o /\ f = e /\ k = Len(q) + 1
      <3>1. CASE s = o
        <4>1. k \in 1..(Len(q) + 1) /\ toServer'[o][k][1] = f
          BY <2>2, <2>3, <2>5, <3>1 DEF About
        <4>2. CASE k \in 1..Len(q)
          BY <2>2, <2>3, <2>5, <3>1, <4>1, <4>2 DEF About
        <4>3. CASE k = Len(q) + 1
          BY <2>2, <2>3, <3>1, <4>1, <4>3
        <4>4. QED
          BY <2>2, <4>1, <4>2, <4>3
      <3>2. CASE s # o
        BY <2>3, <2>5, <3>2 DEF About
      <3>3. QED
        BY <3>1, <3>2
    <2>6. \A f \in Execution : \A j \in About(o, f) : j < Len(q) + 1
      BY <2>2 DEF About
    <2>7. ASSUME NEW f \in Execution, NEW x, Reported(f, x)
          PROVE  Reported(f, x)'
      <3>1. PICK s \in Socket : \E k \in DOMAIN toServer[s] : toServer[s][k] = <<f, x>>
        BY <2>7 DEF Reported
      <3>2. PICK k \in DOMAIN toServer[s] : toServer[s][k] = <<f, x>>
        BY <3>1
      <3>3. k \in About(s, f)
        BY <3>2 DEF About
      <3>4. k \in DOMAIN toServer'[s] /\ toServer'[s][k] = <<f, x>>
        BY <2>4, <3>2, <3>3 DEF About
      <3>5. QED
        BY <3>4 DEF Reported
    <2>8. ASSUME NEW f \in Execution, NEW x, Reported(f, x)'
          PROVE  Reported(f, x) \/ (f = e /\ x = r)
      <3>1. PICK s \in Socket : \E k \in DOMAIN toServer'[s] : toServer'[s][k] = <<f, x>>
        BY <2>8 DEF Reported
      <3>2. PICK k \in DOMAIN toServer'[s] : toServer'[s][k] = <<f, x>>
        BY <3>1
      <3>3. k \in About(s, f)'
        BY <3>2 DEF About
      <3>4. CASE k \in About(s, f)
        BY <2>4, <3>2, <3>4 DEF About, Reported
      <3>5. CASE k \notin About(s, f)
        BY <2>2, <2>3, <2>5, <3>2, <3>3, <3>5
      <3>6. QED
        BY <3>4, <3>5
    <2>9. Reported(e, r)'
      <3>1. Len(q) + 1 \in DOMAIN toServer'[o] /\ toServer'[o][Len(q) + 1] = <<e, r>>
        BY <2>2, <2>3
      <3>2. QED
        BY <1>1, <3>1 DEF Reported
    <2>10. toServer'[o][Len(q) + 1] = <<e, r>> /\ Len(q) + 1 \in Int
      BY <2>2, <2>3
    <2>11. ASSUME NEW s \in Socket, NEW f \in Execution, NEW k \in About(s, f)', k \notin About(s, f)
           PROVE  /\ s = origin[w] /\ f = e /\ intact[s] /\ toServer'[s][k] = <<e, r>> /\ k \in Int
                  /\ \A j \in About(s, f) : j < k
                  /\ \A j \in About(s, f)' : j = k \/ j \in About(s, f)
      <3>1. s = o /\ f = e /\ k = Len(q) + 1
        BY <2>5, <2>11
      <3>2. \A j \in About(s, f)' : j = Len(q) + 1 \/ j \in About(s, f)
        BY <2>5
      <3>3. QED
        BY <1>5, <2>6, <2>10, <3>1, <3>2
    <2> HIDE DEF q
    <2>12. QED
      BY <2>3, <2>4, <2>7, <2>8, <2>9, <2>11
  <1>6. QED
    BY <1>4, <1>5

(* A task that has not said how the run ended may say anything of it; what *)
(* it says at the end is the last it says of the status.                   *)
LEMMA SaidKeepsRows ==
  ASSUME RowInv, TypeOK', NEW w \in Runner, NEW e \in Execution, job[w] = e,
         NEW r \in Sayable, Says(w, r), TaskInv(w)',
         UNCHANGED <<status, results, finalized, job, origin, api, link, intact, toAgent>>,
         \A f \in Execution : f # e => returned'[f] = returned[f],
         returned[e] \subseteq returned'[e],
         \A v \in Runner : v # w =>
            pc'[v] = pc[v] /\ level'[v] = level[v] /\ phase'[v] = phase[v],
         intact[origin[w]] /\ r \in Statuses => \A x \in Terminal : ~ToldStatus(e, x),
         intact[origin[w]] /\ r = "success" =>
            returned[e] = Node /\ \A n \in Node : ToldNode(e, n)
  PROVE  RowInv'
  <1>0. /\ TypeOK /\ TaskInv(w) /\ SourceInv(e) /\ OrderInv(e) /\ origin[w] \in Socket
    BY RunAssumption DEF RowInv, TaskInv
  <1>1. /\ \A s \in Socket : s # origin[w] => toServer'[s] = toServer[s]
        /\ \A f \in Execution : \A x : Reported(f, x) => Reported(f, x)'
        /\ \A f \in Execution : \A x : Reported(f, x)' => Reported(f, x) \/ (f = e /\ x = r)
    BY Said
  <1>2. ASSUME NEW s \in Socket, NEW f \in Execution
        PROVE  /\ \A k \in About(s, f) : k \in Int /\ k \in About(s, f)' /\ toServer'[s][k] = toServer[s][k]
               /\ \A k \in About(s, f)' :
                     \/ k \in About(s, f)
                     \/ /\ s = origin[w] /\ f = e /\ intact[s]
                        /\ toServer'[s][k] = <<e, r>> /\ k \in Int
                        /\ \A j \in About(s, f) : j < k
                        /\ \A j \in About(s, f)' : j = k \/ j \in About(s, f)
    BY Said
  <1>3. ASSUME NEW s \in Socket, NEW f \in Execution, f # e
        PROVE  About(s, f)' = About(s, f)
    <2>1. \A k \in About(s, f) : k \in About(s, f)'
      BY <1>2, <1>3
    <2>2. \A k \in About(s, f)' : k \in About(s, f)
      BY <1>2, <1>3
    <2>3. QED
      BY <2>1, <2>2
  <1>4. \A s \in Socket : About(s, e)' # {} => About(s, e) # {} \/ s = origin[w]
    BY <1>2
  <1>5. \A s \in Socket : About(s, e) # {} => s = origin[w]
    BY <1>0 DEF SourceInv
  <1>6. ASSUME NEW s \in Socket PROVE FreshInv(s)'
    BY <1>1, <1>6 DEF RowInv, FreshInv
  <1>7. SourceInv(e)'
    <2>1. api[e] = "answered" /\ \A s \in Socket : e \notin toAgent[s]
      BY <1>0 DEF SourceInv
    <2>2. \A v \in Runner : job[v] = e => v = w
      BY <1>0 DEF SourceInv
    <2>3. \A s \in Socket : About(s, e)' # {} => s = origin[w]
      BY <1>4, <1>5
    <2>4. QED
      BY <2>1, <2>2, <2>3 DEF SourceInv
  <1>8. OrderInv(e)'
    <2>1. \A s \in Socket : \A k \in About(s, e)' : s = origin[w]
      BY <1>4, <1>5
    <2> DEFINE o == origin[w]
    <2>2. ASSUME status[e] \in Terminal, NEW k \in About(o, e)'
          PROVE  toServer'[o][k][2] \notin Statuses
      <3>1. CASE k \in About(o, e)
        BY <1>0, <1>2, <2>2, <3>1 DEF OrderInv
      <3>2. CASE k \notin About(o, e)
        <4>1. intact[o] /\ toServer'[o][k] = <<e, r>>
          BY <1>0, <1>2, <2>2, <3>2
        <4>2. QED
          BY <4>1, <2>2 DEF ToldStatus
      <3>3. QED
        BY <3>1, <3>2
    <2>3. ASSUME NEW j \in About(o, e)', NEW k \in About(o, e)',
                 j < k, toServer'[o][k][2] \in Statuses
          PROVE  toServer'[o][j][2] \notin Terminal
      <3>1. j \in About(o, e)
        <4>1. CASE k \in About(o, e)
          BY <1>0, <1>2, <2>3, <4>1
        <4>2. CASE k \notin About(o, e)
          BY <1>0, <1>2, <2>3, <4>2
        <4>3. QED
          BY <4>1, <4>2
      <3>2. toServer'[o][j] = toServer[o][j] /\ toServer[o][j][1] = e /\ j \in DOMAIN toServer[o]
        BY <1>0, <1>2, <3>1 DEF About
      <3>3. CASE k \in About(o, e)
        BY <1>0, <1>2, <2>3, <3>1, <3>2, <3>3 DEF OrderInv
      <3>4. CASE k \notin About(o, e)
        <4>1. intact[o] /\ r \in Statuses
          BY <1>0, <1>2, <2>3, <3>4
        <4>2. \A x \in Terminal : ~Reported(e, x)
          BY <4>1 DEF ToldStatus
        <4>3. toServer[o] \in Seq(Reports)
          BY <1>0 DEF TypeOK
        <4>4. toServer[o][j] = <<e, toServer[o][j][2]>>
          BY <3>2, <4>3 DEF Reports
        <4>5. QED
          BY <1>0, <3>2, <4>2, <4>4 DEF Reported
      <3>5. QED
        BY <3>3, <3>4
    <2>4. status'[e] = "success" => results'[e] = Node /\ returned'[e] = Node
      <3>1. returned'[e] \subseteq Node
        BY DEF TypeOK
      <3>2. QED
        BY <1>0, <3>1 DEF OrderInv
    <2>5. ASSUME NEW k \in About(o, e)', toServer'[o][k][2] = "success"
          PROVE  /\ returned'[e] = Node
                 /\ \A n \in Node : \/ n \in results'[e]
                                    \/ \E j \in About(o, e)' : j < k /\ toServer'[o][j][2] = n
      <3>1. returned'[e] \subseteq Node
        BY DEF TypeOK
      <3>2. CASE k \in About(o, e)
        <4>1. /\ returned[e] = Node
              /\ \A n \in Node : \/ n \in results[e]
                                 \/ \E j \in About(o, e) : j < k /\ toServer[o][j][2] = n
          BY <1>0, <1>2, <2>5, <3>2 DEF OrderInv
        <4>2. ASSUME NEW n \in Node, n \notin results[e]
              PROVE  \E j \in About(o, e)' : j < k /\ toServer'[o][j][2] = n
          <5>1. PICK j \in About(o, e) : j < k /\ toServer[o][j][2] = n
            BY <4>1, <4>2
          <5>2. j \in About(o, e)' /\ toServer'[o][j] = toServer[o][j]
            BY <1>0, <1>2, <5>1
          <5>3. QED
            BY <5>1, <5>2
        <4>3. QED
          BY <3>1, <4>1, <4>2
      <3>3. CASE k \notin About(o, e)
        <4>1. /\ intact[o] /\ r = "success" /\ \A j \in About(o, e) : j < k
          BY <1>0, <1>2, <2>5, <3>3
        <4>2. returned[e] = Node /\ \A n \in Node : ToldNode(e, n)
          BY <4>1
        <4>3. ASSUME NEW n \in Node, n \notin results[e]
              PROVE  \E j \in About(o, e)' : j < k /\ toServer'[o][j][2] = n
          <5>1. PICK s \in Socket : \E j \in DOMAIN toServer[s] : toServer[s][j] = <<e, n>>
            BY <4>2, <4>3 DEF ToldNode, Reported
          <5>2. PICK j \in DOMAIN toServer[s] : toServer[s][j] = <<e, n>>
            BY <5>1
          <5>3. j \in About(s, e) /\ s = o
            BY <1>5, <5>2 DEF About
          <5>4. QED
            BY <1>0, <1>2, <4>1, <5>2, <5>3
        <4>4. QED
          BY <3>1, <4>2, <4>3
      <3>4. QED
        BY <3>2, <3>3
    <2> HIDE DEF o
    <2>6. QED
      BY <2>1, <2>2, <2>3, <2>4, <2>5 DEF OrderInv, o
  <1>9. ASSUME NEW f \in Execution, f # e PROVE SourceInv(f)' /\ OrderInv(f)'
    <2>1. SourceInv(f) /\ OrderInv(f)
      BY <1>9 DEF RowInv
    <2>2. SourceInv(f)'
      BY <1>3, <1>9, <2>1 DEF SourceInv
    <2>3. \A s \in Socket : \A k \in About(s, f)' : toServer'[s][k] = toServer[s][k]
      BY <1>2, <1>3, <1>9
    <2>4. OrderInv(f)'
      BY <1>3, <1>9, <2>1, <2>3 DEF OrderInv
    <2>5. QED
      BY <2>2, <2>4
  <1>10. ASSUME NEW v \in Runner, v # w PROVE TaskInv(v)'
    <2>1. \A f \in Execution : job[v] = f => f # e
      BY <1>0, <1>10 DEF SourceInv
    <2>2. \A f \in Execution : f # e =>
             /\ \A n \in Node : ToldNode(f, n)' <=> ToldNode(f, n)
             /\ \A x \in Terminal : ToldStatus(f, x)' <=> ToldStatus(f, x)
             /\ ToldFinal(f)' <=> ToldFinal(f)
      BY <1>1 DEF ToldNode, ToldStatus, ToldFinal
    <2>3. TaskInv(v)
      BY <1>10 DEF RowInv
    <2>4. QED
      BY <1>3, <1>10, <2>1, <2>2, <2>3, TaskStays
  <1>11. QED
    BY <1>6, <1>7, <1>8, <1>9, <1>10 DEF RowInv

(* Once the levels are behind it, a task has every node's result reported. *)
LEMMA AllReported ==
  ASSUME RowInv, NEW w \in Runner, NEW e \in Execution, job[w] = e, level[w] > Len(Levels)
  PROVE  returned[e] = Node /\ (intact[origin[w]] => \A n \in Node : ToldNode(e, n))
  <1>1. TypeOK /\ TaskInv(w) /\ ReportInv(w, e)
    BY DEF RowInv, TaskInv
  <1>2. /\ Len(Levels) \in Nat /\ DOMAIN Levels = 1..Len(Levels)
        /\ level[w] \in 1..(Len(Levels) + 1)
    BY <1>1, RunAssumption DEF TypeOK
  <1>3. level[w] - 1 = Len(Levels)
    BY <1>2
  <1>4. \A n \in Node : phase[w][n] = "done"
    BY <1>1, <1>2, <1>3, RunAssumption DEF TaskInv, IsLevelling
  <1>5. returned[e] \subseteq Node
    BY <1>1 DEF TypeOK
  <1>6. QED
    BY <1>1, <1>4, <1>5 DEF ReportInv

LEMMA ReportKeepsRows ==
  ASSUME RowInv, NEW w \in Runner, NEW from \in RunPCs, NEW r \in Sayable, NEW to \in RunPCs,
         Report(w, from, r, to),
         <<from, r, to>> \in {<<"resolve", "failed", "returned">>, <<"start", "running", "level">>,
                              <<"succeed", "success", "finalize">>,
                              <<"finalize", "final", "returned">>, <<"except", "failed", "returned">>}
  PROVE  RowInv'
  <1>1. /\ TypeOK /\ TaskInv(w) /\ pc[w] = from /\ pc' = [pc EXCEPT ![w] = to] /\ pc'[w] = to
        /\ Says(w, r)
        /\ UNCHANGED <<status, results, finalized, gone, job, level, phase, snap, begun, returned, api,
                       target, table, link, peer, overlapped, alive, intact, toAgent, origin, restarts>>
    BY DEF RowInv, TypeOK, Report, Goto, AgentKeeps, rowVars, historyVars, apiVars, serverVars
  <1>2. PICK e \in Execution : job[w] = e
    BY <1>1 DEF TypeOK, TaskInv, RunPCs
  <1>3. /\ toServer' \in [Socket -> Seq(Reports)]
        /\ \A x : Reported(e, x) => Reported(e, x)'
        /\ \A x : Reported(e, x)' => Reported(e, x) \/ x = r
        /\ intact[origin[w]] => Reported(e, r)'
    BY <1>1, <1>2, Said
  <1>4. TypeOK'
    <2>1. ServerTypeOK'
      BY <1>1 DEF TypeOK, ServerTypeOK
    <2>2. pc' \in [Runner -> TaskPCs]
      BY <1>1 DEF TypeOK, TaskPCs, RunPCs
    <2>3. QED
      BY <1>1, <1>3, <2>1, <2>2 DEF TypeOK
  <1>5. ReportInv(w, e)
    BY <1>1, <1>2 DEF TaskInv
  <1>6. from \in {"resolve", "start"} => \A x \in Terminal : ~ToldStatus(e, x)
    <2>1. ASSUME \A s \in Socket : About(s, e) = {} PROVE \A x : ~Reported(e, x)
      BY <2>1 DEF Reported, About
    <2>2. QED
      BY <1>1, <1>5, <2>1 DEF ReportInv, ToldStatus, Terminal
  <1>7. intact[origin[w]] /\ r \in Statuses => \A x \in Terminal : ~ToldStatus(e, x)
    <2>1. "final" \notin Statuses
      BY DEF Statuses
    <2>2. QED
      BY <1>1, <1>5, <1>6, <2>1 DEF ReportInv
  <1>8. intact[origin[w]] /\ r = "success" =>
           returned[e] = Node /\ \A n \in Node : ToldNode(e, n)
    <2>1. r = "success" => level[w] > Len(Levels)
      BY <1>1 DEF TaskInv
    <2>2. QED
      BY <1>2, <2>1, AllReported
  <1>9. ReportInv(w, e)'
    <2>1. \A n \in Node : ToldNode(e, n) => ToldNode(e, n)'
      BY <1>1, <1>3 DEF ToldNode
    <2>2. \A x \in Terminal : ToldStatus(e, x)' => ToldStatus(e, x) \/ x = r
      BY <1>1, <1>3 DEF ToldStatus
    <2>3. \A x : ToldStatus(e, x) => ToldStatus(e, x)'
      BY <1>1, <1>3 DEF ToldStatus
    <2>4. intact[origin[w]] => ToldStatus(e, r)' /\ (r = "final" => ToldFinal(e)')
      BY <1>3 DEF ToldStatus, ToldFinal
    <2>5. \A n \in Node : phase'[w][n] = "done" =>
             n \in returned'[e] /\ (intact'[origin'[w]] => ToldNode(e, n)')
      BY <1>1, <1>5, <2>1 DEF ReportInv
    <2>6. Terminal = {"success", "failed"}
      BY DEF Terminal
    <2>7. CASE to = "level"
      BY <1>1, <1>6, <2>2, <2>5, <2>6, <2>7 DEF ReportInv
    <2>8. CASE to = "finalize"
      BY <1>1, <2>4, <2>5, <2>8 DEF ReportInv
    <2>9. CASE to = "returned" /\ r = "failed"
      <3>1. intact[origin[w]] => ToldStatus(e, "failed")' /\ ~ToldStatus(e, "success")'
        BY <1>7, <2>2, <2>4, <2>6, <2>9 DEF Statuses
      <3>2. QED
        BY <1>1, <2>5, <2>6, <2>9, <3>1 DEF ReportInv
    <2>10. CASE to = "returned" /\ r = "final"
      <3>1. from = "finalize"
        BY <2>10
      <3>2. intact[origin[w]] => ToldStatus(e, "success")' /\ ToldFinal(e)'
        BY <1>1, <1>5, <2>3, <2>4, <2>10, <3>1 DEF ReportInv
      <3>3. QED
        BY <1>1, <2>5, <2>6, <2>10, <3>2 DEF ReportInv
    <2>11. QED
      BY <2>7, <2>8, <2>9, <2>10
  <1>10. TaskInv(w)'
    <2>1. \A f \in Execution : job'[w] = f => f = e
      BY <1>1, <1>2
    <2>2. to # "idle" /\ from # "idle" /\ to \notin {"gather", "succeed"}
      BY DEF RunPCs
    <2>3. QED
      BY <1>1, <1>2, <1>9, <2>1, <2>2 DEF TaskInv
  <1>11. \A v \in Runner : v # w => pc'[v] = pc[v] /\ level'[v] = level[v] /\ phase'[v] = phase[v]
    BY <1>1 DEF TypeOK
  <1>12. QED
    BY <1>1, <1>2, <1>4, <1>7, <1>8, <1>10, <1>11, SaidKeepsRows

LEMMA ResultKeepsRows ==
  ASSUME RowInv, NEW w \in Runner, NEW n \in Node, ReportResult(w, n)
  PROVE  RowInv'
  <1>1. /\ TypeOK /\ TaskInv(w) /\ phase[w][n] = "executing"
        /\ phase' = [phase EXCEPT ![w][n] = "done"] /\ Says(w, n)
        /\ returned' = [returned EXCEPT ![job[w]] = @ \cup {n}]
        /\ UNCHANGED <<status, results, finalized, gone, pc, job, level, snap, begun, api,
                       target, table, link, peer, overlapped, alive, intact, toAgent, origin, restarts>>
    BY DEF RowInv, ReportResult, NodeTask, apiVars, serverVars
  <1>2. PICK e \in Execution : job[w] = e
    BY <1>1 DEF TypeOK, TaskInv
  <1>3. phase \in [Runner -> [Node -> Phases]] /\ returned \in [Execution -> SUBSET Node]
    BY <1>1 DEF TypeOK
  <1>4. /\ phase' \in [Runner -> [Node -> Phases]]
        /\ \A v \in Runner : v # w => phase'[v] = phase[v]
        /\ \A m \in Node : phase'[w][m] = IF m = n THEN "done" ELSE phase[w][m]
    BY <1>1, <1>3 DEF Phases
  <1>5. /\ returned' \in [Execution -> SUBSET Node] /\ returned'[e] = returned[e] \cup {n}
        /\ \A f \in Execution : f # e => returned'[f] = returned[f]
    BY <1>1, <1>2, <1>3
  <1>6. n \in Sayable /\ n \notin Statuses /\ n # "success"
    BY ChannelAssumption DEF Sayable, Statuses
  <1>7. /\ toServer' \in [Socket -> Seq(Reports)]
        /\ \A x : Reported(e, x) => Reported(e, x)'
        /\ \A x : Reported(e, x)' => Reported(e, x) \/ x = n
        /\ intact[origin[w]] => Reported(e, n)'
    BY <1>1, <1>2, <1>6, Said
  <1>8. TypeOK'
    BY <1>1, <1>4, <1>5, <1>7 DEF TypeOK, ServerTypeOK
  <1>9. ReportInv(w, e)'
    <2>1. ReportInv(w, e)
      BY <1>1, <1>2 DEF TaskInv
    <2>2. \A m \in Node : ToldNode(e, m) => ToldNode(e, m)'
      BY <1>1, <1>7 DEF ToldNode
    <2>3. \A x \in Terminal : ToldStatus(e, x)' <=> ToldStatus(e, x)
      <3>1. n \notin Terminal
        BY <1>6 DEF Statuses, Terminal
      <3>2. QED
        BY <1>1, <1>7, <3>1 DEF ToldStatus
    <2>4. ToldFinal(e) => ToldFinal(e)'
      BY <1>1, <1>7 DEF ToldFinal
    <2>5. intact[origin[w]] => ToldNode(e, n)'
      BY <1>7 DEF ToldNode
    <2>6. \A m \in Node : phase'[w][m] = "done" =>
             m \in returned'[e] /\ (intact'[origin'[w]] => ToldNode(e, m)')
      BY <1>1, <1>4, <1>5, <2>1, <2>2, <2>5 DEF ReportInv
    <2>7. pc[w] \notin {"resolve", "start"}
      BY <1>1 DEF TaskInv
    <2>8. "success" \in Terminal
      BY DEF Terminal
    <2>9. QED
      BY <1>1, <2>1, <2>3, <2>4, <2>6, <2>7, <2>8 DEF ReportInv
  <1>10. TaskInv(w)'
    <2>1. \A f \in Execution : job'[w] = f => f = e
      BY <1>1, <1>2
    <2>2. \A k \in 1..(level'[w] - 1) : \A m \in Levels[k] : phase'[w][m] = "done"
      <3>1. Len(Levels) \in Nat /\ level[w] \in 1..(Len(Levels) + 1) /\ DOMAIN Levels = 1..Len(Levels)
        BY <1>1, RunAssumption DEF TypeOK
      <3>2. \A k \in 1..(level[w] - 1) : \A m \in Levels[k] : m \in Node /\ phase[w][m] = "done"
        BY <1>1, <3>1, RunAssumption DEF TaskInv, IsLevelling
      <3>3. QED
        BY <1>1, <1>4, <3>2
    <2>3. e # None
      BY RunAssumption
    <2>4. QED
      BY <1>1, <1>2, <1>9, <2>1, <2>2, <2>3 DEF TaskInv
  <1>11. QED
    BY <1>1, <1>2, <1>4, <1>5, <1>6, <1>8, <1>10, SaidKeepsRows

LEMMA RowInvKept == RowInv /\ [Next]_vars => RowInv'
  <1> SUFFICES ASSUME RowInv, [Next]_vars PROVE RowInv'
    OBVIOUS
  <1>1. ASSUME NEW e \in Execution, ApiStep(e) PROVE RowInv'
    BY <1>1, ApiKeepsRows
  <1>2. ASSUME NEW s \in Socket, NEW a \in Agent, Connect(s, a) PROVE RowInv'
    BY <1>2, ConnectKeepsRows
  <1>3. ASSUME NEW s \in Socket, ServerStep(s) PROVE RowInv'
    BY <1>3, AcceptKeepsRows, ReceiveKeepsRows, TearsDown DEF ServerStep, FrameFails, Disconnected
  <1>4. ASSUME NEW s \in Socket, Breaks(s) \/ AgentStops(s) PROVE RowInv'
    BY <1>4, BreakKeepsRows, AgentStopsKeepsRows
  <1>5. ASSUME NEW w \in Runner, TaskStep(w) PROVE RowInv'
    <2>1. pc[w] # "idle"
      BY <1>5 DEF TaskStep
    <2>2. CASE DecryptFails(w) \/ ReportRunning(w) \/ ReportSuccess(w) \/ ReportFinal(w) \/ ReportFailed(w)
      <3>1. /\ \A p \in {"resolve", "start", "succeed", "finalize", "except", "level", "returned"} : p \in RunPCs
            /\ \A r \in {"failed", "running", "success", "final"} : r \in Sayable
        BY DEF RunPCs, Sayable
      <3>2. QED
        BY <2>2, <3>1, ReportKeepsRows DEF DecryptFails, ReportRunning, ReportSuccess, ReportFinal, ReportFailed
    <2>3. CASE Decrypt(w) \/ ReportRaises(w)
      BY <2>1, <2>3, SilencesKeepRows
    <2>4. CASE RunLevels(w)
      BY <2>1, <2>4, LevelsKeepRows
    <2>5. QED
      BY <1>5, <2>2, <2>3, <2>4 DEF TaskStep
  <1>6. ASSUME NEW w \in Runner, ReportNode(w) PROVE RowInv'
    BY <1>6, ResultKeepsRows, NodeRaisesKeepsRows DEF ReportNode
  <1>7. ASSUME NEW w \in Runner, TakeExecute(w) PROVE RowInv'
    BY <1>7, TakeKeepsRows
  <1>8. CASE Restart
    BY <1>8, RestartKeepsRows
  <1>9. CASE UNCHANGED vars
    <2>1. UNCHANGED <<status, results, finalized, gone, pc, job, level, phase, snap, begun, returned,
                      api, target, table, link, peer, overlapped, alive, intact, toAgent, toServer,
                      origin, restarts>>
      BY <1>9 DEF vars, wrVars, rowVars, runVars, historyVars, apiVars, serverVars, wireVars
    <2>2. TypeOK'
      BY <2>1 DEF RowInv, TypeOK, ServerTypeOK
    <2>3. UNCHANGED <<wrVars, origin>>
      BY <2>1 DEF wrVars, rowVars, runVars, historyVars
    <2>4. QED
      BY <2>1, <2>2, <2>3, Loses
  <1>10. QED
    BY <1>1, <1>2, <1>3, <1>4, <1>5, <1>6, <1>7, <1>8, <1>9 DEF Next

LEMMA Rows == Spec => []RowInv
  BY RowInvStarts, RowInvKept, PTL DEF Spec

(* Every variable of the agent path stays in its range, whatever breaks,   *)
(* fails or starts again.                                                  *)
THEOREM AgentTypes == Spec => []TypeOK
  <1>1. RowInv => TypeOK
    BY DEF RowInv
  <1>2. QED
    BY <1>1, Rows, PTL

(* However connections break, agents die and the server restarts: a row    *)
(* that says success has every node's result, and on a connection that     *)
(* holds a task that is over has settled its row once nothing is under way. *)
THEOREM RowsKeepPace == Spec => []RowComplete
  <1>1. RowInv => SuccessComplete
    BY DEF RowInv, OrderInv, SuccessComplete
  <1>2. RowInv => RowCatchesUp
    <2> SUFFICES ASSUME RowInv, NEW w \in Runner, pc[w] = "returned", intact[origin[w]],
                        \A k \in DOMAIN toServer[origin[w]] : toServer[origin[w]][k][1] # job[w]
                 PROVE  /\ status[job[w]] \in Terminal
                        /\ status[job[w]] = "success" => finalized[job[w]]
      BY DEF RowCatchesUp
    <2>1. TypeOK /\ TaskInv(w)
      BY DEF RowInv
    <2>2. PICK e \in Execution : job[w] = e
      BY <2>1 DEF TypeOK, TaskInv
    <2>3. ReportInv(w, e)
      BY <2>1, <2>2 DEF TaskInv
    <2>4. \A r : ~Reported(e, r)
      <3>1. \A s \in Socket : About(s, e) # {} => s = origin[w]
        BY <2>2 DEF RowInv, SourceInv
      <3>2. About(origin[w], e) = {}
        BY <2>2 DEF About
      <3>3. QED
        BY <3>1, <3>2 DEF Reported, About
    <2>5. QED
      BY <2>2, <2>3, <2>4 DEF ReportInv, ToldStatus, ToldFinal
  <1>3. QED
    BY <1>1, <1>2, Rows, PTL DEF RowComplete

(* No report moves a final status, however late it is read.                *)
THEOREM FinalStatusStays == Spec => FinalStays
  <1> DEFINE Stays == \A e \in Execution : status[e] \in Terminal => status'[e] = status[e]
  <1>1. RowInv /\ [Next]_vars => Stays
    <2> SUFFICES ASSUME RowInv, [Next]_vars, NEW e \in Execution, status[e] \in Terminal
                 PROVE  status'[e] = status[e]
      OBVIOUS
    <2>1. CASE UNCHANGED status
      BY <2>1
    <2>2. ASSUME NEW f \in Execution, ApiStep(f) PROVE status'[e] = status[e]
      <3>1. api[f] # "answered"
        BY <2>2 DEF ApiStep, Request, PickAgent, NoAgent, Encrypt, SendExecute, Refuse, ApiGoto
      <3>2. status[f] \notin Terminal
        BY <3>1 DEF RowInv, SourceInv, Terminal
      <3>3. QED
        BY <2>2, <3>2 DEF RowInv, TypeOK, ApiStep, Request, PickAgent, NoAgent, Encrypt, SendExecute, Refuse
    <2>3. ASSUME NEW s \in Socket, Receive(s) PROVE status'[e] = status[e]
      <3> DEFINE q == toServer[s]
      <3>1. /\ q \in Seq(Reports) /\ q # <<>> /\ Apply(Head(q)[1], Head(q)[2])
            /\ status \in [Execution -> Statuses]
        BY <2>3 DEF Receive, RowInv, TypeOK
      <3>2. Head(q) = q[1] /\ 1 \in DOMAIN q /\ q[1][1] \in Execution
        BY <3>1 DEF Reports
      <3>3. q[1][1] = e => q[1][2] \notin Statuses
        BY <3>2 DEF RowInv, OrderInv, About
      <3> HIDE DEF q
      <3>4. QED
        BY <3>1, <3>2, <3>3 DEF Apply
    <2>4. QED
      <3>1. ASSUME NEW w \in Runner, TakeExecute(w) \/ TaskStep(w) \/ ReportNode(w) PROVE UNCHANGED status
        <4>1. CASE TakeExecute(w)
          BY <4>1 DEF TakeExecute, AgentKeeps, rowVars
        <4>2. CASE TaskStep(w)
          BY <4>2 DEF TaskStep, Decrypt, DecryptFails, ReportRunning, RunLevels, ReportSuccess,
                      ReportFinal, ReportFailed, ReportRaises, Report, Quietly, AgentKeeps, rowVars
        <4>3. CASE ReportNode(w)
          BY <4>3 DEF ReportNode, ReportResult, NodeRaises, HandlerRaises, NodeTask
        <4>4. QED
          BY <3>1, <4>1, <4>2, <4>3
      <3>2. ASSUME NEW s \in Socket, NEW a \in Agent, Connect(s, a) PROVE UNCHANGED status
        BY <3>2 DEF Connect, wrVars, rowVars
      <3>3. ASSUME NEW s \in Socket,
                   Accept(s) \/ FrameFails(s) \/ Disconnected(s) \/ Breaks(s) \/ AgentStops(s)
            PROVE  UNCHANGED status
        BY <3>3 DEF Accept, FrameFails, Disconnected, Teardown, Breaks, AgentStops, wrVars, rowVars
      <3>4. CASE Restart \/ UNCHANGED vars
        BY <3>4 DEF Restart, vars, wrVars, rowVars
      <3>5. QED
        BY <2>1, <2>2, <2>3, <3>1, <3>2, <3>3, <3>4 DEF Next, ServerStep
  <1>2. QED
    BY <1>1, Rows, PTL DEF Spec, FinalStays

=============================================================================
