------------------------- MODULE WorkflowStoreProofs -------------------------
(***************************************************************************)
(* Proofs about WorkflowStore: the revision log of every workflow stays    *)
(* numbered 1, 2, 3, ... with parents that point backwards, and has every  *)
(* save that was acknowledged, for any number of workflows, requests in    *)
(* flight, restarts and failing calls; and about WebhookCalls: what a call *)
(* is told was so, for any number of calls under way with them.            *)
(***************************************************************************)
EXTENDS WebhookCalls, FiniteSetTheorems, TLAPS

(* The initial state: nothing exists, nothing is in flight. *)
LEMMA Initially == Init => IInv
<1> SUFFICES ASSUME Init PROVE IInv
  OBVIOUS
<1>1. TypeOK
  BY StoreAssumption DEF Init, TypeOK, Replies
<1>2. \A r \in Request : pc[r] \in Calls => Ready(r)
  BY DEF Init, Calls
<1>3. \A w \in Workflow : Contiguous(w)
  <2> TAKE w \in Workflow
  <2>1. revisions[w] = {}
    BY DEF Init
  <2>2. Numbers(w) = 1..0
    BY <2>1 DEF Numbers
  <2> QED
    BY <2>1, <2>2 DEF Contiguous
<1>4. ParentOlder
  BY DEF Init, ParentOlder
<1> QED
  BY <1>1, <1>2, <1>3, <1>4 DEF IInv

(* MAX(revision_no) is the length of the log. *)
LEMMA HighestIsLength ==
    ASSUME NEW w \in Workflow, TypeOK, Contiguous(w)
    PROVE  Highest(w) \in Nat /\ Numbers(w) = 1..Highest(w)
<1>1. PICK n \in Nat : Numbers(w) = 1..n
  BY DEF Contiguous
<1>2. CASE revisions[w] = {}
  <2>1. Numbers(w) = {} /\ Highest(w) = 0
    BY <1>2 DEF Numbers, Highest
  <2>2. 1..0 = {}
    OBVIOUS
  <2> QED
    BY <2>1, <2>2
<1>3. CASE revisions[w] # {}
  <2>1. n \in Numbers(w) /\ \A m \in Numbers(w) : m <= n
    <3>1. Numbers(w) # {}
      BY <1>3 DEF Numbers
    <3> QED
      BY <1>1, <3>1
  <2>2. \A k \in Numbers(w) : (\A m \in Numbers(w) : m <= k) => k = n
    BY <1>1, <2>1
  <2>3. Highest(w) = n
    BY <1>3, <2>1, <2>2 DEF Highest
  <2> QED
    BY <1>1, <2>3
<1> QED
  BY <1>2, <1>3

(* A step that leaves row and log alone, and only requests' own state of   *)
(* requests outside their calls, disturbs no request that is under way.    *)
LEMMA ReadyKept ==
    ASSUME NEW r \in Request, Ready(r),
           pc'[r] = pc[r], op'[r] = op[r], on'[r] = on[r], copy'[r] = copy[r],
           loaded'[r] = loaded[r], parent'[r] = parent[r], next'[r] = next[r],
           \A w \in Workflow : row[w] # None => row'[w] # None,
           \A w \in Workflow : Numbers(w) \subseteq Numbers(w)'
    PROVE  Ready(r)'
BY DEF Ready

(* The log is untouched. *)
LEMMA LogKept ==
    ASSUME \A w \in Workflow : Contiguous(w), ParentOlder, revisions' = revisions
    PROVE  (\A w \in Workflow : Contiguous(w))' /\ ParentOlder'
BY DEF Contiguous, ParentOlder, Numbers

(* Accepting a request, whatever it asks for. *)
LEMMA HandleKeeps ==
    ASSUME NEW r \in Request, NEW w \in Workflow, IInv, Handle(r, w)
    PROVE  IInv'
<1> USE DEF IInv
<1>1. /\ pc[r] = "idle" /\ on' = [on EXCEPT ![r] = w]
      /\ op' \in [Request -> Operations \cup {None}]
      /\ \A q \in Request \ {r} : op'[q] = op[q]
      /\ loaded' = loaded /\ parent' = parent /\ next' = next /\ revisions' = revisions
      /\ bindings' = bindings /\ row' = row /\ restarts' = restarts
  BY DEF Handle, Create, Update, SoftDelete, FindActive, Activate, Deactivate, Register, Unregister,
         Accept, TypeOK, Operations
<1>2. jobs' \in [Workflow -> Nat]
  BY DEF Handle, Create, Update, SoftDelete, FindActive, RefuseInactive, Activate, Deactivate,
         Register, Unregister, Accept, Refuse, Proceed, TypeOK
<1>3. ASSUME row[w] # None
      PROVE  /\ row[w] \in Row
             /\ [row[w] EXCEPT !.graph = r, !.settings = NoSettings] \in Row
             /\ [row[w] EXCEPT !.active = FALSE] \in Row
             /\ [row[w] EXCEPT !.settings.trigger = r] \in Row
             /\ [row[w] EXCEPT !.settings.trigger = None] \in Row
  <2>1. row[w] \in Row
    BY <1>3 DEF TypeOK
  <2>2. NoSettings \in Settings
    BY DEF NoSettings, Settings
  <2> QED
    BY <2>1, <2>2 DEF Row, Settings
<1>4. [graph |-> r, settings |-> NoSettings, active |-> TRUE] \in Row
  BY DEF Row, Settings, NoSettings
<1>5. ASSUME NEW code \in Replies, Refuse(r, code)
      PROVE  /\ pc' = [pc EXCEPT ![r] = "done"] /\ reply' \in [Request -> Replies] /\ copy' = copy
  BY <1>5 DEF Refuse, Answer, TypeOK
<1>6. ASSUME NEW dto \in Row, NEW stage \in {"save", "hook"}, Proceed(r, dto, stage)
      PROVE  /\ pc' = [pc EXCEPT ![r] = stage] /\ reply' = reply
             /\ copy' = [copy EXCEPT ![r] = dto] /\ dto # None
  BY <1>6, StoreAssumption DEF Proceed
<1> DEFINE Refused == /\ pc' = [pc EXCEPT ![r] = "done"] /\ reply' \in [Request -> Replies] /\ copy' = copy
           Going(stage) == /\ pc' = [pc EXCEPT ![r] = stage] /\ reply' = reply
                          /\ copy' \in [Request -> Row \cup {None}]
                          /\ copy'[r] # None /\ \A q \in Request \ {r} : copy'[q] = copy[q]
<1> HIDE DEF IInv
<1>6a. copy \in [Request -> Row \cup {None}]
  BY DEF IInv, TypeOK
<1>7. Refused \/ Going("save") \/ (Going("hook") /\ (op'[r] = "unregister" => row[w] # None))
  <2>1. ASSUME NEW dto \in Row, NEW stage \in {"save", "hook"}, Proceed(r, dto, stage) PROVE Going(stage)
    BY <2>1, <1>6, <1>6a
  <2>2. ASSUME NEW code \in {"403", "404", "409", "ok"}, Refuse(r, code) PROVE Refused
    BY <2>2, <1>5 DEF Replies
  <2>3. w \in ActiveWorkflows => row[w] # None
    BY DEF ActiveWorkflows
  <2>4. RefuseInactive(r, w) => Refused
    BY <2>2 DEF RefuseInactive
  <2>5. CASE Create(r, w)
    BY <2>5, <1>4, <2>1, <2>2 DEF Create
  <2>6. CASE Update(r, w)
    BY <2>6, <1>3, <2>1, <2>2, <2>3 DEF Update, FindActive
  <2>7. CASE SoftDelete(r, w)
    BY <2>7, <1>3, <2>1, <2>2, <2>3 DEF SoftDelete, FindActive
  <2>8. CASE Activate(r, w)
    BY <2>8, <1>3, <2>1, <2>3, <2>4 DEF Activate
  <2>9. CASE Deactivate(r, w)
    BY <2>9, <1>3, <2>1, <2>3, <2>4 DEF Deactivate
  <2>10. CASE Register(r, w)
    <3>1. op'[r] = "register"
      BY <2>10 DEF Register, Accept, IInv, TypeOK
    <3> QED
      BY <3>1, <2>10, <1>3, <2>1, <2>3, <2>4 DEF Register
  <2>11. CASE Unregister(r, w)
    BY <2>11, <1>3, <2>1, <2>2 DEF Unregister
  <2> QED
    BY <2>5, <2>6, <2>7, <2>8, <2>9, <2>10, <2>11 DEF Handle
<1>8. TypeOK'
  <2>1. TypeOK
    BY DEF IInv
  <2>2. on' \in [Request -> Workflow \cup {None}]
    BY <1>1, <2>1 DEF TypeOK
  <2>3. pc' \in [Request -> Calls \cup {"idle", "done"}] /\ reply' \in [Request -> Replies]
        /\ copy' \in [Request -> Row \cup {None}]
    BY <1>7, <2>1 DEF TypeOK, Calls
  <2>4. mixed' \in BOOLEAN
    BY DEF Handle, Create, Update, SoftDelete, FindActive, Activate, Deactivate, Register, Unregister, Accept
  <2> QED
    BY <1>1, <1>2, <2>1, <2>2, <2>3, <2>4 DEF TypeOK
<1>9. ASSUME NEW q \in Request, pc'[q] \in Calls PROVE Ready(q)'
  <2>1. CASE q # r
    <3>1. pc'[q] = pc[q] /\ on'[q] = on[q] /\ copy'[q] = copy[q]
      BY <1>1, <1>7, <2>1 DEF IInv, TypeOK
    <3>2. \A v \in Workflow : Numbers(v)' = Numbers(v)
      BY <1>1 DEF Numbers
    <3> QED
      BY <1>1, <1>9, <2>1, <3>1, <3>2, ReadyKept DEF IInv
  <2>2. CASE q = r
    <3>1. on'[r] = w /\ row' = row
      BY <1>1 DEF IInv, TypeOK
    <3>2. pc \in [Request -> Calls \cup {"idle", "done"}]
      BY DEF IInv, TypeOK
    <3>3. (pc'[r] = "save" \/ (pc'[r] = "hook" /\ (op'[r] = "unregister" => row[w] # None))) /\ copy'[r] # None
      BY <1>7, <1>9, <2>2, <3>2 DEF Calls
    <3> QED
      BY <2>2, <3>1, <3>3 DEF Ready
  <2> QED
    BY <2>1, <2>2
<1>10. (\A v \in Workflow : Contiguous(v))' /\ ParentOlder'
  BY <1>1, LogKept DEF IInv
<1> QED
  BY <1>8, <1>9, <1>10 DEF IInv

-----------------------------------------------------------------------------
(* Steps of a request that is under way.                                   *)

(* Only r moves, and the log is as it was. *)
LEMMA QuietStepKeeps ==
    ASSUME NEW r \in Request, IInv, TypeOK',
           revisions' = revisions, op' = op, on' = on,
           \A w \in Workflow : row[w] # None => row'[w] # None,
           \A q \in Request \ {r} :
               /\ pc'[q] = pc[q] /\ copy'[q] = copy[q] /\ loaded'[q] = loaded[q]
               /\ parent'[q] = parent[q] /\ next'[q] = next[q],
           pc'[r] \in Calls => Ready(r)'
    PROVE  IInv'
<1>1. (\A w \in Workflow : Contiguous(w))' /\ ParentOlder'
  BY LogKept DEF IInv
<1>2. ASSUME NEW q \in Request, pc'[q] \in Calls PROVE Ready(q)'
  <2>1. CASE q = r
    BY <1>2, <2>1
  <2>2. CASE q # r
    <3>1. \A w \in Workflow : Numbers(w)' = Numbers(w)
      BY DEF Numbers
    <3>2. pc[q] \in Calls /\ Ready(q)
      BY <1>2, <2>2 DEF IInv
    <3> QED
      BY <1>2, <2>2, <3>1, <3>2, ReadyKept
  <2> QED
    BY <2>1, <2>2
<1> QED
  BY <1>1, <1>2 DEF IInv

LEMMA HookCallKeeps ==
    ASSUME NEW r \in Request, IInv, HookCall(r)
    PROVE  IInv'
<1>1. pc[r] = "hook" /\ Ready(r) /\ TypeOK
  BY DEF HookCall, Goto, IInv, Calls
<1>2. copy[r] \in Row
  BY <1>1 DEF Ready, TypeOK
<1>3. [copy[r] EXCEPT !.settings.path = r] \in Row /\ [copy[r] EXCEPT !.settings.path = None] \in Row
  BY <1>2 DEF Row, Settings
<1>4. /\ bindings' \in [Workflow -> SUBSET Request]
      /\ \E dto \in Row : copy' = [copy EXCEPT ![r] = dto]
  BY SMTT(30), <1>1, <1>3 DEF HookCall, TypeOK
<1>5. /\ copy' \in [Request -> Row \cup {None}] /\ copy'[r] # None
      /\ \A q \in Request \ {r} : copy'[q] = copy[q]
  BY <1>1, <1>4, StoreAssumption DEF TypeOK
<1>6. pc' = [pc EXCEPT ![r] = "save"]
  BY DEF HookCall, Goto
<1>7. TypeOK'
  BY <1>1, <1>4, <1>5, <1>6 DEF HookCall, TypeOK, Calls
<1>8. Ready(r)'
  BY <1>1, <1>5, <1>6 DEF HookCall, Ready, TypeOK
<1> QED
  BY <1>1, <1>5, <1>6, <1>7, <1>8, QuietStepKeeps DEF HookCall, TypeOK

LEMMA SaveReadsKeeps ==
    ASSUME NEW r \in Request, IInv, SaveReads(r)
    PROVE  IInv'
<1>1. pc[r] = "save" /\ Ready(r) /\ TypeOK
  BY DEF SaveReads, Goto, IInv, Calls
<1>2. /\ pc' = [pc EXCEPT ![r] = "commit"] /\ loaded' = [loaded EXCEPT ![r] = row[on[r]]]
      /\ row' = row /\ revisions' = revisions /\ op' = op /\ on' = on /\ copy' = copy
      /\ parent' = parent /\ next' = next
  BY DEF SaveReads, Goto
<1>3. TypeOK'
  BY <1>1, <1>2 DEF SaveReads, TypeOK, Calls, Ready
<1>4. Ready(r)'
  BY <1>1, <1>2 DEF Ready, TypeOK
<1> QED
  BY <1>1, <1>2, <1>3, <1>4, QuietStepKeeps DEF TypeOK

LEMMA MergedIsRow ==
    ASSUME NEW now \in Row \cup {None}, NEW read \in Row \cup {None}, NEW dto \in Row,
           read # None => now # None
    PROVE  Merged(now, read, dto) \in Row
BY DEF Merged, Row

LEMMA SaveCommitsKeeps ==
    ASSUME NEW r \in Request, IInv, SaveCommits(r)
    PROVE  IInv'
<1>1. pc[r] = "commit" /\ Ready(r) /\ TypeOK
  BY DEF SaveCommits, IInv, Calls
<1>2. /\ row' = [row EXCEPT ![on[r]] = Merged(row[on[r]], loaded[r], copy[r])]
      /\ revisions' = revisions /\ op' = op /\ on' = on /\ copy' = copy /\ loaded' = loaded
      /\ parent' = parent /\ next' = next
      /\ pc' = [pc EXCEPT ![r] = "head"] \/ pc' = [pc EXCEPT ![r] = "done"]
      /\ reply' \in [Request -> Replies]
  BY <1>1 DEF SaveCommits, Goto, Answer, TypeOK, Replies
<1>3. on[r] \in Workflow /\ Merged(row[on[r]], loaded[r], copy[r]) \in Row
  BY <1>1, MergedIsRow DEF Ready, TypeOK
<1>4. row' \in [Workflow -> Row \cup {None}] /\ row'[on[r]] # None
      /\ \A w \in Workflow : row[w] # None => row'[w] # None
  BY <1>1, <1>2, <1>3, StoreAssumption DEF TypeOK
<1>5. TypeOK'
  BY <1>1, <1>2, <1>4 DEF SaveCommits, TypeOK, Calls
<1>6. pc'[r] \in Calls => Ready(r)'
  BY <1>1, <1>2, <1>3, <1>4 DEF Ready, TypeOK, Calls
<1> QED
  BY <1>1, <1>2, <1>4, <1>5, <1>6, QuietStepKeeps DEF TypeOK

LEMMA ReadHeadKeeps ==
    ASSUME NEW r \in Request, IInv, ReadHead(r)
    PROVE  IInv'
<1>1. pc[r] = "head" /\ Ready(r) /\ TypeOK /\ on[r] \in Workflow
  BY DEF ReadHead, Goto, IInv, Calls, Ready
<1>2. Highest(on[r]) \in Nat /\ Numbers(on[r]) = 1..Highest(on[r])
  BY <1>1, HighestIsLength DEF IInv
<1>3. /\ pc' = [pc EXCEPT ![r] = "number"] /\ parent' = [parent EXCEPT ![r] = Highest(on[r])]
      /\ row' = row /\ revisions' = revisions /\ op' = op /\ on' = on /\ copy' = copy
      /\ loaded' = loaded /\ next' = next
  BY DEF ReadHead, Goto
<1>4. TypeOK'
  BY <1>1, <1>2, <1>3 DEF ReadHead, TypeOK, Calls
<1>5. Numbers(on[r])' = Numbers(on[r]) /\ Highest(on[r]) \in Numbers(on[r]) \cup {0}
  BY <1>2, <1>3 DEF Numbers
<1>6. Ready(r)'
  BY <1>1, <1>3, <1>5 DEF Ready, TypeOK
<1> QED
  BY <1>1, <1>3, <1>4, <1>6, QuietStepKeeps DEF TypeOK

LEMMA ReadNumberKeeps ==
    ASSUME NEW r \in Request, IInv, ReadNumber(r)
    PROVE  IInv'
<1>1. pc[r] = "number" /\ Ready(r) /\ TypeOK /\ on[r] \in Workflow
  BY DEF ReadNumber, Goto, IInv, Calls, Ready
<1>2. Highest(on[r]) \in Nat /\ Numbers(on[r]) = 1..Highest(on[r])
  BY <1>1, HighestIsLength DEF IInv
<1>3. /\ pc' = [pc EXCEPT ![r] = "insert"] /\ next' = [next EXCEPT ![r] = Highest(on[r]) + 1]
      /\ row' = row /\ revisions' = revisions /\ op' = op /\ on' = on /\ copy' = copy
      /\ loaded' = loaded /\ parent' = parent
  BY DEF ReadNumber, Goto
<1>4. TypeOK'
  BY <1>1, <1>2, <1>3 DEF ReadNumber, TypeOK, Calls
<1>5. Numbers(on[r])' = Numbers(on[r]) /\ Highest(on[r]) \in Numbers(on[r]) \cup {0}
  BY <1>2, <1>3 DEF Numbers
<1>6. parent[r] \in Numbers(on[r]) \cup {0} /\ parent[r] < Highest(on[r]) + 1
  BY <1>1, <1>2 DEF Ready
<1>7. Ready(r)'
  BY <1>1, <1>3, <1>5, <1>6 DEF Ready, TypeOK
<1> QED
  BY <1>1, <1>3, <1>4, <1>7, QuietStepKeeps DEF TypeOK

(* The insert either fails on the constraint or extends the log by one. *)
LEMMA InsertKeeps ==
    ASSUME NEW r \in Request, IInv, Insert(r)
    PROVE  IInv'
<1> DEFINE w == on[r]
<1>1. pc[r] = "insert" /\ Ready(r) /\ TypeOK /\ w \in Workflow
  BY DEF Insert, IInv, Calls, Ready
<1>2. /\ pc' = [pc EXCEPT ![r] = "done"] /\ reply' \in [Request -> Replies]
      /\ row' = row /\ op' = op /\ on' = on /\ copy' = copy /\ bindings' = bindings /\ jobs' = jobs
      /\ loaded' = loaded /\ parent' = parent /\ next' = next /\ restarts' = restarts /\ mixed' = mixed
  BY <1>1 DEF Insert, Answer, TypeOK, Replies
<1>3. CASE revisions' = revisions
  <2>1. TypeOK'
    BY <1>1, <1>2, <1>3 DEF TypeOK, Calls
  <2>2. pc'[r] \notin Calls
    BY <1>1, <1>2 DEF TypeOK, Calls
  <2> QED
    BY <1>1, <1>2, <1>3, <2>1, <2>2, QuietStepKeeps DEF TypeOK
<1>4. CASE /\ next[r] \notin Numbers(w)
           /\ revisions' = [revisions EXCEPT ![w] = @ \cup {Revision(r)}]
  <2>1. PICK n \in Nat : Numbers(w) = 1..n
    BY <1>1 DEF IInv, Contiguous
  <2>2. next[r] = n + 1 /\ parent[r] \in 0..n
    BY <1>1, <1>4, <2>1 DEF Ready
  <2>3. /\ Revision(r).no = n + 1 /\ Revision(r).parent = parent[r]
        /\ Revision(r) \in [no : Nat, parent : Nat, graph : Request]
    BY <1>1, <2>2 DEF Revision, Ready, TypeOK, Row
  <2>4. revisions'[w] = revisions[w] \cup {Revision(r)}
        /\ \A v \in Workflow \ {w} : revisions'[v] = revisions[v]
    BY <1>1, <1>4 DEF TypeOK
  <2>5. Numbers(w)' = 1..(n + 1)
    <3>1. Numbers(w)' = Numbers(w) \cup {n + 1}
      BY <2>3, <2>4, <1>2 DEF Numbers
    <3> QED
      BY <2>1, <3>1
  <2>6. \A v \in Workflow \ {w} : Numbers(v)' = Numbers(v)
    BY <2>4 DEF Numbers
  <2>7. TypeOK'
    BY <1>1, <1>2, <1>4, <2>3 DEF TypeOK, Calls
  <2>8. \A v \in Workflow : Numbers(v) \subseteq Numbers(v)'
    BY <1>2, <2>1, <2>5, <2>6
  <2>9. ASSUME NEW q \in Request, pc'[q] \in Calls PROVE Ready(q)'
    <3>1. q # r /\ pc'[q] = pc[q]
      BY <1>1, <1>2, <2>9 DEF TypeOK, Calls
    <3>2. Ready(q)
      BY <2>9, <3>1 DEF IInv
    <3> QED
      BY <1>2, <2>8, <3>1, <3>2, ReadyKept
  <2>10. ASSUME NEW v \in Workflow PROVE Contiguous(v)'
    <3>1. CASE v # w
      BY <2>4, <2>6, <2>10, <3>1 DEF IInv, Contiguous
    <3>2. CASE v = w
      <4>1. \A x \in revisions[w] : x.no \in Numbers(w)
        BY DEF Numbers
      <4>2. \A x \in revisions[w] : x.no # n + 1
        BY <2>1, <4>1
      <4>3. \A x, y \in revisions[w] : x.no = y.no => x = y
        BY <1>1 DEF IInv, Contiguous
      <4>4. \A x, y \in revisions'[w] : x.no = y.no => x = y
        BY <2>3, <2>4, <4>2, <4>3
      <4>5. n + 1 \in Nat
        OBVIOUS
      <4> QED
        BY <1>2, <2>5, <3>2, <4>4, <4>5 DEF Contiguous
    <3> QED
      BY <3>1, <3>2
  <2>11. ParentOlder'
    <3> SUFFICES ASSUME NEW v \in Workflow, NEW x \in revisions'[v]
                 PROVE  x.parent < x.no /\ x.parent \in Numbers(v)' \cup {0}
      BY DEF ParentOlder
    <3>1. CASE x \in revisions[v]
      BY <2>8, <3>1 DEF IInv, ParentOlder
    <3>2. CASE v = w /\ x = Revision(r)
      BY <1>2, <2>2, <2>3, <2>5, <3>2
    <3> QED
      BY <2>4, <3>1, <3>2
  <2> QED
    BY <2>7, <2>9, <2>10, <2>11 DEF IInv
<1> QED
  BY <1>3, <1>4 DEF Insert

LEMMA CallFailsKeeps ==
    ASSUME NEW r \in Request, IInv, CallFails(r)
    PROVE  IInv'
<1>1. /\ TypeOK
      /\ pc' = [pc EXCEPT ![r] = "done"] /\ reply' = [reply EXCEPT ![r] = "503"]
      /\ row' = row /\ op' = op /\ on' = on /\ copy' = copy /\ revisions' = revisions
      /\ loaded' = loaded /\ parent' = parent /\ next' = next
  BY DEF CallFails, Answer, IInv
<1>2. TypeOK' /\ pc'[r] \notin Calls
  BY <1>1 DEF CallFails, TypeOK, Calls, Replies
<1> QED
  BY <1>1, <1>2, QuietStepKeeps DEF TypeOK

LEMMA RestartKeeps ==
    ASSUME IInv, Restart
    PROVE  IInv'
<1>1. /\ TypeOK /\ pc' = [r \in Request |-> IF r \in InFlight THEN "done" ELSE pc[r]]
      /\ row' = row /\ op' = op /\ on' = on /\ copy' = copy /\ revisions' = revisions
      /\ loaded' = loaded /\ parent' = parent /\ next' = next /\ reply' = reply
      /\ bindings' = bindings
  BY DEF Restart, IInv
<1>2. TypeOK'
  BY <1>1 DEF Restart, TypeOK
<1>3. \A r \in Request : pc'[r] \notin Calls
  BY <1>1 DEF InFlight, Calls
<1>4. (\A w \in Workflow : Contiguous(w))' /\ ParentOlder'
  BY <1>1, LogKept DEF IInv
<1> QED
  BY <1>2, <1>3, <1>4 DEF IInv

LEMMA Inductive == IInv /\ [Next]_vars => IInv'
<1> SUFFICES ASSUME IInv, [Next]_vars PROVE IInv'
  OBVIOUS
<1>1. ASSUME NEW r \in Request, Continue(r) PROVE IInv'
  BY <1>1, HookCallKeeps, SaveReadsKeeps, SaveCommitsKeeps, ReadHeadKeeps, ReadNumberKeeps,
     InsertKeeps, CallFailsKeeps DEF Continue
<1>2. ASSUME NEW r \in Request, NEW w \in Workflow, Handle(r, w) PROVE IInv'
  BY <1>2, HandleKeeps
<1>3. CASE Restart
  BY <1>3, RestartKeeps
<1>4. CASE UNCHANGED vars
  BY <1>4 DEF vars, requestVars, IInv, TypeOK, Ready, Contiguous, ParentOlder, Numbers
<1> QED
  BY <1>1, <1>2, <1>3, <1>4 DEF Next

LEMMA Invariance == Spec => []IInv
BY Initially, Inductive, PTL DEF Spec

-----------------------------------------------------------------------------
(* Every variable of the store stays in its range. *)
THEOREM StoreTypeCorrect == Spec => []TypeOK
<1>1. IInv => TypeOK
  BY DEF IInv
<1> QED
  BY <1>1, Invariance, PTL

(* MAX + 1 in one transaction, guarded by the UNIQUE constraint, numbers   *)
(* the revisions of a workflow without gap or repetition, although its two *)
(* statements interleave with those of other saves.                        *)
THEOREM RevisionsNumbered == Spec => []RevisionNumbers
<1>1. IInv => RevisionNumbers
  <2> SUFFICES ASSUME IInv, NEW w \in Workflow
               PROVE  /\ \A u, v \in revisions[w] : u.no = v.no => u = v
                      /\ \A v \in revisions[w] : 1..v.no \subseteq Numbers(w)
    BY DEF RevisionNumbers
  <2>1. PICK n \in Nat : Numbers(w) = 1..n
    BY DEF IInv, Contiguous
  <2>2. \A v \in revisions[w] : v.no \in Numbers(w)
    BY DEF Numbers
  <2> QED
    BY <2>1, <2>2 DEF IInv, Contiguous
<1> QED
  BY <1>1, Invariance, PTL

(* Although the parent is looked up in a transaction of its own, links     *)
(* only ever point to older revisions of the same workflow.                *)
THEOREM ParentsAreOlder == Spec => []ParentOlder
<1>1. IInv => ParentOlder
  BY DEF IInv
<1> QED
  BY <1>1, Invariance, PTL

(* The log of every workflow stays sound.                                  *)
THEOREM LogStaysSound == Spec => []LogSound
<1>1. RevisionNumbers /\ ParentOlder => LogSound
  BY DEF LogSound
<1> QED
  BY <1>1, RevisionsNumbered, ParentsAreOlder, PTL

-----------------------------------------------------------------------------
(* What a save has written, and whether it has been told so: until it is   *)
(* done no revision has its graph, and only the insert answers it "ok".    *)
Saves(r) == op[r] \in {"create", "update"}
Recorded(r, w) == {v \in revisions[w] : v.graph = r}

SaveHolds(r) ==
    /\ pc[r] # "done" => reply[r] = "none" /\ \A w \in Workflow : Recorded(r, w) = {}
    /\ pc[r] \in Calls /\ Saves(r) => copy[r].graph = r
    /\ pc[r] \in {"head", "number", "insert"} => Saves(r)
    /\ pc[r] = "done" /\ Saves(r) /\ reply[r] = "ok" =>
           on[r] \in Workflow /\ \E v \in revisions[on[r]] : Recorded(r, on[r]) = {v}

SavesHold == \A r \in Request : SaveHolds(r)

LEMMA SavesStart == Init => SavesHold
BY DEF Init, SavesHold, SaveHolds, Recorded, Calls

(* A step of r that leaves the log alone leaves the others' saves alone.   *)
LEMMA OtherSavesHold ==
    ASSUME NEW r \in Request, SavesHold, revisions' = revisions,
           \A q \in Request \ {r} :
               pc'[q] = pc[q] /\ op'[q] = op[q] /\ on'[q] = on[q] /\ reply'[q] = reply[q]
               /\ copy'[q] = copy[q],
           SaveHolds(r)'
    PROVE  SavesHold'
<1> SUFFICES ASSUME NEW q \in Request PROVE SaveHolds(q)'
  BY DEF SavesHold
<1>1. CASE q = r
  BY <1>1
<1>2. CASE q # r
  BY <1>2 DEF SavesHold, SaveHolds, Saves, Recorded
<1> QED
  BY <1>1, <1>2

LEMMA HandleHoldsSaves ==
    ASSUME IInv, SavesHold, NEW r \in Request, NEW w \in Workflow, Handle(r, w)
    PROVE  SavesHold'
<1>1. pc[r] = "idle" /\ revisions' = revisions /\ on' = [on EXCEPT ![r] = w]
  BY DEF Handle, Create, Update, SoftDelete, Activate, Deactivate, Register, Unregister,
     FindActive, Accept
<1>2. SaveHolds(r) /\ reply[r] = "none" /\ \A v \in Workflow : Recorded(r, v) = {}
  BY <1>1 DEF SavesHold, SaveHolds
<1>3. /\ pc \in [Request -> Calls \cup {"idle", "done"}] /\ op \in [Request -> Operations \cup {None}]
      /\ reply \in [Request -> Replies] /\ copy \in [Request -> Row \cup {None}]
      /\ on \in [Request -> Workflow \cup {None}] /\ row \in [Workflow -> Row \cup {None}]
  BY DEF IInv, TypeOK
<1>4. \A v \in Workflow : Recorded(r, v)' = {}
  BY <1>1, <1>2 DEF Recorded
<1>5. ASSUME NEW code, Refuse(r, code), Accept(r, op'[r], w), Saves(r)' => code # "ok"
      PROVE  SaveHolds(r)'
  BY <1>3, <1>4, <1>5 DEF Refuse, Answer, Accept, SaveHolds, Saves, Calls
<1>6. ASSUME NEW dto, NEW stage \in {"save", "hook"}, Proceed(r, dto, stage), Accept(r, op'[r], w),
             Saves(r)' => dto.graph = r
      PROVE  SaveHolds(r)'
  BY <1>2, <1>3, <1>4, <1>6 DEF Proceed, Accept, SaveHolds, Saves, Calls
<1>7. \A o : Accept(r, o, w) => op'[r] = o
  BY <1>3 DEF Accept
<1>8. RefuseInactive(r, w) => \E code : Refuse(r, code) /\ code # "ok"
  BY DEF RefuseInactive
<1>9. SaveHolds(r)'
  <2>1. CASE Create(r, w)
    BY <2>1, <1>5, <1>6, <1>7 DEF Create
  <2>2. CASE Update(r, w)
    <3>1. w \in ActiveWorkflows => [row[w] EXCEPT !.graph = r, !.settings = NoSettings].graph = r
      BY <1>3 DEF ActiveWorkflows, Row
    <3> QED
      BY <2>2, <3>1, <1>5, <1>6, <1>7 DEF Update, FindActive
  <2>3. CASE SoftDelete(r, w)
    BY <2>3, <1>5, <1>6, <1>7 DEF SoftDelete, FindActive, Saves
  <2>4. CASE Activate(r, w)
    BY <2>4, <1>5, <1>6, <1>7, <1>8 DEF Activate, Saves
  <2>5. CASE Deactivate(r, w)
    BY <2>5, <1>5, <1>6, <1>7, <1>8 DEF Deactivate, Saves
  <2>6. CASE Register(r, w)
    BY <2>6, <1>5, <1>6, <1>7, <1>8 DEF Register, Saves
  <2>7. CASE Unregister(r, w)
    BY <2>7, <1>5, <1>6, <1>7 DEF Unregister, Saves
  <2> QED
    BY <2>1, <2>2, <2>3, <2>4, <2>5, <2>6, <2>7 DEF Handle
<1>10. \A q \in Request \ {r} :
          pc'[q] = pc[q] /\ op'[q] = op[q] /\ on'[q] = on[q] /\ reply'[q] = reply[q] /\ copy'[q] = copy[q]
  BY <1>3 DEF Handle, Create, Update, SoftDelete, Activate, Deactivate, Register, Unregister,
     RefuseInactive, FindActive, Accept, Refuse, Answer, Proceed
<1> QED
  BY <1>1, <1>9, <1>10, OtherSavesHold

(* The calls of a request that do not touch the log. *)
LEMMA CallHoldsSaves ==
    ASSUME IInv, SavesHold, NEW r \in Request,
           HookCall(r) \/ SaveReads(r) \/ SaveCommits(r) \/ ReadHead(r) \/ ReadNumber(r) \/ CallFails(r)
    PROVE  SavesHold'
<1>1. /\ pc \in [Request -> Calls \cup {"idle", "done"}] /\ copy \in [Request -> Row \cup {None}]
      /\ reply \in [Request -> Replies] /\ FailingCalls \subseteq Calls
  BY StoreAssumption DEF IInv, TypeOK, Calls
<1>2. pc[r] \in Calls /\ revisions' = revisions /\ op' = op /\ on' = on
  BY <1>1 DEF HookCall, SaveReads, SaveCommits, ReadHead, ReadNumber, CallFails, Goto, Calls
<1>3. /\ SaveHolds(r) /\ reply[r] = "none" /\ \A w \in Workflow : Recorded(r, w)' = {}
      /\ Saves(r) => copy[r].graph = r
  BY <1>2 DEF SavesHold, SaveHolds, Recorded, Calls
<1>4. Saves(r)' <=> Saves(r)
  BY <1>2 DEF Saves
<1>5. Saves(r) => copy'[r].graph = r
  BY <1>1, <1>3 DEF HookCall, SaveReads, SaveCommits, ReadHead, ReadNumber, CallFails, Saves
<1>6. /\ pc'[r] \in Calls => reply'[r] = "none"
      /\ pc'[r] \in Calls \cup {"done"}
      /\ pc'[r] \in {"head", "number", "insert"} => Saves(r)
      /\ pc'[r] = "done" /\ Saves(r) => reply'[r] # "ok"
  BY <1>1, <1>3 DEF HookCall, SaveReads, SaveCommits, ReadHead, ReadNumber, CallFails, Goto, Answer,
     Calls, Saves, SaveHolds
<1>7. SaveHolds(r)'
  BY <1>3, <1>4, <1>5, <1>6 DEF SaveHolds, Calls
<1>8. \A q \in Request \ {r} :
          pc'[q] = pc[q] /\ op'[q] = op[q] /\ on'[q] = on[q] /\ reply'[q] = reply[q] /\ copy'[q] = copy[q]
  BY <1>1, <1>2 DEF HookCall, SaveReads, SaveCommits, ReadHead, ReadNumber, CallFails, Goto, Answer
<1> QED
  BY <1>2, <1>7, <1>8, OtherSavesHold

LEMMA InsertHoldsSaves ==
    ASSUME IInv, SavesHold, NEW r \in Request, Insert(r)
    PROVE  SavesHold'
<1>1. /\ pc \in [Request -> Calls \cup {"idle", "done"}] /\ reply \in [Request -> Replies]
      /\ revisions \in [Workflow -> SUBSET [no : Nat, parent : Nat, graph : Request]]
  BY DEF IInv, TypeOK
<1>2. /\ pc[r] = "insert" /\ on[r] \in Workflow
      /\ op' = op /\ on' = on /\ copy' = copy
  BY DEF Insert, IInv, Ready, Calls
<1>3. /\ SaveHolds(r) /\ Saves(r) /\ copy[r].graph = r
      /\ \A w \in Workflow : Recorded(r, w) = {}
  BY <1>2 DEF SavesHold, SaveHolds, Calls
<1>4. \A q \in Request \ {r} : pc'[q] = pc[q] /\ reply'[q] = reply[q]
  BY <1>1 DEF Insert, Answer
<1>5. pc'[r] = "done"
  BY <1>1 DEF Insert, Answer
<1>6. CASE revisions' = revisions /\ reply' = [reply EXCEPT ![r] = "503"]
  <2>1. SaveHolds(r)'
    BY <1>1, <1>5, <1>6 DEF SaveHolds, Calls
  <2> QED
    BY <1>2, <1>4, <1>6, <2>1, OtherSavesHold
<1>7. CASE revisions' = [revisions EXCEPT ![on[r]] = @ \cup {Revision(r)}]
  <2>1. Revision(r).graph = r
    BY <1>3 DEF Revision
  <2>2. \A w \in Workflow : revisions'[w] = IF w = on[r] THEN revisions[w] \cup {Revision(r)} ELSE revisions[w]
    BY <1>1, <1>7
  <2>3. \A q \in Request \ {r}, w \in Workflow : Recorded(q, w)' = Recorded(q, w)
    BY <2>1, <2>2 DEF Recorded
  <2>4. Recorded(r, on[r])' = {Revision(r)} /\ Revision(r) \in revisions'[on[r]]
    <3>1. \A v \in revisions[on[r]] : v.graph # r
      BY <1>2, <1>3 DEF Recorded
    <3> QED
      BY <1>2, <2>1, <2>2, <3>1 DEF Recorded
  <2>5. SaveHolds(r)'
    BY <1>2, <1>5, <2>4 DEF SaveHolds, Calls
  <2>6. ASSUME NEW q \in Request \ {r} PROVE SaveHolds(q)'
    <3>1. SaveHolds(q) /\ pc'[q] = pc[q] /\ reply'[q] = reply[q]
      BY <1>4 DEF SavesHold
    <3>2. CASE pc[q] = "done" /\ Saves(q) /\ reply[q] = "ok"
      <4>1. PICK v \in revisions[on[q]] : Recorded(q, on[q]) = {v}
        BY <3>1, <3>2 DEF SaveHolds
      <4>1a. on[q] \in Workflow
        BY <3>1, <3>2 DEF SaveHolds
      <4>2. v \in revisions'[on[q]]
        BY <1>1, <1>7, <4>1, <4>1a
      <4> QED
        BY <1>2, <2>3, <3>1, <3>2, <4>1, <4>1a, <4>2 DEF SaveHolds, Saves
    <3>3. CASE ~(pc[q] = "done" /\ Saves(q) /\ reply[q] = "ok")
      BY <1>2, <2>3, <3>1, <3>3 DEF SaveHolds, Saves, Calls
    <3> QED
      BY <3>2, <3>3
  <2> QED
    BY <2>5, <2>6 DEF SavesHold
<1> QED
  BY <1>6, <1>7 DEF Insert, Answer

LEMMA SavesInductive == IInv /\ SavesHold /\ [Next]_vars => SavesHold'
<1> SUFFICES ASSUME IInv, SavesHold, [Next]_vars PROVE SavesHold'
  OBVIOUS
<1>1. ASSUME NEW r \in Request, Continue(r) PROVE SavesHold'
  BY <1>1, CallHoldsSaves, InsertHoldsSaves DEF Continue
<1>2. CASE Restart
  <2>1. /\ \A q \in Request : pc'[q] = IF pc[q] \in Calls THEN "done" ELSE pc[q]
        /\ op' = op /\ on' = on /\ reply' = reply /\ copy' = copy /\ revisions' = revisions
    BY <1>2 DEF Restart, InFlight
  <2> QED
    BY <2>1 DEF SavesHold, SaveHolds, Saves, Recorded, Calls
<1>3. CASE UNCHANGED vars
  BY <1>3 DEF vars, requestVars, SavesHold, SaveHolds, Saves, Recorded
<1> QED
  BY <1>1, <1>2, <1>3, HandleHoldsSaves DEF Next

(* A create or update that was answered "ok" has its revision in the log,  *)
(* once, whatever other saves raced with its five transactions             *)
(* (WorkflowService.create and update, record_save_revision).              *)
THEOREM AcknowledgedSavesStay == Spec => []AcknowledgedIsRecorded
<1>1. SavesHold => AcknowledgedIsRecorded
  <2> SUFFICES ASSUME SavesHold, NEW r \in Request, Saves(r), reply[r] = "ok"
               PROVE  Cardinality(Recorded(r, on[r])) = 1
    BY DEF AcknowledgedIsRecorded, Saves, Recorded
  <2>1. \E v \in revisions[on[r]] : Recorded(r, on[r]) = {v}
    BY DEF SavesHold, SaveHolds
  <2> QED
    BY <2>1, FS_Singleton
<1>2. Init /\ [][Next]_vars => []SavesHold
  BY SavesStart, SavesInductive, Initially, Inductive, PTL
<1> QED
  BY <1>1, <1>2, PTL DEF Spec

-----------------------------------------------------------------------------
(* Requests that come one after the other.                                 *)

LEMMA LastOfRange ==
    ASSUME NEW n \in Nat, n > 0
    PROVE  (CHOOSE m \in 1..n : \A k \in 1..n : k <= m) = n
<1>1. n \in 1..n /\ \A k \in 1..n : k <= n
  OBVIOUS
<1>2. \A m \in 1..n : (\A k \in 1..n : k <= m) => m = n
  BY <1>1
<1> QED
  BY <1>1, <1>2

(* With nobody in flight, what a request may leave undone is done. *)
LEMMA RestIsWhole ==
    ASSUME NEW w \in Workflow, RestHolds(w), InFlight = {}, row[w] # None
    PROVE  /\ HeadHolds(w)
           /\ row[w].settings.path # None => row[w].settings.path \in bindings[w]
           /\ row[w].settings.trigger # None => jobs[w] > 0
<1>1. \A S : S \subseteq Calls => Under(w, S) = {}
  BY DEF InFlight, Under
<1>2. Under(w, {"head", "number", "insert"}) = {} /\ Under(w, {"save", "commit"}) = {}
  BY <1>1 DEF Calls
<1> QED
  BY <1>2 DEF RestHolds, Doing

(* A request begins: nothing was under way, and what it carries is sound. *)
LEMMA TurnBegins ==
    ASSUME NEW r \in Request, NEW w \in Workflow, NEW dto \in Row,
           NEW stage \in {"save", "hook"}, NEW o \in Operations,
           TypeOK, \A v \in Workflow : RestHolds(v), InFlight = {},
           row' = row, revisions' = revisions, bindings' = bindings, jobs' \in [Workflow -> Nat],
           pc' = [pc EXCEPT ![r] = stage], op' = [op EXCEPT ![r] = o], on' = [on EXCEPT ![r] = w],
           copy' = [copy EXCEPT ![r] = dto],
           \A v \in Workflow : jobs'[v] >= jobs[v] \/ (v = w /\ o = "deactivate" /\ stage = "save"),
           o = "create" => row[w] = None /\ dto.graph = r,
           o # "create" => row[w] # None /\ (dto.active => row[w].active),
           o = "update" => dto.graph = r,
           o \notin {"create", "update"} => dto.graph = row[w].graph,
           dto.settings.trigger # None => jobs'[w] > 0,
           stage = "hook" => o \in {"register", "unregister"},
           stage = "save" => dto.settings.path = None \/ dto.settings.path \in bindings[w]
    PROVE  (\A v \in Workflow : RestHolds(v))' /\ (\A q \in InFlight : TurnHolds(q))'
<1>1. /\ pc'[r] = stage /\ op'[r] = o /\ on'[r] = w /\ copy'[r] = dto
      /\ \A q \in Request \ {r} : pc'[q] \notin Calls
  BY DEF TypeOK, InFlight
<1>2. ASSUME NEW v \in Workflow PROVE RestHolds(v)'
  <2>1. /\ row[v] = None => revisions[v] = {} /\ bindings[v] = {}
        /\ \A e \in revisions[v] : e.parent = e.no - 1
    BY DEF RestHolds
  <2>2. Highest(v)' = Highest(v)
    BY DEF Highest, Numbers
  <2>3. (o = "deactivate" /\ stage = "save" /\ v = w) => r \in Under(v, {"save", "commit"})'
    BY <1>1 DEF Under
  <2>4. Doing(v, "deactivate")' \/ jobs'[v] >= jobs[v]
    BY <1>1, <2>3 DEF Doing
  <2>5. ASSUME row[v] # None
        PROVE  /\ HeadHolds(v)'
               /\ row'[v].settings.path # None => row'[v].settings.path \in bindings'[v]
               /\ row'[v].settings.trigger # None /\ ~Doing(v, "deactivate")' => jobs'[v] > 0
    <3>1. /\ HeadHolds(v)
          /\ row[v].settings.path # None => row[v].settings.path \in bindings[v]
          /\ row[v].settings.trigger # None => jobs[v] > 0
      BY <2>5, RestIsWhole
    <3>2. jobs[v] \in Nat /\ jobs'[v] \in Nat
      BY DEF TypeOK
    <3> QED
      BY <3>1, <3>2, <2>2, <2>4 DEF HeadHolds
  <2> QED
    BY <2>1, <2>5 DEF RestHolds
<1>3. ASSUME NEW q \in InFlight' PROVE TurnHolds(q)'
  <2>1. q = r /\ \A p \in InFlight' : p = r
    BY <1>1, <1>3 DEF InFlight
  <2>2. Carries(r)'
    BY <1>1 DEF Carries
  <2> QED
    BY <1>1, <2>1, <2>2 DEF TurnHolds
<1> QED
  BY <1>2, <1>3

(* A request is turned down. *)
LEMMA TurnRefused ==
    ASSUME NEW r \in Request, TypeOK, \A v \in Workflow : RestHolds(v), InFlight = {},
           row' = row, revisions' = revisions, bindings' = bindings, jobs' = jobs,
           pc' = [pc EXCEPT ![r] = "done"]
    PROVE  (\A v \in Workflow : RestHolds(v))' /\ (\A q \in InFlight : TurnHolds(q))'
<1>1. \A q \in Request : pc'[q] \notin Calls
  BY DEF TypeOK, InFlight, Calls
<1>2. InFlight' = {}
  BY <1>1 DEF InFlight
<1>3. ASSUME NEW v \in Workflow PROVE RestHolds(v)'
  <2>1. Highest(v)' = Highest(v)
    BY DEF Highest, Numbers
  <2>2. /\ row[v] = None => revisions[v] = {} /\ bindings[v] = {}
        /\ \A e \in revisions[v] : e.parent = e.no - 1
    BY DEF RestHolds
  <2>3. row[v] # None => /\ HeadHolds(v)
                         /\ row[v].settings.path # None => row[v].settings.path \in bindings[v]
                         /\ row[v].settings.trigger # None => jobs[v] > 0
    BY RestIsWhole
  <2> QED
    BY <2>1, <2>2, <2>3 DEF RestHolds, HeadHolds
<1> QED
  BY <1>2, <1>3
(* Accepting a request when none is under way, whatever it asks for. *)
LEMMA HandleTakesTurn ==
    ASSUME NEW r \in Request, NEW w \in Workflow, IInv, SequentialInv, Handle(r, w), ~mixed'
    PROVE  (\A v \in Workflow : RestHolds(v))' /\ (\A q \in InFlight : TurnHolds(q))'
<1>1. ~mixed /\ InFlight = {} /\ on' = [on EXCEPT ![r] = w]
      /\ row' = row /\ revisions' = revisions /\ bindings' = bindings
  BY DEF Handle, Create, Update, SoftDelete, FindActive, Activate, Deactivate, Register, Unregister, Accept
<1>2. TypeOK /\ \A v \in Workflow : RestHolds(v)
  BY <1>1 DEF IInv, SequentialInv
<1>3. ASSUME NEW code, Refuse(r, code)
      PROVE  (\A v \in Workflow : RestHolds(v))' /\ (\A q \in InFlight : TurnHolds(q))'
  <2>1. jobs' = jobs /\ pc' = [pc EXCEPT ![r] = "done"]
    BY <1>3 DEF Refuse, Answer
  <2> QED
    BY <1>1, <1>2, <2>1, TurnRefused
<1>4. ASSUME RefuseInactive(r, w)
      PROVE  (\A v \in Workflow : RestHolds(v))' /\ (\A q \in InFlight : TurnHolds(q))'
  BY <1>3, <1>4 DEF RefuseInactive
<1>5. w \in ActiveWorkflows => row[w] # None /\ row[w].active
  BY DEF ActiveWorkflows
<1>6. row[w] # None => /\ row[w] \in Row
                       /\ row[w].settings.path # None => row[w].settings.path \in bindings[w]
                       /\ row[w].settings.trigger # None => jobs[w] > 0
  BY <1>1, <1>2, RestIsWhole DEF TypeOK
<1>7. jobs \in [Workflow -> Nat] /\ jobs[w] \in Nat /\ \A v \in Workflow : jobs[v] >= jobs[v]
  BY <1>2 DEF TypeOK
<1> DEFINE Begun == (\A v \in Workflow : RestHolds(v))' /\ (\A q \in InFlight : TurnHolds(q))'
<1> HIDE DEF Begun
<1>8. ASSUME NEW dto \in Row, NEW stage \in {"save", "hook"}, NEW o \in Operations,
             Proceed(r, dto, stage), op' = [op EXCEPT ![r] = o], jobs' \in [Workflow -> Nat],
             \A v \in Workflow : jobs'[v] >= jobs[v] \/ (v = w /\ o = "deactivate" /\ stage = "save"),
             o = "create" => row[w] = None /\ dto.graph = r,
             o # "create" => row[w] # None /\ (dto.active => row[w].active),
             o = "update" => dto.graph = r,
             o \notin {"create", "update"} => dto.graph = row[w].graph,
             dto.settings.trigger # None => jobs'[w] > 0,
             stage = "hook" => o \in {"register", "unregister"},
             stage = "save" => dto.settings.path = None \/ dto.settings.path \in bindings[w]
      PROVE  Begun
  <2>1. copy' = [copy EXCEPT ![r] = dto] /\ pc' = [pc EXCEPT ![r] = stage]
    BY <1>8 DEF Proceed
  <2> QED
    BY <1>1, <1>2, <1>8, <2>1, TurnBegins DEF Begun
<1>9. CASE Create(r, w)
  <2> DEFINE dto == [graph |-> r, settings |-> NoSettings, active |-> TRUE]
  <2>1. ASSUME Proceed(r, dto, "save"), jobs' = jobs PROVE Begun
    <3>1. dto \in Row /\ dto.graph = r /\ dto.settings.trigger = None /\ dto.settings.path = None
      BY DEF Row, Settings, NoSettings
    <3>2. op' = [op EXCEPT ![r] = "create"] /\ row[w] = None /\ "create" \in Operations
      BY <1>9 DEF Create, Accept, Fresh, Operations
    <3> HIDE DEF dto
    <3> QED
      BY <2>1, <3>1, <3>2, <1>7, <1>8
  <2> QED
    BY <2>1, <1>3, <1>9 DEF Create, Begun
<1>10. CASE Update(r, w)
  <2> DEFINE dto == [row[w] EXCEPT !.graph = r, !.settings = NoSettings]
  <2>1. ASSUME Proceed(r, dto, "save"), jobs' = jobs, w \in ActiveWorkflows PROVE Begun
    <3>1. dto \in Row /\ dto.graph = r /\ dto.settings.trigger = None /\ dto.settings.path = None
          /\ dto.active = row[w].active
      BY <2>1, <1>5, <1>6 DEF Row, Settings, NoSettings
    <3>2. op' = [op EXCEPT ![r] = "update"] /\ "update" \in Operations
      BY <1>10 DEF Update, FindActive, Accept, Operations
    <3> HIDE DEF dto
    <3> QED
      BY <2>1, <3>1, <3>2, <1>5, <1>7, <1>8
  <2> QED
    BY <2>1, <1>3, <1>10 DEF Update, FindActive, Begun
<1>11. CASE SoftDelete(r, w)
  <2> DEFINE dto == [row[w] EXCEPT !.active = FALSE]
  <2>1. ASSUME Proceed(r, dto, "save"), jobs' = jobs, w \in ActiveWorkflows PROVE Begun
    <3>1. dto \in Row /\ dto.graph = row[w].graph /\ dto.settings = row[w].settings /\ ~dto.active
      BY <2>1, <1>5, <1>6 DEF Row
    <3>2. op' = [op EXCEPT ![r] = "delete"] /\ "delete" \in Operations
      BY <1>11 DEF SoftDelete, FindActive, Accept, Operations
    <3> HIDE DEF dto
    <3> QED
      BY <2>1, <3>1, <3>2, <1>5, <1>6, <1>7, <1>8
  <2> QED
    BY <2>1, <1>3, <1>11 DEF SoftDelete, FindActive, Begun
<1>12. CASE Activate(r, w)
  <2> DEFINE dto == [row[w] EXCEPT !.settings.trigger = r]
  <2>1. ASSUME Proceed(r, dto, "save"), jobs' = [jobs EXCEPT ![w] = @ + 1], w \in ActiveWorkflows PROVE Begun
    <3>1. dto \in Row /\ dto.graph = row[w].graph /\ dto.settings.path = row[w].settings.path
          /\ dto.active = row[w].active
      BY <2>1, <1>5, <1>6 DEF Row, Settings
    <3>2. op' = [op EXCEPT ![r] = "activate"] /\ "activate" \in Operations
      BY <1>12 DEF Activate, Accept, Operations
    <3>3. jobs' \in [Workflow -> Nat] /\ jobs'[w] > 0 /\ \A v \in Workflow : jobs'[v] >= jobs[v]
      BY <1>7, <2>1
    <3> HIDE DEF dto
    <3> QED
      BY <2>1, <3>1, <3>2, <3>3, <1>5, <1>6, <1>8
  <2> QED
    BY <2>1, <1>4, <1>12 DEF Activate, Begun
<1>13. CASE Deactivate(r, w)
  <2> DEFINE dto == [row[w] EXCEPT !.settings.trigger = None]
  <2>1. ASSUME Proceed(r, dto, "save"), jobs' = [jobs EXCEPT ![w] = IF @ = 0 THEN 0 ELSE @ - 1],
               w \in ActiveWorkflows
        PROVE Begun
    <3>1. dto \in Row /\ dto.graph = row[w].graph /\ dto.settings.path = row[w].settings.path
          /\ dto.active = row[w].active /\ dto.settings.trigger = None
      BY <2>1, <1>5, <1>6 DEF Row, Settings
    <3>2. op' = [op EXCEPT ![r] = "deactivate"] /\ "deactivate" \in Operations
      BY <1>13 DEF Deactivate, Accept, Operations
    <3>3. jobs' \in [Workflow -> Nat] /\ \A v \in Workflow : jobs'[v] >= jobs[v] \/ v = w
      BY <1>7, <2>1
    <3> HIDE DEF dto
    <3> QED
      BY <2>1, <3>1, <3>2, <3>3, <1>5, <1>6, <1>8
  <2> QED
    BY <2>1, <1>4, <1>13 DEF Deactivate, Begun
<1>14. CASE Register(r, w)
  <2>1. ASSUME Proceed(r, row[w], "hook"), jobs' = jobs, w \in ActiveWorkflows PROVE Begun
    <3>1. op' = [op EXCEPT ![r] = "register"] /\ "register" \in Operations
      BY <1>14 DEF Register, Accept, Operations
    <3> QED
      BY <2>1, <3>1, <1>5, <1>6, <1>7, <1>8
  <2> QED
    BY <2>1, <1>4, <1>14 DEF Register, Begun
<1>15. CASE Unregister(r, w)
  <2>1. ASSUME Proceed(r, row[w], "hook"), jobs' = jobs, row[w] # None PROVE Begun
    <3>1. op' = [op EXCEPT ![r] = "unregister"] /\ "unregister" \in Operations
      BY <1>15 DEF Unregister, Accept, Operations
    <3> QED
      BY <2>1, <3>1, <1>6, <1>7, <1>8
  <2> QED
    BY <2>1, <1>3, <1>15 DEF Unregister, Begun
<1> QED
  BY <1>9, <1>10, <1>11, <1>12, <1>13, <1>14, <1>15 DEF Handle, Begun

-----------------------------------------------------------------------------
(* The request under way goes on; what it does concerns its own workflow. *)
LEMMA TurnGoesOn ==
    ASSUME NEW r \in Request, NEW w \in Workflow, on[r] = w, on' = on, op' = op,
           \A q \in InFlight : q = r, \A q \in Request \ {r} : pc'[q] = pc[q],
           \A v \in Workflow : RestHolds(v),
           \A v \in Workflow \ {w} : /\ row'[v] = row[v] /\ revisions'[v] = revisions[v]
                                     /\ bindings'[v] = bindings[v],
           jobs' = jobs,
           row'[w] = None => revisions'[w] = {} /\ bindings'[w] = {},
           \A e \in revisions'[w] : e.parent = e.no - 1,
           row'[w] # None /\ pc'[r] \notin {"head", "number", "insert"} => HeadHolds(w)',
           row'[w] # None /\ row'[w].settings.path # None
              /\ ~(op[r] = "unregister" /\ pc'[r] \in {"save", "commit"})
              => row'[w].settings.path \in bindings'[w],
           row'[w] # None /\ row'[w].settings.trigger # None
              /\ ~(op[r] = "deactivate" /\ pc'[r] \in {"save", "commit"}) => jobs[w] > 0,
           pc'[r] \in {"hook", "save", "commit"} => Carries(r)',
           pc'[r] \in {"head", "number", "insert"} => Records(r)'
    PROVE  (\A v \in Workflow : RestHolds(v))' /\ (\A q \in InFlight : TurnHolds(q))'
<1>1. \A q \in InFlight' : q = r
  BY DEF InFlight
<1>2. ASSUME NEW q \in InFlight' PROVE TurnHolds(q)'
  BY <1>1, <1>2 DEF TurnHolds, InFlight, Calls
<1>3. RestHolds(w)'
  <2>1. pc'[r] \in {"head", "number", "insert"} => r \in Under(w, {"head", "number", "insert"})'
    BY DEF Under
  <2>2. \A o : op[r] = o /\ pc'[r] \in {"save", "commit"} => Doing(w, o)'
    BY DEF Doing, Under
  <2> QED
    BY <2>1, <2>2 DEF RestHolds
<1>4. ASSUME NEW v \in Workflow \ {w} PROVE RestHolds(v)'
  <2>1. Under(v, {"head", "number", "insert"}) = {} /\ \A o : ~Doing(v, o)
    <3>1. \A q \in Request : pc[q] \in Calls => on[q] # v
      BY DEF InFlight
    <3> QED
      BY <3>1 DEF Under, Doing, Calls
  <2>2. RestHolds(v) /\ Highest(v)' = Highest(v)
    <3>1. revisions'[v] = revisions[v]
      OBVIOUS
    <3>2. Numbers(v)' = Numbers(v)
      BY <3>1 DEF Numbers
    <3> QED
      BY <3>1, <3>2 DEF Highest
  <2> QED
    BY <2>1, <2>2 DEF RestHolds, HeadHolds
<1> QED
  BY <1>2, <1>3, <1>4

(* Writing a copy of the row that was read: the row is that copy. *)
LEMMA MergedIsCopy ==
    ASSUME NEW now \in Row \cup {None}, NEW dto \in Row
    PROVE  Merged(now, now, dto) = dto
<1>1. dto = [column \in DOMAIN dto |-> dto[column]]
  BY DEF Row
<1>2. now # None => [column \in DOMAIN dto |-> IF dto[column] = now[column] THEN now[column] ELSE dto[column]]
                    = [column \in DOMAIN dto |-> dto[column]]
  OBVIOUS
<1> QED
  BY <1>1, <1>2 DEF Merged

(* The request under way takes its next step. *)
LEMMA TurnContinues ==
    ASSUME NEW r \in Request, IInv, SequentialInv, Continue(r), ~mixed'
    PROVE  (\A v \in Workflow : RestHolds(v))' /\ (\A q \in InFlight : TurnHolds(q))'
<1> DEFINE w == on[r]
<1>1. ~CallFails(r) /\ mixed' = mixed /\ on' = on /\ op' = op /\ jobs' = jobs
  BY DEF Continue, CallFails, HookCall, SaveReads, SaveCommits, ReadHead, ReadNumber, Insert
<1>2. pc[r] \in Calls
  BY <1>1 DEF Continue, HookCall, SaveReads, SaveCommits, ReadHead, ReadNumber, Insert, Goto, Calls
<1>3. /\ TypeOK /\ Ready(r) /\ (\A v \in Workflow : RestHolds(v)) /\ TurnHolds(r)
      /\ \A q \in InFlight : q = r
  BY <1>1, <1>2 DEF IInv, SequentialInv, InFlight, TurnHolds
<1>4. w \in Workflow /\ copy[r] \in Row /\ row[w] \in Row \cup {None}
  BY <1>3 DEF TypeOK, Ready
<1>5. \A q \in Request \ {r} : pc'[q] = pc[q]
  BY <1>1, <1>3 DEF Continue, HookCall, SaveReads, SaveCommits, ReadHead, ReadNumber, Insert, Goto,
                    Answer, TypeOK
<1>6. RestHolds(w) /\ Highest(w) \in Nat /\ Numbers(w) = 1..Highest(w)
  BY <1>3, <1>4, HighestIsLength DEF IInv
<1>7. pc[r] \in {"hook", "save", "commit"} => Carries(r)
  BY <1>3 DEF TurnHolds
<1>8. pc[r] \in {"head", "number", "insert"} => Records(r) /\ row[w] # None
  BY <1>3 DEF TurnHolds, Ready
<1>9. /\ \A o : Doing(w, o) => op[r] = o /\ pc[r] \in {"save", "commit"}
      /\ pc[r] \in {"hook", "save", "commit"} => Under(w, {"head", "number", "insert"}) = {}
  <2>1. \A q \in Request : pc[q] \in Calls => q = r
    BY <1>3 DEF InFlight
  <2> QED
    BY <2>1 DEF Under, Doing, Calls
<1>10. row[w] = None => revisions[w] = {} /\ bindings[w] = {}
  BY <1>6 DEF RestHolds
<1>11. \A e \in revisions[w] : e.parent = e.no - 1
  BY <1>6 DEF RestHolds
<1>12. row[w] # None /\ pc[r] \in {"hook", "save", "commit"} => HeadHolds(w)
  BY <1>6, <1>9 DEF RestHolds
<1>13. /\ row[w] # None /\ row[w].settings.path # None /\ ~(op[r] = "unregister" /\ pc[r] \in {"save", "commit"})
            => row[w].settings.path \in bindings[w]
       /\ row[w] # None /\ row[w].settings.trigger # None /\ ~(op[r] = "deactivate" /\ pc[r] \in {"save", "commit"})
            => jobs[w] > 0
  BY <1>6, <1>9 DEF RestHolds
<1>14. revisions' = revisions => Highest(w)' = Highest(w)
  BY <1>1 DEF Highest, Numbers
<1>15. revisions' = revisions /\ row'[w] # None /\ row[w] # None /\ row'[w].graph = row[w].graph
         => (HeadHolds(w) => HeadHolds(w)')
  BY <1>1, <1>14 DEF HeadHolds
<1> DEFINE Goes == (\A v \in Workflow : RestHolds(v))' /\ (\A q \in InFlight : TurnHolds(q))'
<1>16. CASE HookCall(r)
  <2>1. /\ pc[r] = "hook" /\ pc'[r] = "save" /\ row' = row /\ revisions' = revisions
        /\ bindings' \in [Workflow -> SUBSET Request]
        /\ \A v \in Workflow \ {w} : bindings'[v] = bindings[v]
    BY <1>16, <1>3, <1>4 DEF HookCall, Goto, TypeOK
  <2>2. ASSUME op[r] = "register", bindings' = [bindings EXCEPT ![on[r]] = @ \cup {r}],
               copy' = [copy EXCEPT ![r].settings.path = r]
        PROVE  Goes
    <3>1. bindings'[w] = bindings[w] \cup {r}
      BY <2>2, <1>3, <1>4 DEF TypeOK
    <3>2. /\ copy'[r].graph = copy[r].graph /\ copy'[r].active = copy[r].active
          /\ copy'[r].settings.path = r /\ copy'[r].settings.trigger = copy[r].settings.trigger
      BY <2>2, <1>3, <1>4 DEF TypeOK, Row, Settings
    <3>3. Carries(r)'
      BY <2>1, <2>2, <3>1, <3>2, <1>1, <1>7 DEF Carries
    <3>4. row[w] # None
      BY <2>1, <2>2, <1>7 DEF Carries
    <3> QED
      BY <2>1, <2>2, <3>1, <3>3, <3>4, <1>1, <1>3, <1>4, <1>5, <1>11, <1>12, <1>13, <1>15, TurnGoesOn
  <2>3. ASSUME op[r] = "unregister", bindings' = [bindings EXCEPT ![on[r]] = @ \ {copy[r].settings.path}],
               copy' = [copy EXCEPT ![r].settings.path = None]
        PROVE  Goes
    <3>2. /\ copy'[r].graph = copy[r].graph /\ copy'[r].active = copy[r].active
          /\ copy'[r].settings.path = None /\ copy'[r].settings.trigger = copy[r].settings.trigger
      BY <2>3, <1>3, <1>4 DEF TypeOK, Row, Settings
    <3>3. Carries(r)'
      BY <2>1, <2>3, <3>2, <1>1, <1>7 DEF Carries
    <3>4. row[w] # None
      BY <2>1, <2>3, <1>7 DEF Carries
    <3> QED
      BY <2>1, <2>3, <3>3, <3>4, <1>1, <1>3, <1>4, <1>5, <1>11, <1>12, <1>13, <1>15, TurnGoesOn
  <2> QED
    BY <2>2, <2>3, <1>16 DEF HookCall
<1>17. CASE SaveReads(r)
  <2>1. /\ pc[r] = "save" /\ pc'[r] = "commit" /\ loaded'[r] = row[w] /\ row' = row
        /\ revisions' = revisions /\ bindings' = bindings /\ copy' = copy
    BY <1>17, <1>3 DEF SaveReads, Goto, TypeOK
  <2>2. Carries(r)'
    BY <2>1, <1>1, <1>7 DEF Carries
  <2> QED
    BY <2>1, <2>2, <1>1, <1>3, <1>4, <1>5, <1>10, <1>11, <1>12, <1>13, <1>15, TurnGoesOn
<1>18. CASE SaveCommits(r)
  <2>1. /\ pc[r] = "commit" /\ row' = [row EXCEPT ![w] = Merged(row[w], loaded[r], copy[r])]
        /\ revisions' = revisions /\ bindings' = bindings /\ copy' = copy
    BY <1>18 DEF SaveCommits
  <2>2. row'[w] = copy[r] /\ row'[w] # None /\ \A v \in Workflow \ {w} : row'[v] = row[v]
    <3>1. loaded[r] = row[w]
      BY <2>1, <1>7 DEF Carries
    <3> QED
      BY <2>1, <3>1, <1>3, <1>4, MergedIsCopy, StoreAssumption DEF TypeOK
  <2>3. CASE op[r] \in {"create", "update"}
    <3>1. pc'[r] = "head"
      BY <2>3, <1>18, <1>3 DEF SaveCommits, Goto, TypeOK
    <3>2. copy[r].graph = r /\ (copy[r].settings.trigger # None => jobs[w] > 0)
          /\ (copy[r].settings.path # None => copy[r].settings.path \in bindings[w])
      BY <2>1, <2>3, <1>7 DEF Carries
    <3>3. Records(r)'
      BY <2>1, <2>2, <2>3, <3>1, <3>2, <1>1 DEF Records
    <3> QED
      BY <2>1, <2>2, <3>1, <3>2, <3>3, <1>1, <1>3, <1>4, <1>5, <1>11, TurnGoesOn
  <2>4. CASE op[r] \notin {"create", "update"}
    <3>1. pc'[r] = "done"
      BY <2>4, <1>18, <1>3 DEF SaveCommits, Answer, TypeOK
    <3>2. /\ row[w] # None /\ copy[r].graph = row[w].graph /\ (copy[r].settings.trigger # None => jobs[w] > 0)
          /\ (copy[r].settings.path # None => copy[r].settings.path \in bindings[w])
      BY <2>1, <2>4, <1>7 DEF Carries
    <3>3. HeadHolds(w)'
      BY <2>1, <2>2, <3>2, <1>12, <1>15
    <3> QED
      BY <2>1, <2>2, <3>1, <3>2, <3>3, <1>1, <1>3, <1>4, <1>5, <1>11, TurnGoesOn
  <2> QED
    BY <2>3, <2>4
<1>19. CASE ReadHead(r)
  <2>1. /\ pc[r] = "head" /\ pc'[r] = "number" /\ parent'[r] = Highest(w) /\ row' = row
        /\ revisions' = revisions /\ bindings' = bindings /\ copy' = copy
    BY <1>19, <1>3 DEF ReadHead, Goto, TypeOK
  <2>2. Records(r)'
    BY <2>1, <1>1, <1>8, <1>14 DEF Records
  <2> QED
    BY <2>1, <2>2, <1>1, <1>3, <1>4, <1>5, <1>8, <1>11, <1>13, TurnGoesOn
<1>20. CASE ReadNumber(r)
  <2>1. /\ pc[r] = "number" /\ pc'[r] = "insert" /\ next'[r] = Highest(w) + 1 /\ row' = row
        /\ revisions' = revisions /\ bindings' = bindings /\ copy' = copy /\ parent' = parent
    BY <1>20, <1>3 DEF ReadNumber, Goto, TypeOK
  <2>2. Records(r)'
    BY <2>1, <1>1, <1>8, <1>14 DEF Records
  <2> QED
    BY <2>1, <2>2, <1>1, <1>3, <1>4, <1>5, <1>8, <1>11, <1>13, TurnGoesOn
<1>21. CASE Insert(r)
  <2>1. /\ pc[r] = "insert" /\ pc'[r] = "done" /\ row' = row /\ bindings' = bindings
    BY <1>21, <1>3 DEF Insert, Answer, TypeOK
  <2>2. /\ row[w] # None /\ copy[r].graph = row[w].graph /\ parent[r] = Highest(w)
        /\ next[r] = Highest(w) + 1
    BY <2>1, <1>8 DEF Records
  <2>3. next[r] \notin Numbers(w)
    BY <2>2, <1>6
  <2>4. revisions' = [revisions EXCEPT ![w] = @ \cup {Revision(r)}]
    BY <2>3, <1>21 DEF Insert
  <2>5. revisions'[w] = revisions[w] \cup {Revision(r)} /\ \A v \in Workflow \ {w} : revisions'[v] = revisions[v]
    BY <2>4, <1>3, <1>4 DEF TypeOK
  <2>6. /\ Revision(r).no = Highest(w) + 1 /\ Revision(r).parent = Highest(w)
        /\ Revision(r).graph = row[w].graph
    BY <2>2 DEF Revision
  <2>7. Highest(w)' = Highest(w) + 1
    <3> DEFINE n == Highest(w) + 1
    <3>1. Numbers(w)' = Numbers(w) \cup {n}
      BY <2>5, <2>6, <1>1 DEF Numbers
    <3>2. Numbers(w)' = 1..n /\ n \in Nat /\ n > 0
      BY <3>1, <1>6
    <3>3. revisions'[w] # {}
      BY <2>5
    <3> HIDE DEF n
    <3>4. Highest(w)' = CHOOSE m \in 1..n : \A k \in 1..n : k <= m
      BY <3>2, <3>3, <1>1 DEF Highest
    <3>5. Highest(w)' = n
      BY <3>2, <3>4, LastOfRange
    <3> QED
      BY <3>5 DEF n
  <2>8. HeadHolds(w)'
    BY <2>1, <2>5, <2>6, <2>7, <1>1 DEF HeadHolds
  <2>9. \A e \in revisions'[w] : e.parent = e.no - 1
    BY <2>5, <2>6, <1>6, <1>11
  <2> QED
    BY <2>1, <2>2, <2>5, <2>8, <2>9, <1>1, <1>3, <1>4, <1>5, <1>13, TurnGoesOn
<1> QED
  BY <1>1, <1>16, <1>17, <1>18, <1>19, <1>20, <1>21 DEF Continue

(* No step brings a deleted workflow back. *)
LEMMA DeletedIsFinal ==
    ASSUME IInv, SequentialInv, [Next]_vars, ~mixed'
    PROVE  DeletedStays
<1> SUFFICES ASSUME row' # row, NEW w \in Workflow, row[w] # None, ~row[w].active
             PROVE  row'[w] # None /\ ~row'[w].active
  BY DEF DeletedStays
<1>1. PICK r \in Request : SaveCommits(r)
  <2>1. ASSUME NEW r \in Request, NEW v \in Workflow, Handle(r, v) PROVE row' = row
    BY <2>1 DEF Handle, Create, Update, SoftDelete, FindActive, Activate, Deactivate, Register,
                Unregister, Accept
  <2>2. ASSUME NEW r \in Request, Continue(r), ~SaveCommits(r) PROVE row' = row
    BY <2>2 DEF Continue, HookCall, SaveReads, ReadHead, ReadNumber, Insert, CallFails
  <2>3. Restart => row' = row
    BY DEF Restart
  <2>4. UNCHANGED vars => row' = row
    BY DEF vars
  <2> QED
    BY <2>1, <2>2, <2>3, <2>4 DEF Next
<1>2. pc[r] = "commit" /\ row' = [row EXCEPT ![on[r]] = Merged(row[on[r]], loaded[r], copy[r])] /\ ~mixed
  BY <1>1 DEF SaveCommits
<1>3. TypeOK /\ Ready(r) /\ TurnHolds(r)
  BY <1>2 DEF IInv, SequentialInv, InFlight, Calls
<1>4. on[r] \in Workflow /\ copy[r] \in Row /\ row[on[r]] \in Row \cup {None} /\ Carries(r)
  BY <1>2, <1>3 DEF TypeOK, Ready, TurnHolds
<1>5. row' = [row EXCEPT ![on[r]] = copy[r]]
  BY <1>2, <1>4, MergedIsCopy DEF Carries
<1>6. CASE w = on[r]
  <2>1. row'[w] = copy[r] /\ copy[r] # None
    BY <1>3, <1>4, <1>5, <1>6, StoreAssumption DEF TypeOK
  <2>2. ~copy[r].active
    BY <1>4, <1>6 DEF Carries
  <2> QED
    BY <2>1, <2>2
<1>7. CASE w # on[r]
  BY <1>3, <1>4, <1>5, <1>7 DEF TypeOK
<1> QED
  BY <1>6, <1>7

LEMMA SequentialStarts == Init => SequentialInv
BY DEF Init, SequentialInv, RestHolds, InFlight, Calls

LEMMA SequentialInductive == IInv /\ SequentialInv /\ [Next]_vars => SequentialInv'
<1> SUFFICES ASSUME IInv, SequentialInv, [Next]_vars, ~mixed'
             PROVE  (\A v \in Workflow : RestHolds(v))' /\ (\A q \in InFlight : TurnHolds(q))'
  BY DEF SequentialInv
<1>1. ASSUME NEW r \in Request, Continue(r)
      PROVE  (\A v \in Workflow : RestHolds(v))' /\ (\A q \in InFlight : TurnHolds(q))'
  BY <1>1, TurnContinues
<1>2. ASSUME NEW r \in Request, NEW w \in Workflow, Handle(r, w)
      PROVE  (\A v \in Workflow : RestHolds(v))' /\ (\A q \in InFlight : TurnHolds(q))'
  BY <1>2, HandleTakesTurn
<1>3. ~Restart
  BY DEF Restart
<1>4. CASE UNCHANGED vars
  <2>1. /\ row' = row /\ revisions' = revisions /\ bindings' = bindings /\ jobs' = jobs
        /\ pc' = pc /\ op' = op /\ on' = on /\ copy' = copy /\ loaded' = loaded /\ parent' = parent
        /\ next' = next /\ mixed' = mixed
    BY <1>4 DEF vars, requestVars
  <2>2. InFlight' = InFlight /\ ActiveWorkflows' = ActiveWorkflows
        /\ \A v : Highest(v)' = Highest(v) /\ \A S : Under(v, S)' = Under(v, S)
    BY <2>1 DEF InFlight, ActiveWorkflows, Highest, Numbers, Under
  <2>3. ASSUME NEW v \in Workflow PROVE RestHolds(v)'
    <3>1. RestHolds(v)
      BY <2>1 DEF SequentialInv
    <3>2. \A o : Doing(v, o)' <=> Doing(v, o)
      BY <2>1, <2>2 DEF Doing
    <3> QED
      BY <2>1, <2>2, <3>1, <3>2 DEF RestHolds, HeadHolds
  <2>4. ASSUME NEW q \in InFlight' PROVE TurnHolds(q)'
    <3>1. TurnHolds(q)
      BY <2>1, <2>2 DEF SequentialInv
    <3>2. (Carries(q) => Carries(q)') /\ (Records(q) => Records(q)')
      BY <2>1, <2>2 DEF Carries, Records
    <3> QED
      BY <2>1, <2>2, <3>1, <3>2 DEF TurnHolds
  <2> QED
    BY <2>3, <2>4
<1> QED
  BY <1>1, <1>2, <1>3, <1>4 DEF Next

(* As long as requests do not overlap and none is cut off: what is in the  *)
(* row is what the log says last, the log is a chain, and the settings     *)
(* name only paths that are bound and triggers that have a job; and a      *)
(* deleted workflow stays deleted.                                         *)
THEOREM OneAfterTheOther == Spec => Sequential
<1>1. SequentialInv => (~mixed => HeadIsRow /\ ChainLinear /\ PathResolves /\ TriggerHasJob)
  <2> SUFFICES ASSUME SequentialInv, ~mixed
               PROVE  HeadIsRow /\ ChainLinear /\ PathResolves /\ TriggerHasJob
    OBVIOUS
  <2>1. ChainLinear
    BY DEF SequentialInv, RestHolds, ChainLinear
  <2>2. ASSUME Quiet, NEW w \in Workflow, row[w] # None
        PROVE  /\ HeadHolds(w)
               /\ row[w].settings.path # None => row[w].settings.path \in bindings[w]
               /\ row[w].settings.trigger # None => jobs[w] > 0
    BY <2>2, RestIsWhole DEF SequentialInv, Quiet
  <2> QED
    BY <2>1, <2>2 DEF HeadIsRow, HeadHolds, PathResolves, TriggerHasJob
<1>2. IInv /\ SequentialInv /\ [Next]_vars => [~mixed' => DeletedStays]_vars
  BY DeletedIsFinal
<1> QED
  BY <1>1, <1>2, Invariance, SequentialStarts, SequentialInductive, PTL DEF Spec, Sequential

-----------------------------------------------------------------------------
(* Behind the answers to webhook calls: a path belongs for ever to the     *)
(* request that registered it and to that request's workflow, and what is  *)
(* so of a path now is among what was so since the call arrived.           *)
PathsHold ==
    /\ \A r \in Request : op[r] # None => pc[r] # "idle"
    /\ \A w \in Workflow : \A p \in bindings[w] : p \in Request /\ on[p] = w /\ op[p] = "register"

CallHolds(c) ==
    /\ call[c].at # "idle" => call[c].path \in Request /\ op[call[c].path] = "register"
    /\ c \in UnderWay => Facts(call[c].path) \in held[c]
    /\ call[c].at \in {"row", "execute", "create"} =>
           /\ call[c].key = call[c].path /\ call[c].workflow = on[call[c].path]
           /\ \E h \in held[c] : h.bound
    /\ call[c].at = "create" => \E h \in held[c] : h.active
    /\ call[c].at = "404" => \E h \in held[c] : ~h.bound
    /\ call[c].at = "409" => \E h \in held[c] : ~h.active
    /\ started[c] # None =>
           /\ call[c].at = "202"
           /\ call[c].key = call[c].path /\ started[c] = on[call[c].path]
           /\ \E h \in held[c] : h.bound
           /\ \E h \in held[c] : h.active

CallStates == {"idle", "resolve", "row", "execute", "create", "202", "401", "404", "409", "failed"}

CallRecord == [at : CallStates, path : Request \cup {None}, key : Request \cup {None},
               workflow : Workflow \cup {None}]

HookTyped ==
    /\ call \in [Caller -> CallRecord]
    /\ started \in [Caller -> Workflow \cup {None}]
    /\ held \in [Caller -> SUBSET [bound : BOOLEAN, active : BOOLEAN]]

HookInv == HookTyped /\ PathsHold /\ \A c \in Caller : CallHolds(c)

LEMMA HookStarts == Init /\ HookInit => HookInv
<1> SUFFICES ASSUME Init, HookInit PROVE HookInv
  OBVIOUS
<1>1. HookTyped
  <2>1. Idle \in CallRecord
    BY DEF Idle, CallRecord, CallStates
  <2> QED
    BY <2>1 DEF HookInit, HookTyped
<1>2. PathsHold
  BY DEF Init, PathsHold
<1>3. \A c \in Caller : CallHolds(c)
  BY DEF HookInit, CallHolds, Idle, UnderWay
<1> QED
  BY <1>1, <1>2, <1>3 DEF HookInv

(* The owner's steps keep the paths, and who registered one, for what. *)
LEMMA PathsKept == IInv /\ PathsHold /\ [Next]_vars =>
    PathsHold' /\ \A p \in Request : op[p] = "register" => op'[p] = op[p] /\ on'[p] = on[p]
<1> SUFFICES ASSUME IInv, PathsHold, [Next]_vars
             PROVE  PathsHold' /\ \A p \in Request : op[p] = "register" => op'[p] = op[p] /\ on'[p] = on[p]
  OBVIOUS
<1>0. /\ pc \in [Request -> Calls \cup {"idle", "done"}] /\ op \in [Request -> Operations \cup {None}]
      /\ on \in [Request -> Workflow \cup {None}] /\ bindings \in [Workflow -> SUBSET Request]
  BY DEF IInv, TypeOK
<1>a. "register" # None
  BY HookAssumption DEF Operations
<1>1. ASSUME NEW r \in Request, NEW w \in Workflow, Handle(r, w)
      PROVE  PathsHold' /\ \A p \in Request : op[p] = "register" => op'[p] = op[p] /\ on'[p] = on[p]
  <2>1. /\ pc[r] = "idle" /\ bindings' = bindings /\ on' = [on EXCEPT ![r] = w]
        /\ \E o : op' = [op EXCEPT ![r] = o]
    BY <1>1 DEF Handle, Create, Update, SoftDelete, Activate, Deactivate, Register, Unregister,
       FindActive, Accept
  <2>2. \E st \in {"done", "save", "hook"} : pc' = [pc EXCEPT ![r] = st]
    BY <1>1 DEF Handle, Create, Update, SoftDelete, Activate, Deactivate, Register, Unregister,
       FindActive, RefuseInactive, Refuse, Answer, Proceed
  <2> QED
    BY <1>0, <1>a, <2>1, <2>2 DEF PathsHold
<1>2. ASSUME NEW r \in Request, Continue(r)
      PROVE  PathsHold' /\ \A p \in Request : op[p] = "register" => op'[p] = op[p] /\ on'[p] = on[p]
  <2>1. /\ op' = op /\ on' = on
        /\ pc[r] \in Calls /\ \E st \in Calls \cup {"done"} : pc' = [pc EXCEPT ![r] = st]
    BY <1>2, StoreAssumption DEF Continue, HookCall, SaveReads, SaveCommits, ReadHead, ReadNumber, Insert, CallFails,
       Goto, Answer, Calls
  <2>2. \A w \in Workflow : \A p \in bindings'[w] :
           p \in bindings[w] \/ (p = r /\ w = on[r] /\ op[r] = "register")
    BY <1>0, <1>2 DEF Continue, HookCall, SaveReads, SaveCommits, ReadHead, ReadNumber, Insert, CallFails
  <2> QED
    BY <1>0, <2>1, <2>2, <1>a DEF PathsHold, Calls
<1>3. CASE Restart
  BY <1>0, <1>3 DEF Restart, PathsHold
<1>4. CASE UNCHANGED vars
  BY <1>4 DEF vars, requestVars, PathsHold
<1> QED
  BY <1>1, <1>2, <1>3, <1>4 DEF Next

(* A call that stands where it stood, or has failed, while time goes on. *)
LEMMA CallWaits ==
    ASSUME NEW c \in Caller, HookInv, PathsHold',
           \A p \in Request : op[p] = "register" => op'[p] = op[p] /\ on'[p] = on[p],
           call' \in [Caller -> CallRecord],
           call'[c] \in {call[c], [call[c] EXCEPT !.at = "failed"]},
           call'[c].at = "failed" => call[c].at # "idle" /\ started[c] = None,
           started'[c] = started[c],
           held[c] \subseteq held'[c],
           \A p \in Request : c \in UnderWay /\ p = call[c].path => Facts(p)' \in held'[c]
    PROVE  CallHolds(c)'
<1>0. /\ call[c] \in CallRecord /\ CallHolds(c)
      /\ call'[c].path = call[c].path /\ call'[c].key = call[c].key /\ call'[c].workflow = call[c].workflow
      /\ call'[c].at \in {call[c].at, "failed"}
  BY DEF HookInv, HookTyped, CallRecord
<1>1. ASSUME call[c].at # "idle"
      PROVE  /\ call[c].path \in Request /\ op'[call[c].path] = "register"
             /\ on'[call[c].path] = on[call[c].path]
  BY <1>0, <1>1 DEF CallHolds
<1>2. c \in UnderWay' => c \in UnderWay
  BY <1>0 DEF UnderWay
<1>3. c \in UnderWay' => Facts(call[c].path)' \in held'[c]
  <2> SUFFICES ASSUME c \in UnderWay'
               PROVE  Facts(call[c].path)' \in held'[c]
    OBVIOUS
  <2>1. /\ c \in UnderWay /\ call[c].path \in Request
        /\ call'[c].path = call[c].path
    BY <1>0, <1>1, <1>2 DEF UnderWay
  <2>2. PICK p \in Request : p = call[c].path
    BY <2>1
  <2> QED
    BY <2>1, <2>2 DEF Facts, Bound
<1>4. \A h \in held[c] : h \in held'[c]
  OBVIOUS
<1>5. started[c] # None => call'[c].at = "202"
  BY <1>0 DEF CallHolds
<1>6. started'[c] # None => call'[c].at = "202" /\ CallHolds(c)
  BY <1>0, <1>5
<1>7. /\ call'[c].at # "idle" => call[c].at # "idle"
      /\ \A at \in {"row", "execute", "create", "404", "409", "202"} : call'[c].at = at => call[c].at = at
  BY <1>0 DEF CallRecord
<1> QED
  <2>1. call'[c].at # "idle" => call'[c].path \in Request /\ op'[call'[c].path] = "register"
    BY <1>0, <1>1, <1>7
  <2>2. call'[c].at \in {"row", "execute", "create"} =>
           /\ call'[c].key = call'[c].path /\ call'[c].workflow = on'[call'[c].path]
           /\ \E h \in held'[c] : h.bound
    BY <1>0, <1>1, <1>4, <1>7 DEF CallHolds
  <2>3. /\ call'[c].at = "create" => \E h \in held'[c] : h.active
        /\ call'[c].at = "404" => \E h \in held'[c] : ~h.bound
        /\ call'[c].at = "409" => \E h \in held'[c] : ~h.active
    BY <1>0, <1>4, <1>7 DEF CallHolds
  <2>4. started'[c] # None =>
           /\ call'[c].at = "202"
           /\ call'[c].key = call'[c].path /\ started'[c] = on'[call'[c].path]
           /\ \E h \in held'[c] : h.bound
           /\ \E h \in held'[c] : h.active
    BY <1>0, <1>1, <1>4, <1>5, <1>7 DEF CallHolds
  <2> QED
    BY <1>3, <2>1, <2>2, <2>3, <2>4 DEF CallHolds

LEMMA ObservedIsTyped ==
    HookTyped /\ Observe => held' \in [Caller -> SUBSET [bound : BOOLEAN, active : BOOLEAN]]
<1> SUFFICES ASSUME HookTyped, Observe
             PROVE  held' \in [Caller -> SUBSET [bound : BOOLEAN, active : BOOLEAN]]
  OBVIOUS
<1>1. \A p : Facts(p)' \in [bound : BOOLEAN, active : BOOLEAN]
  BY DEF Facts
<1> QED
  BY <1>1 DEF Observe, HookTyped

(* A call among the others takes a step of its own: the owner's state and *)
(* the other calls stay.                                                  *)
LEMMA OthersWait ==
    ASSUME NEW c \in Caller, HookInv, UNCHANGED vars, Observe,
           NEW to \in CallRecord, call' = [call EXCEPT ![c] = to],
           NEW wf \in Workflow \cup {None}, started' = [started EXCEPT ![c] = wf],
           CallHolds(c)'
    PROVE  HookInv'
<1>1. PathsHold' /\ \A p \in Request : op[p] = "register" => op'[p] = op[p] /\ on'[p] = on[p]
  BY DEF HookInv, PathsHold, vars, requestVars
<1>2. HookTyped'
  BY ObservedIsTyped DEF HookInv, HookTyped
<1>3. ASSUME NEW d \in Caller, d # c
      PROVE  CallHolds(d)'
  <2>1. /\ call' \in [Caller -> CallRecord] /\ call'[d] = call[d] /\ started'[d] = started[d]
        /\ CallHolds(d)
    BY <1>2, <1>3 DEF HookInv, HookTyped
  <2>2. held[d] \subseteq held'[d]
    BY DEF Observe
  <2>3. \A p \in Request : d \in UnderWay /\ p = call[d].path => Facts(p)' \in held'[d]
    BY DEF Observe
  <2>4. call'[d].at = "failed" => call[d].at # "idle" /\ started[d] = None
    BY <2>1 DEF CallHolds
  <2> QED
    BY <1>1, <2>1, <2>2, <2>3, <2>4, CallWaits
<1> QED
  BY <1>1, <1>2, <1>3 DEF HookInv

(* What receive_webhook does next for a call keeps what it has seen true. *)
LEMMA CallMoves ==
    ASSUME NEW c \in Caller, HookInv, Receive(c)
    PROVE  HookInv'
<1>0. /\ call \in [Caller -> CallRecord] /\ call[c] \in CallRecord
      /\ started \in [Caller -> Workflow \cup {None}]
      /\ CallHolds(c) /\ PathsHold
  BY DEF HookInv, HookTyped
<1>1. UNCHANGED vars /\ Observe
  BY DEF Receive, Resolve, ReadRow, CreateExecution, CallBreaks, Move
<1>2. PICK to \in CallStates, wf \in Workflow \cup {None} :
         call' = [call EXCEPT ![c].at = to, ![c].workflow = wf]
  <2>1. ASSUME NEW from, NEW to \in CallStates, Move(c, from, to)
        PROVE  call' = [call EXCEPT ![c].at = to, ![c].workflow = call[c].workflow]
    BY <2>1, <1>0 DEF Move, CallRecord
  <2>2. call[c].workflow \in Workflow \cup {None}
    BY <1>0 DEF CallRecord
  <2>3. CASE Resolve(c)
    BY <2>1, <2>2, <2>3 DEF Resolve, Bound, CallStates
  <2>4. CASE ReadRow(c)
    BY <2>1, <2>2, <2>4 DEF ReadRow, CallStates
  <2>5. CASE CreateExecution(c)
    BY <2>1, <2>2, <2>5 DEF CreateExecution, CallStates
  <2>6. CASE CallBreaks(c)
    BY <2>1, <2>2, <2>6 DEF CallBreaks, CallStates
  <2> QED
    BY <2>3, <2>4, <2>5, <2>6 DEF Receive
<1>3. /\ call'[c].at = to /\ call'[c].path = call[c].path /\ call'[c].key = call[c].key
      /\ call'[c].workflow = wf
  BY <1>0, <1>2 DEF CallRecord
<1>4. c \in UnderWay /\ call[c].path \in Request /\ op[call[c].path] = "register" /\ started[c] = None
  <2>1. c \in UnderWay
    BY DEF Receive, Resolve, ReadRow, CreateExecution, CallBreaks, Move, UnderWay
  <2> QED
    BY <2>1, <1>0 DEF CallHolds, UnderWay
<1>5. \A h \in held[c] : h \in held'[c]
  BY <1>1 DEF Observe
<1>6. op' = op /\ on' = on
  BY <1>1 DEF vars, requestVars
<1>7. Facts(call[c].path)' \in held'[c] /\ Facts(call[c].path) \in held[c]
  <2>1. Facts(call[c].path) \in held[c]
    BY <1>0, <1>4 DEF CallHolds
  <2>2. Facts(call[c].path)' = Facts(call[c].path)
    BY <1>1, <1>3 DEF vars, requestVars, Facts, Bound, ActiveWorkflows
  <2> QED
    BY <2>1, <2>2, <1>5
<1> DEFINE F == Facts(call[c].path)
<1>8. F.bound = (Bound(call[c].path) # {}) /\ F.active = (on[call[c].path] \in ActiveWorkflows)
  BY DEF Facts
<1>9. F \in held[c]
  BY <1>7
<1> HIDE DEF F
<1> DEFINE Fits ==
              /\ to # "idle"
              /\ to \in {"row", "execute", "create"} =>
                    /\ call[c].key = call[c].path /\ wf = on[call[c].path]
                    /\ \E h \in held[c] : h.bound
              /\ to = "create" => \E h \in held[c] : h.active
              /\ to = "404" => \E h \in held[c] : ~h.bound
              /\ to = "409" => \E h \in held[c] : ~h.active
              /\ started'[c] # None =>
                    /\ to = "202"
                    /\ call[c].key = call[c].path /\ started'[c] = on[call[c].path]
                    /\ \E h \in held[c] : h.bound
                    /\ \E h \in held[c] : h.active
<1>10. ASSUME to \in {"401", "failed"}, started' = started
       PROVE  Fits
  BY <1>4, <1>10
<1>11. ASSUME Resolve(c) PROVE Fits
  <2>1. ASSUME Bound(call[c].path) = {} /\ Move(c, "resolve", "404") /\ UNCHANGED started
        PROVE  Fits
    <3>1. to = "404" /\ ~F.bound
      BY <2>1, <1>0, <1>3, <1>8 DEF Move, CallRecord
    <3> QED
      BY <3>1, <2>1, <1>4, <1>9
  <2>2. ASSUME Move(c, "resolve", "401") /\ UNCHANGED started
        PROVE  Fits
    <3>1. to = "401" /\ started' = started
      BY <2>2, <1>0, <1>3 DEF Move, CallRecord
    <3> QED
      BY <3>1, <1>10
  <2>3. ASSUME NEW w \in Bound(call[c].path), call[c].at = "resolve", Signed(c), started' = started,
               call' = [call EXCEPT ![c].at = "row", ![c].workflow = w]
        PROVE  Fits
    <3>1. to = "row" /\ wf = w /\ call[c].key = call[c].path
      BY <2>3, <1>0, <1>3 DEF CallRecord, Signed
    <3>2. F.bound /\ on[call[c].path] = w
      BY <1>0, <1>8 DEF Bound, PathsHold
    <3> QED
      BY <3>1, <3>2, <2>3, <1>4, <1>9
  <2> QED
    BY <1>11, <2>1, <2>2, <2>3 DEF Resolve
<1>12. ASSUME ReadRow(c) PROVE Fits
  <2>1. PICK from \in {"row", "execute"} :
          /\ call[c].at = from /\ started' = started /\ wf = call[c].workflow
          /\ to = IF call[c].workflow \in ActiveWorkflows THEN IF from = "row" THEN "execute" ELSE "create"
                                                           ELSE "409"
    BY <1>12, <1>0, <1>3 DEF ReadRow, Move, CallRecord
  <2>2. /\ call[c].key = call[c].path /\ call[c].workflow = on[call[c].path]
        /\ \E h \in held[c] : h.bound
    BY <2>1, <1>0 DEF CallHolds
  <2>3. ASSUME call[c].workflow \in ActiveWorkflows PROVE Fits
    <3>1. F.active /\ to \in {"execute", "create"}
      BY <2>1, <2>2, <2>3, <1>8
    <3> QED
      BY <3>1, <2>1, <2>2, <1>4, <1>9
  <2>4. ASSUME call[c].workflow \notin ActiveWorkflows PROVE Fits
    <3>1. ~F.active /\ to = "409"
      BY <2>1, <2>2, <2>4, <1>8
    <3> QED
      BY <3>1, <2>1, <1>4, <1>9
  <2> QED
    BY <2>3, <2>4
<1>13. ASSUME CreateExecution(c) PROVE Fits
  <2>1. to = "202" /\ call[c].at = "create" /\ started'[c] = call[c].workflow
    BY <1>13, <1>0, <1>3 DEF CreateExecution, Move, CallRecord
  <2>2. /\ call[c].key = call[c].path /\ call[c].workflow = on[call[c].path]
        /\ (\E h \in held[c] : h.bound) /\ \E h \in held[c] : h.active
    BY <2>1, <1>0 DEF CallHolds
  <2> QED
    BY <2>1, <2>2
<1>14. ASSUME CallBreaks(c) PROVE Fits
  <2>1. to = "failed" /\ started' = started
    BY <1>14, <1>0, <1>3 DEF CallBreaks, Move, CallRecord
  <2> QED
    BY <2>1, <1>10
<1>15. Fits
  <2> HIDE DEF Fits
  <2> QED
    BY <1>11, <1>12, <1>13, <1>14 DEF Receive
<1>16. CallHolds(c)'
  <2>1. call'[c].at # "idle" => call'[c].path \in Request /\ op'[call'[c].path] = "register"
    BY <1>3, <1>4, <1>6
  <2>2. c \in UnderWay' => Facts(call[c].path)' \in held'[c]
    BY <1>7
  <2>3. call'[c].at \in {"row", "execute", "create"} =>
           /\ call'[c].key = call'[c].path /\ call'[c].workflow = on'[call'[c].path]
           /\ \E h \in held'[c] : h.bound
    BY <1>3, <1>5, <1>6, <1>15
  <2>4. /\ call'[c].at = "create" => \E h \in held'[c] : h.active
        /\ call'[c].at = "404" => \E h \in held'[c] : ~h.bound
        /\ call'[c].at = "409" => \E h \in held'[c] : ~h.active
    BY <1>3, <1>5, <1>15
  <2>5. started'[c] # None =>
           /\ call'[c].at = "202"
           /\ call'[c].key = call'[c].path /\ started'[c] = on'[call'[c].path]
           /\ \E h \in held'[c] : h.bound
           /\ \E h \in held'[c] : h.active
    BY <1>3, <1>5, <1>6, <1>15
  <2> QED
    BY <2>1, <2>2, <2>3, <2>4, <2>5 DEF CallHolds
<1>17. \E t \in CallRecord : call' = [call EXCEPT ![c] = t]
  <2>1. call' = [call EXCEPT ![c] = [call[c] EXCEPT !.at = to, !.workflow = wf]]
    BY <1>0, <1>2
  <2> QED
    BY <2>1, <1>0 DEF CallRecord
<1>18. \E t \in Workflow \cup {None} : started' = [started EXCEPT ![c] = t]
  <2>1. started' = started \/ started' = [started EXCEPT ![c] = call[c].workflow]
    BY DEF Receive, Resolve, ReadRow, CreateExecution, CallBreaks
  <2>2. started = [started EXCEPT ![c] = started[c]]
    BY <1>0
  <2> QED
    BY <2>1, <2>2, <1>0 DEF CallRecord
<1> QED
  BY <1>1, <1>16, <1>17, <1>18, OthersWait
(* A call arrives, at a path that was handed out or is about to be. *)
LEMMA CallArrives ==
    ASSUME NEW c \in Caller, NEW p \in Request, NEW k \in Request \cup {None}, HookInv, Arrive(c, p, k)
    PROVE  HookInv'
<1>0. HookTyped /\ PathsHold /\ \A d \in Caller : CallHolds(d)
  BY DEF HookInv
<1>1. /\ op' = op /\ on' = on /\ pc' = pc /\ bindings' = bindings /\ row' = row /\ started' = started
      /\ call[c].at = "idle" /\ op[p] = "register"
      /\ call' = [call EXCEPT ![c] = [at |-> "resolve", path |-> p, key |-> k, workflow |-> None]]
      /\ held' = [held EXCEPT ![c] = {Facts(p)}]
  BY DEF Arrive, vars, requestVars
<1>2. \A q : Facts(q)' = Facts(q)
  BY <1>1 DEF Facts, Bound, ActiveWorkflows
<1>3. HookTyped'
  <2>1. Facts(p) \in [bound : BOOLEAN, active : BOOLEAN]
    BY DEF Facts
  <2>2. [at |-> "resolve", path |-> p, key |-> k, workflow |-> None] \in CallRecord
    BY DEF CallRecord, CallStates
  <2> QED
    BY <1>0, <1>1, <2>1, <2>2 DEF HookTyped
<1>4. PathsHold' /\ \A q \in Request : op[q] = "register" => op'[q] = op[q] /\ on'[q] = on[q]
  BY <1>0, <1>1 DEF PathsHold
<1>5. CallHolds(c)'
  <2>1. call'[c] = [at |-> "resolve", path |-> p, key |-> k, workflow |-> None] /\ held'[c] = {Facts(p)}
    BY <1>0, <1>1 DEF HookTyped
  <2>2. started'[c] = None
    BY <1>0, <1>1 DEF CallHolds
  <2>3. Facts(call[c].path)' \in held'[c]
    BY <1>2, <2>1
  <2> QED
    BY <1>1, <2>1, <2>2, <2>3 DEF CallHolds
<1>6. ASSUME NEW d \in Caller, d # c
      PROVE  CallHolds(d)'
  <2>1. call' \in [Caller -> CallRecord] /\ call'[d] = call[d] /\ started'[d] = started[d] /\ held'[d] = held[d]
    BY <1>0, <1>1, <1>3, <1>6 DEF HookTyped
  <2>2. \A q \in Request : d \in UnderWay /\ q = call[d].path => Facts(q)' \in held'[d]
    BY <1>0, <1>2, <2>1 DEF CallHolds
  <2>3. call'[d].at = "failed" => call[d].at # "idle" /\ started[d] = None
    BY <1>0, <2>1 DEF CallHolds
  <2> QED
    BY <1>4, <2>1, <2>2, <2>3, CallWaits
<1> QED
  BY <1>3, <1>4, <1>5, <1>6 DEF HookInv

(* The owner's requests, and a restart that ends the calls under way. *)
LEMMA OwnerGoesOn == IInv /\ HookInv /\ OwnerActs => HookInv'
<1> SUFFICES ASSUME IInv, HookInv, OwnerActs PROVE HookInv'
  OBVIOUS
<1>0. HookTyped /\ PathsHold /\ \A d \in Caller : CallHolds(d)
  BY DEF HookInv
<1>1. PathsHold' /\ \A p \in Request : op[p] = "register" => op'[p] = op[p] /\ on'[p] = on[p]
  BY <1>0, PathsKept DEF OwnerActs
<1>2. /\ started' = started
      /\ \A c \in Caller : call'[c] = call[c] \/ (c \in UnderWay /\ call'[c] = [call[c] EXCEPT !.at = "failed"])
  BY DEF OwnerActs
<1>3. HookTyped'
  <2>1. \A c \in Caller : call'[c] \in CallRecord
    <3> TAKE c \in Caller
    <3>1. call[c] \in CallRecord /\ "failed" \in CallStates
      BY <1>0 DEF HookTyped, CallStates
    <3>2. [call[c] EXCEPT !.at = "failed"] \in CallRecord
      BY <3>1 DEF CallRecord
    <3> QED
      BY <3>1, <3>2, <1>2
  <2>2. call' \in [Caller -> CallRecord]
    BY <2>1 DEF OwnerActs
  <2> QED
    BY <1>0, <1>2, <2>2, ObservedIsTyped DEF OwnerActs, HookTyped
<1>4. ASSUME NEW c \in Caller
      PROVE  CallHolds(c)'
  <2>1. call' \in [Caller -> CallRecord] /\ started'[c] = started[c] /\ call[c] \in CallRecord
        /\ call'[c] \in {call[c], [call[c] EXCEPT !.at = "failed"]}
    BY <1>0, <1>2, <1>3 DEF HookTyped
  <2>2. held[c] \subseteq held'[c]
    BY DEF OwnerActs, Observe
  <2>3. \A p \in Request : c \in UnderWay /\ p = call[c].path => Facts(p)' \in held'[c]
    BY DEF OwnerActs, Observe
  <2>4. call'[c].at = "failed" => call[c].at # "idle" /\ started[c] = None
    BY <1>0, <1>2, <2>1 DEF CallHolds, UnderWay
  <2> QED
    BY <1>1, <2>1, <2>2, <2>3, <2>4, CallWaits
<1> QED
  BY <1>1, <1>3, <1>4 DEF HookInv

(* A step of the owner is one of WorkflowStore; a call's own changes       *)
(* nothing of the store.                                                   *)
LEMMA HookStepIsStoreStep == [HookNext]_<<vars, hookVars>> => [Next]_vars
<1>1. OwnerActs => Next
  BY DEF OwnerActs
<1>2. \A c \in Caller : Receive(c) => UNCHANGED vars
  BY DEF Receive, Resolve, ReadRow, CreateExecution, CallBreaks, Move
<1>3. \A c \in Caller, p \in Request, k \in Request \cup {None} : Arrive(c, p, k) => UNCHANGED vars
  BY DEF Arrive
<1> QED
  BY <1>1, <1>2, <1>3 DEF HookNext

LEMMA HookInductive ==
    IInv /\ HookInv /\ [HookNext]_<<vars, hookVars>> => (IInv /\ HookInv)'
<1> SUFFICES ASSUME IInv, HookInv, [HookNext]_<<vars, hookVars>>
             PROVE  IInv' /\ HookInv'
  OBVIOUS
<1>1. [Next]_vars
  <2>1. OwnerActs => Next
    BY DEF OwnerActs
  <2>2. \A c \in Caller : Receive(c) => UNCHANGED vars
    BY DEF Receive, Resolve, ReadRow, CreateExecution, CallBreaks, Move
  <2>3. \A c \in Caller, p \in Request, k \in Request \cup {None} : Arrive(c, p, k) => UNCHANGED vars
    BY DEF Arrive
  <2> QED
    BY <2>1, <2>2, <2>3 DEF HookNext
<1>2. IInv'
  BY <1>1, Inductive
<1>3. OwnerActs => HookInv'
  BY OwnerGoesOn
<1>4. ASSUME NEW c \in Caller, Receive(c) PROVE HookInv'
  BY <1>4, CallMoves
<1>5. ASSUME NEW c \in Caller, NEW p \in Request, NEW k \in Request \cup {None}, Arrive(c, p, k)
      PROVE  HookInv'
  BY <1>5, CallArrives
<1>6. ASSUME UNCHANGED <<vars, hookVars>> PROVE HookInv'
  <2>1. call' = call /\ started' = started /\ held' = held /\ HookTyped' /\ PathsHold'
    BY <1>6 DEF hookVars, vars, requestVars, HookInv, HookTyped, PathsHold
  <2>2. \A p \in Request : op[p] = "register" => op'[p] = op[p] /\ on'[p] = on[p]
    BY <1>6 DEF vars, requestVars
  <2>3. ASSUME NEW c \in Caller
        PROVE  CallHolds(c)'
    <3>1. call' \in [Caller -> CallRecord] /\ CallHolds(c)
      BY <2>1 DEF HookInv, HookTyped
    <3>2. \A p \in Request : Facts(p)' = Facts(p)
      BY <1>6 DEF vars, requestVars, Facts, Bound, ActiveWorkflows
    <3>3. \A p \in Request : c \in UnderWay /\ p = call[c].path => Facts(p)' \in held'[c]
      BY <2>1, <3>1, <3>2 DEF CallHolds
    <3>4. call'[c].at = "failed" => call[c].at # "idle" /\ started[c] = None
      BY <2>1, <3>1 DEF CallHolds
    <3> QED
      BY <2>1, <2>2, <3>1, <3>3, <3>4, CallWaits
  <2> QED
    BY <2>1, <2>3 DEF HookInv
<1> QED
  BY <1>2, <1>3, <1>4, <1>5, <1>6 DEF HookNext

-----------------------------------------------------------------------------
(* Requests one after the other, and a call among them.                    *)

(* What this call has seen is not forgotten, and a workflow that was       *)
(* deleted stays so, so a call that stands where it stood has seen both.   *)
LEMMA SeenStaysSeen ==
    ASSUME NEW c \in Caller, SawBoth(c), held[c] \subseteq held'[c],
           mixed => mixed', ~mixed' => Deleted \subseteq Deleted',
           call'[c].at \in {call[c].at, "failed"}, call'[c].workflow = call[c].workflow
    PROVE  SawBoth(c)'
<1> SUFFICES ASSUME ~mixed', call'[c].at \in {"row", "execute", "create", "202"}
             PROVE  \/ \E h \in held'[c] : h.bound /\ h.active
                    \/ call'[c].at = "row" /\ call'[c].workflow \in Deleted'
  BY DEF SawBoth
<1>1. ~mixed /\ call'[c].at = call[c].at
  OBVIOUS
<1>2. \/ \E h \in held[c] : h.bound /\ h.active
      \/ call[c].at = "row" /\ call[c].workflow \in Deleted
  BY <1>1 DEF SawBoth
<1> QED
  BY <1>1, <1>2

(* The call itself goes on: it finds its path bound, to a workflow that    *)
(* exists, and what it reads next is active only if it is not deleted.     *)
LEMMA CallSees ==
    ASSUME NEW c \in Caller, IInv, SequentialInv, HookInv, SawBoth(c), Receive(c)
    PROVE  SawBoth(c)'
<1>0. /\ call \in [Caller -> CallRecord] /\ call[c] \in CallRecord /\ CallHolds(c) /\ PathsHold
  BY DEF HookInv, HookTyped
<1>1. UNCHANGED vars /\ Observe /\ mixed' = mixed /\ row' = row /\ Deleted' = Deleted
  BY DEF Receive, Resolve, ReadRow, CreateExecution, CallBreaks, Move, vars, requestVars, Deleted
<1>2. \A h \in held[c] : h \in held'[c]
  BY <1>1 DEF Observe
<1> SUFFICES ASSUME ~mixed, call'[c].at \in {"row", "execute", "create", "202"}
             PROVE  \/ \E h \in held[c] : h.bound /\ h.active
                    \/ call'[c].at = "row" /\ call'[c].workflow \in Deleted
  BY <1>1, <1>2 DEF SawBoth
<1>3. CASE Resolve(c)
  <2>1. PICK w \in Bound(call[c].path) :
          call[c].at = "resolve" /\ call' = [call EXCEPT ![c].at = "row", ![c].workflow = w]
    <3>1. ASSUME NEW to \in {"404", "401"}, Move(c, "resolve", to) PROVE FALSE
      BY <3>1, <1>0 DEF Move, CallRecord
    <3> QED
      BY <3>1, <1>3 DEF Resolve
  <2>2. call'[c].at = "row" /\ call'[c].workflow = w /\ w \in Workflow /\ on[call[c].path] = w
    BY <2>1, <1>0 DEF CallRecord, Bound, PathsHold
  <2>3. row[w] # None
    BY <2>1, <2>2 DEF Bound, SequentialInv, RestHolds
  <2>4. Facts(call[c].path) \in held[c]
    BY <2>1, <1>0 DEF CallHolds, UnderWay
  <2>5. Facts(call[c].path).bound /\ (w \notin Deleted => Facts(call[c].path).active)
    BY <2>1, <2>2, <2>3 DEF Facts, ActiveWorkflows, Deleted
  <2> QED
    BY <2>2, <2>4, <2>5
<1>4. CASE ReadRow(c)
  <2>1. call[c].at \in {"row", "execute"} /\ call[c].workflow \in ActiveWorkflows
    BY <1>0, <1>4 DEF ReadRow, Move, CallRecord
  <2>2. call[c].workflow \notin Deleted
    BY <2>1 DEF ActiveWorkflows, Deleted
  <2> QED
    BY <2>1, <2>2 DEF SawBoth
<1>5. CASE CreateExecution(c)
  <2>1. call[c].at = "create"
    BY <1>5 DEF CreateExecution, Move
  <2> QED
    BY <2>1 DEF SawBoth
<1>6. CASE CallBreaks(c)
  <2>1. call'[c].at = "failed"
    BY <1>0, <1>6 DEF CallBreaks, Move, CallRecord
  <2> QED
    BY <2>1
<1> QED
  BY <1>3, <1>4, <1>5, <1>6 DEF Receive

LEMMA SawInductive ==
    ASSUME IInv, SequentialInv, HookInv, \A c \in Caller : SawBoth(c),
           [HookNext]_<<vars, hookVars>>
    PROVE  \A c \in Caller : SawBoth(c)'
<1>1. (mixed => mixed') /\ (~mixed' => Deleted \subseteq Deleted')
  <2>1. [Next]_vars
    BY HookStepIsStoreStep
  <2>2. mixed => mixed'
    <3>1. ASSUME NEW r \in Request, NEW w \in Workflow, Handle(r, w) PROVE mixed => mixed'
      BY <3>1 DEF Handle, Create, Update, SoftDelete, FindActive, Activate, Deactivate, Register,
                  Unregister, Accept
    <3>2. ASSUME NEW r \in Request, Continue(r) PROVE mixed => mixed'
      BY <3>2 DEF Continue, HookCall, SaveReads, SaveCommits, ReadHead, ReadNumber, Insert, CallFails
    <3>3. (Restart => mixed') /\ (UNCHANGED vars => mixed' = mixed)
      BY DEF Restart, vars
    <3> QED
      BY <2>1, <3>1, <3>2, <3>3 DEF Next
  <2>3. ~mixed' => DeletedStays
    BY <2>1, DeletedIsFinal
  <2> QED
    BY <2>2, <2>3 DEF DeletedStays, Deleted
<1>2. HookTyped
  BY DEF HookInv
<1> SUFFICES ASSUME NEW c \in Caller PROVE SawBoth(c)'
  OBVIOUS
<1>3. CASE OwnerActs
  <2>1. held[c] \subseteq held'[c]
    BY <1>3 DEF OwnerActs, Observe
  <2>2. call'[c].at \in {call[c].at, "failed"} /\ call'[c].workflow = call[c].workflow
    BY <1>2, <1>3 DEF OwnerActs, HookTyped, CallRecord
  <2> QED
    BY <2>1, <2>2, <1>1, SeenStaysSeen
<1>4. ASSUME NEW d \in Caller, Receive(d) PROVE SawBoth(c)'
  <2>1. CASE d = c
    BY <2>1, <1>4, CallSees
  <2>2. CASE d # c
    <3>1. Observe /\ call'[c] = call[c]
      BY <2>2, <1>2, <1>4 DEF Receive, Resolve, ReadRow, CreateExecution, CallBreaks, Move, HookTyped
    <3>2. held[c] \subseteq held'[c]
      BY <3>1 DEF Observe
    <3> QED
      BY <3>1, <3>2, <1>1, SeenStaysSeen
  <2> QED
    BY <2>1, <2>2
<1>5. ASSUME NEW d \in Caller, NEW p \in Request, NEW k \in Request \cup {None}, Arrive(d, p, k)
      PROVE  SawBoth(c)'
  <2>1. CASE d = c
    BY <2>1, <1>2, <1>5 DEF Arrive, SawBoth, HookTyped
  <2>2. CASE d # c
    <3>1. call'[c] = call[c] /\ held'[c] = held[c]
      BY <2>2, <1>2, <1>5 DEF Arrive, HookTyped
    <3> QED
      BY <3>1, <1>1, SeenStaysSeen
  <2> QED
    BY <2>1, <2>2
<1>6. CASE UNCHANGED <<vars, hookVars>>
  <2>1. call' = call /\ held' = held
    BY <1>6 DEF hookVars
  <2> QED
    BY <2>1, <1>1, SeenStaysSeen
<1> QED
  BY <1>3, <1>4, <1>5, <1>6 DEF HookNext

(* What receive_webhook answers is true of some moment of the call, and an *)
(* execution is started only by who holds the secret of a path bound then, *)
(* on its workflow and while that was active, for any number of callers,   *)
(* requests of the owner, restarts and failing calls; and as long as the   *)
(* owner's requests come one after the other, the two are so at once.      *)
THEOREM WebhooksAreHonest == HookSpec => []WebhookCallsHonest
<1> DEFINE Saw == \A c \in Caller : SawBoth(c)
           Inv == IInv /\ HookInv /\ SequentialInv /\ Saw
<1>1. Init /\ HookInit => Inv
  BY Initially, HookStarts, SequentialStarts DEF HookInit, SawBoth, Idle
<1>2. Inv /\ [HookNext]_<<vars, hookVars>> => Inv'
  BY HookInductive, HookStepIsStoreStep, SequentialInductive, SawInductive
<1>3. Inv => WebhookCallsHonest
  <2> SUFFICES ASSUME Inv PROVE WebhookCallsHonest
    OBVIOUS
  <2>1. AnswersAreTrue
    BY DEF HookInv, CallHolds, AnswersAreTrue
  <2>2. ~mixed => StartedAtOneMoment
    BY DEF HookInv, CallHolds, SawBoth, StartedAtOneMoment
  <2> QED
    BY <2>1, <2>2 DEF WebhookCallsHonest
<1> QED
  BY <1>1, <1>2, <1>3, PTL DEF HookSpec
=============================================================================
