------------------------------ MODULE MCExecution ------------------------------
(***************************************************************************)
(* A workflow's execution in its parts, one at a time: the graph from the  *)
(* request body to its levels, the credentials of its nodes, one node and  *)
(* its service, the nodes that work on values.  What is not in focus stays *)
(* still.                                                                  *)
(***************************************************************************)
EXTENDS ExecutorLevels, NodeCalls, NodeValues, CredentialRefs, TLC

VARIABLE focus
mcVars == <<allVars, callVars, valueVars, credVars, focus>>

SeqsUpTo(S, n) == UNION {[1..k -> S] : k \in 0..n}

(* Request bodies of two kinds: every list of up to three node ids and     *)
(* three edges over three ids (repeated ids, repeated edges, self loops,   *)
(* and an id no node carries), and every list of up to four edges that go  *)
(* from a later to an earlier of four ids, so that the order of the list   *)
(* never helps the algorithms.                                             *)
MCNodeIds == {"a", "b", "c"}
AnyGraphs ==
  [nodes : SeqsUpTo(MCNodeIds, 3), edges : SeqsUpTo([source : MCNodeIds, target : MCNodeIds], 3)]
MCOrder == <<"a", "b", "c", "d">>
BackwardEdges ==
  {[source |-> MCOrder[p[1]], target |-> MCOrder[p[2]]] :
      p \in {q \in (1..4) \X (1..4) : q[1] > q[2]}}
MCGraphs == AnyGraphs \union [nodes : {MCOrder}, edges : SeqsUpTo(BackwardEdges, 4)]

(* Each type with all it needs, or one thing less, or in a loop.           *)
Givens(t) ==
  LET full == {NodeType(t, base).needs \union base : base \in {{}, {"start_datetime"}}}
  IN  full \union {f \ {k} : f \in full, k \in UNION full}
MCJobs ==
  UNION {[type : {t}, given : Givens(t), loop : {FALSE}, items : {1}, slots : {1}]
         \union [type : {t}, given : {NodeType(t, {}).needs}, loop : {TRUE}, items : 0..2, slots : 0..2]
           : t \in Types}
  \union [type : {"loop_items", "unknown"}, given : {{}}, loop : {TRUE}, items : {1}, slots : {1}]

(* Lists of items with and without the field, and values of every kind.    *)
MCValues == {None, <<"int", 0>>, <<"int", 1>>} \union
  {<<"list", l>> : l \in {<<>>, <<<<"int", 0>>>>, <<<<"int", 1>>, None>>, <<None, <<"int", 1>>>>}}
MCItems  == {<<"dict", <<>>>>} \union {<<"dict", "f" :> v>> : v \in MCValues}
MCQuestions ==
  [items : SeqsUpTo(MCItems, 3), field : {"f"}, value : MCValues,
   op : Orders \union {"in", "not_in", "contains", "truthy", "like"}]

(* Two nodes whose references are complete, lack their id, share a         *)
(* credential, or ask for a field the secret does not have.                *)
Ref(c, fields) == [cred |-> c, inject |-> fields]
NoRef   == [cred |-> "none"]
Key     == {"secret"}
MCRefGraphs ==
  {"m" :> p[1] @@ "n" :> p[2] :
     p \in {<<NoRef, NoRef>>, <<Ref("no id", Key), NoRef>>, <<Ref("no id", Key), Ref("c1", Key)>>,
            <<Ref("c1", Key), Ref("c1", Key \union {"credential_id"})>>,
            <<Ref("c1", Key), Ref("c2", Key)>>, <<Ref("c2", {"other"}), NoRef>>}}

-----------------------------------------------------------------------------
AnyGraph    == [nodes |-> <<>>, edges |-> <<>>]
AnyJob      == CHOOSE j \in [type : {"loop_items"}, given : {{}}, loop : {TRUE}, items : {1}, slots : {1}] : TRUE
AnyQuestion == [items |-> <<>>, field |-> "f", value |-> None, op |-> "eq"]

MCInit ==
  /\ focus \in {"graph", "node", "values", "credentials"}
  /\ graph \in (IF focus = "graph" THEN Graphs ELSE {AnyGraph}) /\ LInit
  /\ job \in (IF focus = "node" THEN Jobs ELSE {AnyJob}) /\ CallsInit
  /\ question \in (IF focus = "values" THEN Questions ELSE {AnyQuestion}) /\ ValuesInit
  /\ saved \in (IF focus = "credentials" THEN RefGraphs ELSE {CHOOSE g \in RefGraphs : TRUE})
  /\ CredInit

GraphStep == focus = "graph" /\ LNext /\ UNCHANGED <<callVars, valueVars, credVars, focus>>
CallStep  == focus = "node" /\ CallsNext /\ UNCHANGED <<allVars, valueVars, credVars, focus>>
MCNext ==
  \/ GraphStep \/ CallStep
  \/ focus = "values" /\ Execute /\ UNCHANGED <<allVars, callVars, credVars, focus>>
  \/ focus = "credentials" /\ CredNext /\ UNCHANGED <<allVars, callVars, valueVars, focus>>

MCSpec ==
  /\ MCInit /\ [][MCNext]_mcVars
  /\ WF_mcVars(GraphStep) /\ WF_mcVars(CallStep /\ NodeStep)

-----------------------------------------------------------------------------
(* A graph is refused or has its levels found (dag_validator.py:46,        *)
(* executor.py:28), and a node ends, or hangs on nothing but services that *)
(* trickle or do not let go (db_query.py:58, http_request.py:40).          *)
RunsEnd == (focus = "graph" => Terminates) /\ (focus = "node" => CallsEnd)
=============================================================================
