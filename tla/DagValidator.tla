---------------------------- MODULE DagValidator ----------------------------
(***************************************************************************)
(* validate_dag (API_Server/app/services/dag_validator.py): the check that *)
(* a workflow graph passes before it is saved.  A graph is a list of node  *)
(* ids and a list of edges, as the request body carries them: an id may be *)
(* repeated, an edge may be repeated, an endpoint may be unknown.          *)
(*                                                                         *)
(* The function runs without interruption; each iteration of its Kahn loop *)
(* is one step here so that the loop's invariant can be stated.  The       *)
(* deque is abstracted to a set: which ready node is popped first changes  *)
(* no verdict, and every property below holds for any choice.              *)
(***************************************************************************)
EXTENDS WorkflowGraph

CONSTANTS
    NodeId,   \* identifiers a node or an edge endpoint may carry
    Graphs    \* the request bodies to validate

ASSUME GraphsAssumption ==
    Graphs \subseteq [nodes : Seq(NodeId),
                      edges : Seq([source : NodeId, target : NodeId])]

VARIABLES
    graph,    \* the argument
    pc,       \* "check", "kahn", or the verdict
    indeg,    \* indegree not yet consumed, per known node
    queue,    \* nodes ready to be popped
    visited,  \* the code's counter
    rank      \* history: the value of visited once the node was popped, 0 before

vars == <<graph, pc, indeg, queue, visited, rank>>

-----------------------------------------------------------------------------
Verdicts == {"accepted", "empty", "duplicate id", "unknown endpoint", "cycle"}

-----------------------------------------------------------------------------
Init ==
    /\ graph \in Graphs
    /\ pc = "check"
    /\ indeg = [n \in IdSet(graph) |-> 0]
    /\ queue = {}
    /\ visited = 0
    /\ rank = [n \in IdSet(graph) |-> 0]

(* The checks before the loop, in the code's order. *)
Reject(verdict) ==
    /\ pc = "check"
    /\ pc' = verdict
    /\ UNCHANGED <<graph, indeg, queue, visited, rank>>

RejectEmpty == graph.nodes = <<>> /\ Reject("empty")

RejectDuplicate == DuplicateIds(graph) /\ Reject("duplicate id")

RejectUnknownEndpoint ==
    /\ graph.nodes # <<>> /\ ~DuplicateIds(graph)
    /\ UnknownEndpoint(graph)
    /\ Reject("unknown endpoint")

BuildIndegrees ==
    /\ pc = "check"
    /\ graph.nodes # <<>> /\ ~DuplicateIds(graph) /\ ~UnknownEndpoint(graph)
    /\ indeg' = [n \in IdSet(graph) |-> Cardinality(EdgesInto(graph, n))]
    /\ queue' = {n \in IdSet(graph) : EdgesInto(graph, n) = {}}
    /\ pc' = "kahn"
    /\ UNCHANGED <<graph, visited, rank>>

(* One iteration: pop a ready node, consume its outgoing edges, and append *)
(* the targets whose indegree reached zero by that.                        *)
Visit(cur) ==
    /\ pc = "kahn"
    /\ cur \in queue
    /\ visited' = visited + 1
    /\ rank' = [rank EXCEPT ![cur] = visited + 1]
    /\ indeg' = Consume(graph, indeg, {cur})
    /\ queue' = (queue \ {cur}) \cup NewlyReady(indeg, indeg')
    /\ UNCHANGED <<graph, pc>>

Decide ==
    /\ pc = "kahn"
    /\ queue = {}
    /\ pc' = IF visited # Len(graph.nodes) THEN "cycle" ELSE "accepted"
    /\ UNCHANGED <<graph, indeg, queue, visited, rank>>

Next ==
    \/ RejectEmpty
    \/ RejectDuplicate
    \/ RejectUnknownEndpoint
    \/ BuildIndegrees
    \/ \E cur \in IdSet(graph) : Visit(cur)
    \/ Decide

Spec == Init /\ [][Next]_vars

-----------------------------------------------------------------------------
(* Every variable stays in its range: no indegree is consumed twice, no   *)
(* more nodes are visited than the list has.                              *)
TypeOK ==
    /\ graph \in Graphs
    /\ pc \in {"check", "kahn"} \cup Verdicts
    /\ indeg \in [IdSet(graph) -> Nat]
    /\ queue \subseteq IdSet(graph)
    /\ visited \in 0..Len(graph.nodes)
    /\ rank \in [IdSet(graph) -> 0..visited]

(* What the executor relies on: a graph is accepted only when it can be    *)
(* scheduled, that is when ids are distinct, endpoints are known and no    *)
(* node reaches itself.                                                    *)
AcceptSound == pc = "accepted" => WellFormed(graph) /\ OnCycle(graph) = {}

(* No schedulable graph is refused: each refusal has its cause in the      *)
(* graph, parallel edges between two nodes included.                       *)
RejectSound ==
    /\ pc = "cycle" => WellFormed(graph) /\ OnCycle(graph) # {}
    /\ pc = "unknown endpoint" => UnknownEndpoint(graph)
    /\ pc = "duplicate id" => DuplicateIds(graph)
    /\ pc = "empty" => graph.nodes = <<>>

(* The order in which an accepted graph was visited lists every node and   *)
(* puts the source of each edge before its target.                         *)
AcceptedOrder ==
    pc = "accepted" =>
        /\ \A n \in IdSet(graph) : rank[n] > 0
        /\ \A i \in DOMAIN graph.edges :
               rank[graph.edges[i].source] < rank[graph.edges[i].target]

(* The verdict is the one the graph deserves, whatever node is popped      *)
(* first, and an accepted graph was visited in an order it can run in.     *)
VerdictExact == AcceptSound /\ RejectSound /\ AcceptedOrder
=============================================================================
