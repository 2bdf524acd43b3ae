---------------------------- MODULE WorkflowGraph ----------------------------
(***************************************************************************)
(* Workflow graphs as the request body, the workflows row and the executor *)
(* carry them: a list of node ids and a list of edges.  An edge is named   *)
(* by its position in the list, so that parallel edges stay distinct.      *)
(* The second half holds reference definitions, independent of the two     *)
(* algorithms that read a graph (DagValidator, ExecutorLevels).            *)
(***************************************************************************)
EXTENDS Integers, Sequences, FiniteSets

IdSet(g) == {g.nodes[k] : k \in DOMAIN g.nodes}

EdgesInto(g, n) == {i \in DOMAIN g.edges : g.edges[i].target = n}

EdgesFrom(g, S) == {i \in DOMAIN g.edges : g.edges[i].source \in S}

(* Mutant: parallel edges are consumed as one. *)
Consume_OncePerPair(g, indeg, S) ==
    [n \in DOMAIN indeg |->
        indeg[n] - Cardinality({g.edges[i].source : i \in EdgesInto(g, n) \cap EdgesFrom(g, S)})]

(* Counting down: what is left of each indegree once the edges that leave  *)
(* the nodes S are consumed, and the nodes that become ready by that.      *)
Consume(g, indeg, S) ==
    [n \in DOMAIN indeg |-> indeg[n] - Cardinality(EdgesInto(g, n) \cap EdgesFrom(g, S))]

(* Mutant: a node is ready after its first predecessor. *)
NewlyReady_First(before, after) == {n \in DOMAIN before : after[n] < before[n]}

NewlyReady(before, after) == {n \in DOMAIN before : before[n] > 0 /\ after[n] = 0}

DuplicateIds(g) == Len(g.nodes) # Cardinality(IdSet(g))

UnknownEndpoint(g) ==
    \E i \in DOMAIN g.edges : {g.edges[i].source, g.edges[i].target} \ IdSet(g) # {}

-----------------------------------------------------------------------------
WellFormed(g) == g.nodes # <<>> /\ ~DuplicateIds(g) /\ ~UnknownEndpoint(g)

Successors(g, S) == {g.edges[i].target : i \in EdgesFrom(g, S)}

(* n is reached from m by a path of at least one edge: n belongs to every  *)
(* set that holds m's successors and is closed under succession.           *)
Reaches(g, m, n) ==
    \A S \in SUBSET IdSet(g) :
        (Successors(g, {m}) \cup Successors(g, S)) \subseteq S => n \in S

OnCycle(g) == {n \in IdSet(g) : Reaches(g, n, n)}

(* levels puts every node in exactly one level and the source of each edge *)
(* in an earlier level than its target.  pairs: the edges as a relation.   *)
IsLevelling(nodes, pairs, levels) ==
    /\ \A n \in nodes : \E k \in DOMAIN levels : n \in levels[k]
    /\ \A k \in DOMAIN levels : levels[k] \subseteq nodes
    /\ \A j, k \in DOMAIN levels : levels[j] \cap levels[k] # {} => j = k
    /\ \A e \in pairs : \A j, k \in DOMAIN levels :
           e[1] \in levels[j] /\ e[2] \in levels[k] => j < k

Pairs(g) == {<<g.edges[i].source, g.edges[i].target>> : i \in DOMAIN g.edges}
=============================================================================
