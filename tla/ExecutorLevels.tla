---------------------------- MODULE ExecutorLevels ----------------------------
(***************************************************************************)
(* From the saved graph to its execution.  validate_dag decides first (see *)
(* DagValidator); run_workflow (Execution_Engine/src/runtime/executor.py)  *)
(* then runs Kahn's algorithm again, grouping the nodes into levels whose  *)
(* nodes run in parallel.  The executor detects no cycle itself: it trusts *)
(* the verdict.  One iteration of its while loop is one step.              *)
(***************************************************************************)
EXTENDS DagValidator

VARIABLES
    left,    \* the executor's indeg
    next,    \* its queue: the next level
    levels

levelVars == <<left, next, levels>>
allVars == <<vars, levelVars>>

-----------------------------------------------------------------------------
LInit ==
    /\ Init
    /\ left = [n \in IdSet(graph) |-> 0]
    /\ next = {}
    /\ levels = <<>>

(* run_workflow is called for a graph that was accepted. *)
StartRun ==
    /\ pc = "accepted"
    /\ levels = <<>> /\ next = {}
    /\ left' = [n \in IdSet(graph) |-> Cardinality(EdgesInto(graph, n))]
    /\ next' = {n \in IdSet(graph) : EdgesInto(graph, n) = {}}
    /\ UNCHANGED <<vars, levels>>

TakeLevel ==
    /\ next # {}
    /\ levels' = Append(levels, next)
    /\ left' = Consume(graph, left, next)
    /\ next' = NewlyReady(left, left')
    /\ UNCHANGED vars

LNext ==
    \/ Next /\ UNCHANGED levelVars
    \/ StartRun
    \/ TakeLevel

(* Both functions run to their end once called. *)
LSpec == LInit /\ [][LNext]_allVars /\ WF_allVars(LNext)

-----------------------------------------------------------------------------
(* Every variable stays in its range: no edge is consumed twice. *)
LevelsTypeOK ==
    /\ TypeOK
    /\ left \in [IdSet(graph) -> Nat]
    /\ next \subseteq IdSet(graph)
    /\ levels \in Seq(SUBSET IdSet(graph))

(* Levels built so far never place a node twice nor run an edge backwards, *)
(* at every iteration: a node of the next level has all its predecessors   *)
(* in earlier levels.                                                      *)
PrefixClosed ==
    \A k \in DOMAIN Append(levels, next) : \A i \in DOMAIN graph.edges :
        graph.edges[i].target \in Append(levels, next)[k] =>
            \E j \in 1..(k - 1) : graph.edges[i].source \in levels[j]

(* The executor's grouping agrees with the validator's verdict: on every   *)
(* graph the validator accepts no node is dropped, none runs twice, and    *)
(* every edge goes to a later level.                                       *)
LevelsComplete ==
    levels # <<>> /\ next = {} => IsLevelling(IdSet(graph), Pairs(graph), levels)

(* Nothing waits without need: a node below the first level has a          *)
(* predecessor in the level just above, so independent nodes of equal      *)
(* depth share a level.                                                    *)
LevelsTight ==
    \A k \in 2..Len(levels) : \A n \in levels[k] :
        \E i \in EdgesInto(graph, n) : graph.edges[i].source \in levels[k - 1]

(* The grouping of an accepted graph is right at every iteration, complete *)
(* at the end and as parallel as the edges allow.                          *)
LevelsCorrect == PrefixClosed /\ LevelsComplete /\ LevelsTight

(* Both loops end: a graph is refused, or all its levels are found.        *)
Terminates == <>(pc \in Verdicts /\ (pc = "accepted" => levels # <<>> /\ next = {}))
=============================================================================
