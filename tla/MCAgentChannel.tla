---------------------------- MODULE MCAgentChannel ----------------------------
(* A workflow whose second level runs two nodes in parallel. *)
EXTENDS AgentChannel

CONSTANTS a, b, c

ForkNodes == {a, b, c}
ForkEdges == {<<a, b>>, <<a, c>>}
ForkLevels == <<{a}, {b, c}>>
=============================================================================
