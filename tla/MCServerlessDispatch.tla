------------------------- MODULE MCServerlessDispatch -------------------------
(* Small workflows: a fork, whose second level runs two handlers in        *)
(* parallel, a chain of two, and two nodes with no connection.             *)
EXTENDS ServerlessDispatch

CONSTANTS a, b, c, d

ForkNodes == {a, b, c}
ForkEdges == {<<a, b>>, <<a, c>>}
ForkLevels == <<{a}, {b, c}>>

PairNodes == {a, b}
PairEdges == {<<a, b>>}
PairLevels == <<{a}, {b}>>

TwinEdges == {}
TwinLevels == <<{a, b}>>
=============================================================================
