SPECIFICATION FairSpec
CONSTANTS
    a = a
    b = b
    c = c
    Execution = {e1}
    Runner = {w1, w2}
    Agent = {a1, a2}
    Socket = {s1, s2}
    Node <- ForkNodes
    Edge <- ForkEdges
    Levels <- ForkLevels
    None = None
    FailingCalls = {"encrypt", "refuse", "receive"}
    MaxRestarts = 1
INVARIANTS
    TableLive
    RowComplete
PROPERTIES
    FinalStays
    RefusedAlone
    AgentSettles
CHECK_DEADLOCK FALSE
