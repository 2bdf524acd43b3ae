SPECIFICATION FairSpec
CONSTANTS
    a = a
    b = b
    c = c
    d = d
    Execution = {e1, e2}
    Runner = {w1}
    Node <- PairNodes
    Edge <- TwinEdges
    Levels <- TwinLevels
    None = None
    FailingCalls = {"finalize"}
    MaxPublishes = 1
    MaxRedeliveries = 1
    MaxCrashes = 0
    MaxReboots = 1
INVARIANTS
    NothingForgotten
PROPERTIES
    TasksSettle
CHECK_DEADLOCK FALSE
