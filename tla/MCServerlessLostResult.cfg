SPECIFICATION Spec
CONSTANTS
    a = a
    b = b
    c = c
    d = d
    Execution = {e1}
    Runner = {w1}
    Node <- ForkNodes
    Edge <- ForkEdges
    Levels <- ForkLevels
    None = None
    FailingCalls = {}
    MaxPublishes = 1
    MaxRedeliveries = 0
    MaxCrashes = 0
    MaxReboots = 0
INVARIANTS
    SuccessRecorded
CHECK_DEADLOCK FALSE
