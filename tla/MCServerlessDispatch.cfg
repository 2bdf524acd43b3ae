SPECIFICATION Spec
CONSTANTS
    a = a
    b = b
    c = c
    d = d
    Execution = {e1}
    Runner = {w1, w2}
    Node <- ForkNodes
    Edge <- ForkEdges
    Levels <- ForkLevels
    None = None
    FailingCalls = {"load", "resolve", "refuse", "start", "append", "succeed", "except", "wake", "send", "claim", "release"}
    MaxPublishes = 2
    MaxRedeliveries = 1
    MaxCrashes = 1
    MaxReboots = 0
INVARIANTS
    RunsOnce
PROPERTIES
    ImplementsLifecycle
CHECK_DEADLOCK FALSE
