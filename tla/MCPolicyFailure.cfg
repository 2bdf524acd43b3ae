SPECIFICATION Spec
CONSTANTS
    MaxIters = {2}
INVARIANTS
    LaterFailuresFolded
CHECK_DEADLOCK FALSE
