SPECIFICATION MCSpec
CONSTANTS
    Workflow = {w1, w2}
    Request = {r1, r2, r3, r4}
    None = None
    Limit = 2
    Caller = {c1}
    MaxInFlight = 3
    MaxRestarts = 1
    FailingCalls = {"hook", "save", "commit", "head", "number", "insert"}
INVARIANTS
    LogSound
    AcknowledgedIsRecorded
    WebhookCallsHonest
PROPERTIES
    Sequential
SYMMETRY Requests
CHECK_DEADLOCK FALSE
