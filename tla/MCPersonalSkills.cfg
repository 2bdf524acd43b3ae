SPECIFICATION MCSpec
CONSTANTS
    Skill = {s1, s2, s3}
    Hash = {h1, h2}
    Request = {r1, r2}
    None = None
    Operations = {"extract", "activate", "reject", "share", "answer", "approve", "disapprove"}
    MaxInFlight = 2
    MaxLosses = 1
    MaxCrashes = 1
SYMMETRY Symmetric
INVARIANTS
    OnlyActivatedIsUsed
    SequentialCopy
PROPERTIES
    RejectedStaysSuppressed
CHECK_DEADLOCK FALSE
