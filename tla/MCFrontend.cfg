SPECIFICATION MCSpec
CONSTANTS
  MaxTurns = 1
  MaxDeltas = 1
  Drawn = {"a"}
  Draft = "d"
  Ids = {1, 2}
  MaxSteps = 7
  MaxHistory = 1
  Domains = {"hr"}
  MaxPolicies = 2
  MaxSessions = 2
  MaxCalls = 5
  MaxMishaps = 1
INVARIANTS
  ShownIsSaved
  DraftHonest
  ReviewComplete
PROPERTIES
  PendingEnds
  DecisionStands
CHECK_DEADLOCK FALSE
