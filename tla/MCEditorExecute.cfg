SPECIFICATION EditorSpec
CONSTANTS
  MaxTurns = 1
  MaxDeltas = 1
  Drawn = {"a", "b"}
  Draft = "d"
  Ids = {1}
  MaxSteps = 4
  MaxHistory = 1
INVARIANT ExecuteRunsCanvas
CHECK_DEADLOCK FALSE
