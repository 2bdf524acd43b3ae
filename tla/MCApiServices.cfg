SPECIFICATION MCSpec
CONSTANTS
  Replies <- MCReplies
  PerMinute = 2
  Window = 2
  TTL = 2
  CacheSize = 2
  States = {"s1", "s2", "s3"}
  MaxTime = 5
  Nodes = {"n1", "n2"}
  Processes = {"p1", "p2"}
  MaxTokens = 5
  Candidates = {"a"}
  Tabs = {"pending_review"}
  MaxExtras = 1
  MaxPresses = 3
  Ids = {"i", "j"}
  Emails = {"e", "f"}
  Passwords = {"p", "q"}
  Calls = {"c1", "c2"}
  AccessTTL = 1
  VerifyTTL = 1
  AgentTTL = 1
  LastMoment = 2
INVARIANTS
  StreamExact
  GuardsHold
  TokenRowHonest
  PanelMatches
  SignInHonest
PROPERTY RefreshesAreNeeded
CHECK_DEADLOCK FALSE
