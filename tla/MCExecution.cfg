SPECIFICATION MCSpec
CONSTANTS
    NodeId = {"a", "b", "c", "d"}
    Graphs <- MCGraphs
    Jobs <- MCJobs
    Threads = 1
    Questions <- MCQuestions
    Users = {"u", "v"}
    Owner = "u"
    Creds = {"c1", "c2"}
    RefNodes = {"m", "n"}
    RefGraphs <- MCRefGraphs
    Runs = {"r"}
    MaxVersion = 2
    MaxEdits = 1
INVARIANTS
    VerdictExact
    LevelsCorrect
    CallsHonest
    ValuesExact
    CredentialsMatch
PROPERTIES
    RunsEnd
CHECK_DEADLOCK FALSE
