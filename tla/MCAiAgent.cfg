SPECIFICATION MCSpec
CONSTANTS
    MaxIters = {1, 2, 3}
    MaxPieces = 3
    Entries = {"i1", "i2"}
    Containers = {"c1", "c2"}
    Rows <- MCRows
    Saves = {"w1", "w2"}
    Reads = {"x"}
    MaxUpserts = 2
    MaxTroubles = 1
    Edits <- MCEdits
    ConfigKeys = {"k"}
    Hints = {"", "h", " H "}
    Documents <- MCDocuments
INVARIANTS
    LastExtractionSurfaces
    ObedientConverges
    RelayExact
    MemoryKept
    DiffExact
    ChunksExact
PROPERTIES
    AnswersEnd
CHECK_DEADLOCK FALSE
