SPECIFICATION FairSpec
CONSTANTS
    Kinds <- TripleAndDabit
    Dabits = {"dabit"}
    Helper = {1}
    Program <- GetsOrTapes
    BufferSize = 2
    Bulk = 6
    Required = TRUE
    MayFail = TRUE
    MaxRuns = 2
INVARIANTS
    HandedOutOnce
    Enough
PROPERTIES
    RunsEnd
