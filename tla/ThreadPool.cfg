SPECIFICATION FairSpec
CONSTANTS
    Party = {p1, p2}
    NThreads = 3
    ItemCount = {2}
    Silent = {}
    Nested = FALSE
    MaxOps = 2
INVARIANTS
    TypeOK
    LeftCounts
    JobsInOrder
    WorkOnce
PROPERTIES
    Termination
