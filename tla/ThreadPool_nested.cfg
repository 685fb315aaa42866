SPECIFICATION Spec
CONSTANTS
    Party = {p1, p2}
    NThreads = 2
    ItemCount = {2}
    Silent = {}
    Nested = TRUE
    MaxOps = 2
INVARIANT ResultsMatch
