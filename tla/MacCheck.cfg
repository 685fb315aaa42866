SPECIFICATION FairSpec
CONSTANTS
    Party = {0, 1, 2}
    Faulty = 2
    Scripts <- MCScripts
    Modes = {"field", "z2k"}
    SmallBatch = 2
    PopenMax = 3
    MaxDeviations = 2
INVARIANTS
    RightVerdict
    ChecksInStep
    FairCoins
PROPERTIES
    Completion
