SPECIFICATION FairSpec
CONSTANTS
    Value = {a, b}
    Modes <- AllModes
    MaxPush = 4
INVARIANTS
    TypeOK
    NoUB
    NothingMissed
    DrainedWhenDone
PROPERTIES
    ImplementsFifo
    LoopServes
CHECK_DEADLOCK FALSE
