SPECIFICATION FairSpec
CONSTANTS
    N = 3
    Scripts <- AllScripts
    Room = 2
    Spare = 4
INVARIANTS
    Transferred
PROPERTIES
    Completion
