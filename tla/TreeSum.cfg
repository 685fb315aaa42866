SPECIFICATION FairSpec
CONSTANTS
    MaxN = 5
    MaxRuns = 2
    OpeningSum = {2, 3, 10}
    MaxBroadcast = {2, 3}
    Large = {TRUE, FALSE}
INVARIANTS
    OpenedInStep
PROPERTIES
    Completion
