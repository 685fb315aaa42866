SPECIFICATION Spec
CONSTANTS
    SmallPrimes <- FirstPrimes
    Setups <- CipherSetups
    SharedKeys <- CipherKeys
INVARIANTS
    DealtFilesFit
    SharesComputed
    TuplesUsable
    TransfersUsable
    SlotsComputed
    TurboCorrect
    TurboFilesFit
CHECK_DEADLOCK FALSE
