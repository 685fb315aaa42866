SPECIFICATION Spec
CONSTANTS
    WordBits = 2
    RingSizes = {1, 3, 4, 5}
    Primes = {3, 7, 11, 17, 37}
    RingSize = 4
    Prime = 131
    Kappa = 1
    KnownPrime = 29
    Draws = {0, 13}
    ValueBits = 4
    MaxDemuxBits = 1
    IntLimit = 100
    Modulus = 16
    InputSeed = 2
    Steps = 500
    Unit = 4
    Sizes = {1, 5}
    Values = {1, 3, 5}
    Repeats = {1, 2}
INVARIANTS
    NumbersAgree
    SecretNumbers
    SecretPlaces
    CompiledCode
    CodeUnderstood
CHECK_DEADLOCK FALSE
