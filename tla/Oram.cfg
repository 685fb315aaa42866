SPECIFICATION Spec
CONSTANTS
    Shapes <- SmallOrams
INVARIANTS
    WellStored
PROPERTIES
    IsArray
    Settled
