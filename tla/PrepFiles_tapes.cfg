SPECIFICATION Spec
CONSTANTS
    Kinds <- TripleOnly
    Dabits = {}
    Helper = {1, 2}
    Program <- TwoTapes
    BufferSize = 2
    Bulk = 8
    Required = FALSE
    MayFail = FALSE
    MaxRuns = 2
INVARIANT NoReuse
