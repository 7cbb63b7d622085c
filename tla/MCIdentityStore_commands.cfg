SPECIFICATION Spec
CONSTANTS
    Device = {d1, d2, d3, d4, d5}
    License = {Free, L1, L2}
    Free = Free
    None = None
    Partial = Partial
    MaxMishaps = 3
    Rounds = 3
    Attempts = 3
SYMMETRY MCSymmetry
INVARIANTS
    TypeOK
    WholeIdentity
    UsedIsSaved
    MishapCostsOneDevice
    NothingForgotten
    ConnectionsKept
