SPECIFICATION Spec
CONSTANTS
    Command = {p1, p2}
    Address = {a1, a2}
    MaxFailures = 3
SYMMETRY MCSymmetry
INVARIANTS
    TypeOK
    NothingForgotten
    ReadableUnlessCutShort
