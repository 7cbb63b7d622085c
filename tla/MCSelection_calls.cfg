SPECIFICATION Spec
CONSTANTS
    Modulus = 8
    PoolLen = 3
    Caller = {c1, c2}
INVARIANTS
    TypeOK
    FallBackIsLastResort
    Balanced
