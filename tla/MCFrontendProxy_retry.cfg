SPECIFICATION Spec
CONSTANTS
    Modulus = 7
    Client = {c1, c2}
    PoolLen = 3
    MaxRetries = 3
    Capacity = 2
    MaxChunks = 0
    MaxFaults = 1
SYMMETRY MCSymmetry
VIEW MCView
INVARIANTS
    AtMostOneSlips
PROPERTIES
    RetryElsewhere
