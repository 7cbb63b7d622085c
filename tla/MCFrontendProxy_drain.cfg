SPECIFICATION FairSpec
CONSTANTS
    Modulus = 1
    Client = {c1}
    PoolLen = 1
    MaxRetries = 3
    Capacity = 2
    MaxChunks = 2
    MaxFaults = 2
INVARIANTS
    TypeOK
    TheftIsBounded
PROPERTIES
    NoCopierLeaks
    ShutdownDrains
