SPECIFICATION Spec
CONSTANTS
    PoolSize = 3
    MinBackends = 1
    PortStart = 65330
    TempOffset = 100
    MaxPort = 65535
    Backend = {1, 2, 3, 4, 5, 6}
    NoBackend = 0
    Identity = {1, 2, 3, 4, 5, 6, 7, 8, 9, 10}
    Leftover = {65331, 65430}
    MaxFailures = 0
    MayStop = FALSE
VIEW MCView
INVARIANTS
    TypeOK
    CalmService
    CalmNoOrphan
    RotatesEvenly
