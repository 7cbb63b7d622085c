SPECIFICATION Spec
CONSTANTS
    PoolSize = 2
    MinBackends = 1
    PortStart = 65435
    TempOffset = 100
    MaxPort = 65535
    Backend = {1, 2, 3, 4}
    NoBackend = 0
    Identity = {1, 2, 3, 4, 5, 6}
    Leftover = {}
    MaxFailures = 1
    MayStop = FALSE
INVARIANT NoOrphan
