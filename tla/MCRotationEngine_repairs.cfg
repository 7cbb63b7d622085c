SPECIFICATION FairSpec
CONSTANTS
    PoolSize = 1
    MinBackends = 1
    PortStart = 65435
    TempOffset = 100
    MaxPort = 65535
    Backend = {1, 2, 3}
    NoBackend = 0
    Identity = {1, 2, 3, 4}
    Leftover = {}
    MaxFailures = 1
    MayStop = TRUE
VIEW MCView
PROPERTIES
    BadLeaves
    StopQuiesces
