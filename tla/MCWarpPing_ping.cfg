SPECIFICATION FairSpec
CONSTANTS
    Ports = 3
    Capacity = 3
    MaxPackets = 2
INVARIANTS
    TypeOK
    CutNeverAnswers
PROPERTIES
    PingReturns
    KeepsPingPromise
