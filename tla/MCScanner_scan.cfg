SPECIFICATION FairSpec
CONSTANTS
    Width = 4
    Prefixes <- MCPrefixes
    RTT = {1, 2, 3}
    MaxRTT = 3
    RunQueue = 3
    CommandQueue = 65535
    OnFile = {2}
INVARIANTS
    TypeOK
    QueueSound
    ResultIsSaved
    ScansItsPrefixes
PROPERTIES
    FastestFound
    StoppedScanEnds
    KeepsPromise
