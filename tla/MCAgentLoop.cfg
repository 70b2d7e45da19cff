SPECIFICATION FairSpec
CONSTANTS
    Threshold = 1
    MalformedCap = 0
    ScanInterval = 1
    HeartbeatInterval = 2
    RetryInterval = 2
    DiscoveryInterval = 2
    BatchSize = 1
    ConnectTime = 1
    InventoryTime = 1
    SendTime = 1
    BeatTime = 1
    MaxPending = 1
    MaxBack = 1
    MaxEnds = 1
INVARIANTS
    TypeOK
    Punctual
    StopsInTime
    ScanGap
    ReportedError
PROPERTIES
    HeartbeatsGoOn
    PassesGoOn
