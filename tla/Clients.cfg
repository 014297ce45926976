SPECIFICATION MCSpec
CONSTANTS
    Clients = {"tls", "session", "android"}
    Configs <- MCConfigs
    Controls <- MCControls
    TlsDeadline = 2
    Delays = {0, 1, 2}
    MaxChanges = 1
    MaxConnects = 3
CONSTRAINT
    ReceivedBound
INVARIANTS
    NoPathIsMissed
    TriesInOrder
    LookupIsRight
    RequestIntact
    BufferedIsDelivered
PROPERTIES
    LastPathGoesFirst
CHECK_DEADLOCK FALSE
