SPECIFICATION SwiftSpec
CONSTANTS
    MAX_PAYLOAD_LEN = 2
    RETRIES = 2
    StreamLen <- TwoAndOne
    TwoThreaded = {"node"}
    Closers = {"client"}
    OnTimeout <- BothAbort
CONSTRAINT
    ReceivedBound
INVARIANT
    ResponseIntact
CHECK_DEADLOCK FALSE
