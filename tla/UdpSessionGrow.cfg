SPECIFICATION Spec
CONSTANTS
    MAX_PAYLOAD_LEN = 2
    RETRIES = 2
    StreamLen <- TwoAndOne
    TwoThreaded = {"node"}
    Closers = {}
    OnTimeout <- AndroidAndNode
INVARIANT
    AcceptedWasReceived
CHECK_DEADLOCK FALSE
