SPECIFICATION Spec
CONSTANTS
    RETRIES = 5
    PollTimeout = 1
    ACK_BURST_PACKETS = 5
    ACK_BURST_INTERVAL = 2
    RoundTrip = 1
    MaxHellos = 1
    MaxWrites = 2
INVARIANT
    RoutesWhileAccepting
CHECK_DEADLOCK FALSE
