SPECIFICATION FairSpec
CONSTANTS
    MAX_PAYLOAD_LEN = 2
    RETRIES = 2
    StreamLen <- OneByteEach
    TwoThreaded = {"node"}
    Closers = {}
    OnTimeout <- BothRetry
PROPERTY
    TransferCompletes
CHECK_DEADLOCK FALSE
