SPECIFICATION Spec
CONSTANTS
    MAX_PAYLOAD_LEN = 2
    RETRIES = 2
    StreamLen <- TwoAndOne
    TwoThreaded = {"node"}
    Closers = {"client"}
    OnTimeout <- CliAndNode
INVARIANTS
    InOrder
    IInv
PROPERTY
    ImplementsPipe
CHECK_DEADLOCK FALSE
