SPECIFICATION MCSpec
CONSTANTS
    Setups <- AllSessions
    MaxBuffer = 3
INVARIANTS
    SessionIsIntact
    PagesTellTheTruth
PROPERTIES
    EveryRequestAnswered
    
    BridgeEnds
    HoleOpens
    RegistrationCatchesUp
CHECK_DEADLOCK FALSE
