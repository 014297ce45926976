SPECIFICATION MCSpec
CONSTANTS
    Candidates = {host, srflx, relay}
    None = none
INVARIANTS
    TypeOK
    OneStreamReturned
    ResponsesIntact
PROPERTIES
    RaceSettles
    BackendsReleased
    Answered
CHECK_DEADLOCK FALSE
