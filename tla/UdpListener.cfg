SPECIFICATION MCSpec
CONSTANTS
    Clients = {c1, c2}
    HANDSHAKE_TIMEOUT = 2
    DUPLICATE_HANDSHAKE_WINDOW = 2
    MAX_RECENT_HANDSHAKES = 2
    HelloLife = 1
    MaxTime = 3
    MaxFailures = 1
INVARIANTS
    HandshakesAreSound
    
PROPERTIES
    SessionsAreBridged
CHECK_DEADLOCK FALSE
