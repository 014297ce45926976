SPECIFICATION MCSpec
CONSTANTS
    n1 = n1
    n2 = n2
    s1 = s1
    s2 = s2
    k1 = k1
    k2 = k2
    Nodes <- MCNodes
    Services <- MCServices
    Secrets <- MCSecrets
    Relay = relay
    Control = control
    Ttl = 1
    Skew = 2
    Drift = 1
    MaxMinutes = 6
    MaxTime = 6
    RELAY_NODE_SOCKET_TTL = 2
    RELAY_NODE_IDLE_LEASE = 2
    RELAY_RECONNECT_DELAY = 1
    TRIES = 3
    HelloDelay = 1
    MaxFaults = 1
    MaxOutage = 1
    Connectors = {c1, c2}
    Clients = {d1, d2}
CONSTRAINT OneCheck
SYMMETRY Symmetry
INVARIANTS
    JudgedRight
    ClientsArePaired
PROPERTIES
    OnlyDeadDropped
CHECK_DEADLOCK FALSE
