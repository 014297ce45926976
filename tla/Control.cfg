SPECIFICATION MCSpec
CONSTANTS
    Nodes = {1, 2}
    Configs <- MCConfigs
    Phones = {FALSE}
    Ask = 12
    MaxConfigs = 2
    MaxAttempts = 2
    MaxCrashes = 1
    MaxStops = 1
INVARIANTS
    RegistrationsAreWhole
    RouteIsRecent
    
    NameCertificateFits
    
PROPERTIES
    EveryAgentComesUp
CHECK_DEADLOCK FALSE
