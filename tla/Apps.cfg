SPECIFICATION MCSpec
CONSTANTS
    Grants <- MCGrants
    Browsers = {b1, b2}
    NoGrant = noGrant
    MaxStarts = 2
    MaxStops = 0
    MaxChunks = 1
    Conns = {c1, c2}
SYMMETRY Symmetry
INVARIANTS
    
    StreamsMatchSlots
    TunnelServes
    PoolIsSound
    NoPageAfterData
CHECK_DEADLOCK FALSE
