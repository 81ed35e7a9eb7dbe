CONSTANTS
    Clients = {c1, c2}
    Keys = {k1}
    Vals = {v1}
    Nothing = nothing
    Kinds <- SetOnly
    Cap = 2
    MaxCalls = 1
    MaxResets = 1
    Timeouts <- NoTimeouts
    MayFail = TRUE
SPECIFICATION FairSpec
INVARIANTS
    CacheInv
    RequestsInFlight
    RouterNeverWaits
PROPERTIES
    EveryCallEnds
CHECK_DEADLOCK FALSE
