CONSTANTS
    Clients = {c1, c2}
    Keys = {k1}
    Vals = {v1}
    Nothing = nothing
    Kinds <- AllKinds
    Cap = 2
    MaxCalls = 2
    MaxResets = 0
    Timeouts <- BothTimeOut
    MayFail = FALSE
SPECIFICATION FairSpec
INVARIANTS
    FileCurrentAtRest
PROPERTIES
    RefinesKvStore
    FileCatchesUp
CHECK_DEADLOCK FALSE
