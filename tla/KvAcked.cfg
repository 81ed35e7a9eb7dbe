CONSTANTS
    Clients = {c1}
    Keys = {k1}
    Vals = {v1}
    Nothing = nothing
    Kinds <- SetGet
    Cap = 2
    MaxCalls = 2
    MaxResets = 1
    Timeouts <- NoTimeouts
    MayFail = FALSE
SPECIFICATION FairSpec
PROPERTIES
    AckedSurvivesReset
CHECK_DEADLOCK FALSE
