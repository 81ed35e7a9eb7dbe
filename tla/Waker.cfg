CONSTANTS
    Tasks = {t1, t2, t3}
    NoTask = noTask
    Awaits = 2
    MaxExtra = 2
SPECIFICATION FairSpec
INVARIANTS
    IndInv
    NoLostWake
    ReturnsWhenAllDone
PROPERTIES
    RunReturns
CHECK_DEADLOCK FALSE
