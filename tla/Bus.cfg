CONSTANTS
    Subs = {s1, s2, s3}
    Events = 3
    Stops <- StopAtThird
SPECIFICATION FairSpec
INVARIANTS
    IndInv
    NothingMissed
PROPERTIES
    ConsumersEnd
    SeenDeadAreCollected
CHECK_DEADLOCK FALSE
