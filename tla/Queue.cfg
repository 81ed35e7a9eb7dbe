CONSTANTS
    Programs <- ProgramSet
    CoreCounts = {2, 3}
    NoTask = "none"
SPECIFICATION FairSpec
INVARIANT
    OneRunnable
PROPERTIES
    MainsReturn
CHECK_DEADLOCK FALSE
