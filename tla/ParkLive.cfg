CONSTANTS
    Workers = 1
    Conns = {c1, c2}
    NoConn = noConn
    Pieces = 2
    PeerEnds <- BothEnds
SPECIFICATION FairSpec
PROPERTIES
    NextRequestWakes
    ExecutorServesAll
CHECK_DEADLOCK FALSE
