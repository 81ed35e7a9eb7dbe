CONSTANTS
    Workers = 2
    Conns = {c1, c2}
    NoConn = noConn
    Pieces = 1
    PeerEnds <- NoEnds
SPECIFICATION Spec
INVARIANTS
    FlaggedWorkerIsWoken
CHECK_DEADLOCK FALSE
