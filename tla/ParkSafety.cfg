CONSTANTS
    Workers = 2
    Conns = {c1, c2}
    NoConn = noConn
    Pieces = 2
    PeerEnds <- BothEnds
SYMMETRY Symmetry
SPECIFICATION Spec
INVARIANTS
    IndInv
    OnePlace
    NoDeafWorker
    DecodedIsPrefix
CHECK_DEADLOCK FALSE
