CONSTANTS
    Conns = {c1, c2}
    Server = server
    NoTask = noTask
    Fds = {f1,f2}
    ListenFd = listenFd
    EventFd = eventFd
    NoFd = noFd
    Cap = 3
    MaxPieces = 2
    Ends <- EveryPiece
    Long <- LongLine
    Garbled <- GarbledLine
    PeerMoves <- OpenMoves
SPECIFICATION FairSpec
INVARIANTS
    IndInv
    SelectorNeverPanics
    AtMostOneHome
    NoLostTask
    StaleRemoveHarmless
    SendsNeverBlock
    DrainNeverBlocks
PROPERTIES
    RefinesLineEcho
CHECK_DEADLOCK FALSE
