CONSTANTS
    Conns = {c1, c2}
    Server = server
    NoTask = noTask
    Fds = {f1, f2}
    ListenFd = listenFd
    EventFd = eventFd
    NoFd = noFd
    Cap = 3
    MaxPieces = 2
    Ends <- LastPiece
    Long <- NoPieces
    Garbled <- NoPieces
    PeerMoves <- FinOnly
SPECIFICATION Spec
INVARIANTS
    WholeLines
CHECK_DEADLOCK FALSE
