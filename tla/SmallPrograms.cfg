CONSTANTS
    LockMains <- AllLockMains
    LockKind <- KindOf
    LockTimes <- TimesOf
    MostTimes = 3
    LockDelta <- DeltaOf
    Start = 2096
    Desired = 2100
    Period = 3
    Size = 3
    SendRoom = 2
    ReplySize = 2
    MaxRetries = 2
    Rounds = 2
    Room = 2
    Peers = {"peer1", "peer2"}
    Pieces = 4
    Ends <- LineEnds
    Garbled <- NotText
    OutRoom = 2
    MaxTurns = 4
SPECIFICATION FairSpec
INVARIANTS
    EveryUpdateCounts
    LinesAreWhole
    ExchangeIsHonest
    UpdatesAdd
    ReadsAreCurrent
    EchoedInOrder
    TurnsAreFair
PROPERTIES
    SettlesAtDesired
    ProgramsEnd
CHECK_DEADLOCK FALSE
