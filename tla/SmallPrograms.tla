--------------------------- MODULE SmallPrograms ----------------------------
(***************************************************************************)
(* The small programs of the repository, which have nothing to do with each *)
(* other: a behaviour is one run of one of them, and the variables of the    *)
(* others stay as they are.                                                 *)
(***************************************************************************)
EXTENDS Integers, Sequences, FiniteSets

CONSTANTS
    LockMains, LockKind, LockTimes, MostTimes, LockDelta,   \* TryLockTasks
    Start, Desired, Period,                                 \* Thermostat
    Size, SendRoom, ReplySize, MaxRetries,                  \* TcpExchange
    Rounds, Room,                                           \* AsyncPrograms
    Peers, Pieces, Ends, Garbled, OutRoom,                  \* EchoServers
    MaxTurns                                                \* Coroutines

LockTasks == DOMAIN LockKind

ASSUME ProgramsAssumption ==
    /\ IsFiniteSet(LockTasks) /\ "nobody" \notin LockTasks
    /\ LockKind \in [LockTasks -> {"future", "count", "write", "coroutine"}]
    /\ LockTimes \in [LockTasks -> 1 .. MostTimes] /\ MostTimes \in Nat
    /\ \A t \in LockTasks : LockKind[t] = "write" => LockTimes[t] = 1
    /\ LockDelta \in [LockTasks -> {1, -1}]
    /\ Start \in Int /\ Desired \in Int /\ Period \in Nat
    /\ Size \in Nat \ {0} /\ SendRoom \in Nat \ {0} /\ ReplySize \in Nat /\ MaxRetries \in Nat
    /\ Pieces \in Nat /\ Ends \subseteq 1 .. Pieces /\ OutRoom \in Nat
    /\ MaxTurns \in Nat

Programs == {"trylock", "thermostat", "exchange", "async", "echo", "coroutines"}

VARIABLES
    program,
    active, pc, left, read, owner, waiters, value, file,
    temp, heatOn, snap, dpc, seen, hpc, heaterAge, lossAge, polled,
    cpc, pos, retries, toServer, toClient, spc, buffer, decoded, reset, got, result,
    main, spawned, at, on, reg, locks, val, chan,
    server, sent, ended, net, inBuf, outBuf, echoed, accepted, closed, batch,
    ring, need, resumed, queue, outcome

lockVars == <<active, pc, left, read, owner, waiters, value, file>>
thermoVars == <<temp, heatOn, snap, dpc, seen, hpc, heaterAge, lossAge, polled>>
tcpVars == <<cpc, pos, retries, toServer, toClient, spc, buffer, decoded, reset, got, result>>
asyncVars == <<main, spawned, at, on, reg, locks, val, chan>>
echoVars == <<server, sent, ended, net, inBuf, outBuf, echoed, accepted, closed, batch>>
ringVars == <<ring, need, resumed, queue, outcome>>
vars == <<program, lockVars, thermoVars, tcpVars, asyncVars, echoVars, ringVars>>

Lock == INSTANCE TryLockTasks WITH
    Mains <- LockMains, Kind <- LockKind, Times <- LockTimes, Delta <- LockDelta,
    MutexOf <- LockKind, MayFail <- TRUE, Nobody <- "nobody"

Thermo == INSTANCE Thermostat

Tcp == INSTANCE TcpExchange

AsyncTables == INSTANCE AsyncPrograms
Async == INSTANCE AsyncTasks WITH Mains <- AsyncTables!AllMains, Nobody <- "nobody",
    MayFail <- AsyncTables!MayFail, MayBeTooEarly <- AsyncTables!MayBeTooEarly
ASSUME ScriptsAssumption == \A p \in AsyncTables!AllMains : Async!WellFormed(p)

Echo == INSTANCE EchoServers

Turns == INSTANCE Coroutines

Init ==
    /\ program \in Programs
    /\ Lock!Init /\ (program # "trylock" => active = CHOOSE m \in LockMains : TRUE)
    /\ Thermo!Init /\ Tcp!Init
    /\ Async!Init /\ (program # "async" => main = AsyncTables!LockOrder)
    /\ Echo!Init /\ (program # "echo" => server = "epoll")
    /\ Turns!Init /\ (program # "coroutines" => ring = Turns!Hello)

\* One program runs.
Others(name) ==
    /\ program = name /\ UNCHANGED program
    /\ name # "trylock" => UNCHANGED lockVars
    /\ name # "thermostat" => UNCHANGED thermoVars
    /\ name # "exchange" => UNCHANGED tcpVars
    /\ name # "async" => UNCHANGED asyncVars
    /\ name # "echo" => UNCHANGED echoVars
    /\ name # "coroutines" => UNCHANGED ringVars

LockStep(t) == Others("trylock") /\ Lock!Step(t)
AsyncStep == Others("async") /\ Async!Next
EchoServe == Others("echo") /\ Echo!Serve
TurnStep == Others("coroutines") /\ Turns!Next

Next ==
    \/ \E t \in LockTasks : LockStep(t)
    \/ Others("thermostat") /\ Thermo!Next
    \/ Others("exchange") /\ Tcp!Next
    \/ AsyncStep
    \/ Others("echo") /\ Echo!Next
    \/ TurnStep

Spec == Init /\ [][Next]_vars

\* The fairness of each program: see the FairSpec of its module.
FairSpec ==
    /\ Spec
    /\ \A t \in LockTasks : WF_vars(LockStep(t))
    /\ WF_vars(Others("thermostat") /\ Thermo!Display)
    /\ WF_vars(Others("thermostat") /\ Thermo!Heater)
    /\ WF_vars(Others("thermostat") /\ Thermo!HeatLoss)
    /\ WF_vars(Others("thermostat") /\ Thermo!Tick)
    /\ WF_vars(Others("exchange") /\ Tcp!Client)
    /\ WF_vars(Others("exchange") /\ Tcp!Server)
    /\ WF_vars(AsyncStep)
    /\ WF_vars(EchoServe)
    /\ WF_vars(TurnStep)

-----------------------------------------------------------------------------
(* The programs' properties, where they are stated in natural language.     *)

\* TryLockTasks: every update of the shared counter counts.
EveryUpdateCounts == Lock!EveryUpdateCounts

\* TryLockTasks: the lines of the log are whole and none is written twice.
LinesAreWhole == Lock!LinesAreWhole

\* Thermostat: the room gets warm, and stays so.
SettlesAtDesired == program = "thermostat" => Thermo!SettlesAtDesired

\* TcpExchange: only a blocked and repeated write makes the server decode a Data
\* that was not sent, and Ok is the whole answer.
ExchangeIsHonest == Tcp!GarbledOnlyByRetry /\ Tcp!OkIsWholeReply

\* AsyncTasks: no update is lost that a mutex, or the one thread, protects.
UpdatesAdd == Async!UpdatesAdd

\* AsyncTasks: a counter is read with all that was awaited before.
ReadsAreCurrent == Async!ReadsAreCurrent

\* EchoServers: the pieces of a connection are kept in order.
EchoedInOrder == Echo!EchoedInOrder

\* Coroutines: coroutines take turns.
TurnsAreFair == Turns!TurnsAreFair

\* Every program comes to its end: tasks behind a mutex get their turns
\* (TryLockTasks), send_data returns (TcpExchange), main returns (AsyncTasks), the
\* echo servers see every end and read and answer what they are sent as far as
\* ServersServe says (EchoServers), and no turn is lost (Coroutines).
ProgramsEnd ==
    /\ program = "trylock" => Lock!AllTasksEnd
    /\ program = "exchange" => Tcp!ExchangeEnds
    /\ program = "async" => Async!MainEnds
    /\ program = "echo" => Echo!ServersServe
    /\ program = "coroutines" => Turns!LoopEnds
=============================================================================
