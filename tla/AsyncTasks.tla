----------------------------- MODULE AsyncTasks -----------------------------
(***************************************************************************)
(* Tasks on a runtime, as far as the small programs of the repository need    *)
(* them: a task keeps its thread from one await that has to wait to the next, *)
(* so that two tasks of one thread never run between each other's awaits, and *)
(* tasks of different threads do.  A program is a table of AsyncPrograms:     *)
(* the straight line of operations of each task, the threads that may run it, *)
(* and the room of the channels.                                             *)
(*                                                                          *)
(* A mutex bears the name of what it protects.  tokio's is fair: unlock hands *)
(* it to the task that waits longest.                                        *)
(***************************************************************************)
EXTENDS Integers, Sequences, FiniteSets, SequencesExt

CONSTANTS
    Mains, Nobody,
    MayFail, MayBeTooEarly  \* sets of programs: see MainEnds

VARIABLES
    main,       \* the program that runs
    spawned,    \* tasks that exist
    at,         \* the operation each task is at; 0 when it goes on no more: it polls
                \* for ever, or has failed an assertion
    on,         \* the task each thread runs
    reg,        \* the value each task has read
    locks,      \* each mutex: its owner, then those that wait for it
    val,        \* what the tasks share, and how much was written to it
    chan        \* messages in each channel

asyncVars == <<main, spawned, at, on, reg, locks, val, chan>>

Task == DOMAIN main.script
Op(t) == main.script[t][at[t]]
Ops(p, t) == ToSet(p.script[t])
Objects == {op[2] : op \in UNION {Ops(main, t) : t \in Task}}
Over(t) == at[t] > Len(main.script[t])

Init ==
    /\ main \in Mains /\ spawned = {"main"}
    /\ at = [t \in Task |-> 1] /\ reg = [t \in Task |-> 0]
    /\ on = [h \in UNION {main.home[t] : t \in Task} |-> Nobody]
    /\ locks = [x \in Objects |-> <<>>]
    /\ val = [x \in Objects |-> 0] /\ chan = [x \in Objects |-> 0]

-----------------------------------------------------------------------------
Thread(t) == {h \in DOMAIN on : on[h] = t}

\* Mutant: the runtime moves a task to another thread, or another task to its
\* thread, between any two operations.
AnyThread(t) == main.home[t]

\* The threads on which t can go on.
MayRun(t) == IF Thread(t) # {} THEN Thread(t) ELSE {h \in main.home[t] : on[h] = Nobody}

Doing(t, op) == t \in spawned /\ at[t] # 0 /\ ~Over(t) /\ Op(t)[1] = op
X(t) == Op(t)[2]

\* t goes on to its next operation on the same thread, which the end of t frees.
Advance(t) ==
    \E h \in MayRun(t) :
        /\ at' = [at EXCEPT ![t] = @ + 1]
        /\ on' = [on EXCEPT ![h] = IF at[t] = Len(main.script[t]) THEN Nobody ELSE t]

\* t waits: another task can have its thread.
Yield(t) == \E h \in MayRun(t) : on' = [on EXCEPT ![h] = Nobody]

\* t does not go on.
Stop(t) == Yield(t) /\ at' = [at EXCEPT ![t] = 0]

\* t waits without an await, and keeps its thread.
Occupy(t) == \E h \in MayRun(t) : on[h] # t /\ on' = [on EXCEPT ![h] = t] /\ UNCHANGED at

Spawn(t) ==
    /\ Doing(t, "spawn") /\ Advance(t)
    /\ spawned' = spawned \cup {X(t)}
    /\ UNCHANGED <<main, reg, locks, val, chan>>

\* Mutant: the handle is dropped instead of awaited.
JoinNothing(t) ==
    /\ Doing(t, "join") /\ Advance(t)
    /\ UNCHANGED <<main, spawned, reg, locks, val, chan>>

Join(t) ==
    /\ Doing(t, "join") \/ Doing(t, "await")
    /\ Over(X(t)) /\ Advance(t)
    /\ UNCHANGED <<main, spawned, reg, locks, val, chan>>

\* An await that is not ready; a task in the queue of a mutex.
Awaits(t) ==
    \/ (Doing(t, "join") \/ Doing(t, "await")) /\ ~Over(X(t))
    \/ Doing(t, "send") /\ chan[X(t)] = main.room
    \/ Doing(t, "recv") /\ chan[X(t)] = 0
QueuesUp(t) == Doing(t, "lock") /\ \E i \in 2 .. Len(locks[X(t)]) : locks[X(t)][i] = t

\* The five seconds of a time-out are longer than all that the tasks do: they pass
\* when no other task can go on.
TimeOut(t) ==
    /\ Doing(t, "await") /\ ~Over(X(t))
    /\ \A u \in spawned \ {t} : Over(u) \/ Awaits(u) \/ QueuesUp(u)
    /\ Stop(t)
    /\ UNCHANGED <<main, spawned, reg, locks, val, chan>>

\* assert_eq! of a counter and the number of tasks that increment it.
AssertEq(t) ==
    /\ Doing(t, "assert_eq")
    /\ IF val[X(t)] = Cardinality({u \in Task : <<"store", X(t)>> \in Ops(main, u)})
       THEN Advance(t) ELSE Stop(t)
    /\ UNCHANGED <<main, spawned, reg, locks, val, chan>>

\* Every await of a timer or a signal.
Sleep(t) ==
    /\ Doing(t, "sleep") /\ Yield(t)
    /\ at' = [at EXCEPT ![t] = @ + 1]
    /\ UNCHANGED <<main, spawned, reg, locks, val, chan>>

\* lock().await of tokio's mutex.
Lock(t) ==
    /\ Doing(t, "lock")
    /\ Head(Append(locks[X(t)], t)) = t
    /\ Advance(t)
    /\ locks' = [locks EXCEPT ![X(t)] = IF @ = <<>> THEN <<t>> ELSE @]
    /\ UNCHANGED <<main, spawned, reg, val, chan>>

LockWaits(t) ==
    /\ Doing(t, "lock") /\ locks[X(t)] # <<>> /\ t \notin ToSet(locks[X(t)])
    /\ Yield(t) /\ UNCHANGED at
    /\ locks' = [locks EXCEPT ![X(t)] = Append(@, t)]
    /\ UNCHANGED <<main, spawned, reg, val, chan>>

\* lock() of the standard library's mutex: a thread that has to wait is blocked.
Block(t) ==
    /\ Doing(t, "block")
    /\ IF locks[X(t)] = <<>>
       THEN Advance(t) /\ locks' = [locks EXCEPT ![X(t)] = <<t>>]
       ELSE Occupy(t) /\ UNCHANGED locks
    /\ UNCHANGED <<main, spawned, reg, val, chan>>

Unlock(t) ==
    /\ Doing(t, "unlock") /\ Advance(t)
    /\ locks' = [locks EXCEPT ![X(t)] = Tail(@)]
    /\ UNCHANGED <<main, spawned, reg, val, chan>>

Load(t) ==
    /\ Doing(t, "load") /\ Advance(t)
    /\ reg' = [reg EXCEPT ![t] = val[X(t)]]
    /\ UNCHANGED <<main, spawned, locks, val, chan>>

Store(t) ==
    /\ Doing(t, "store") /\ Advance(t)
    /\ val' = [val EXCEPT ![X(t)] = reg[t] + 1]
    /\ UNCHANGED <<main, spawned, reg, locks, chan>>

Send(t) ==
    /\ Doing(t, "send") /\ chan[X(t)] < main.room /\ Advance(t)
    /\ chan' = [chan EXCEPT ![X(t)] = @ + 1]
    /\ UNCHANGED <<main, spawned, reg, locks, val>>

\* recv().await, and the loop that takes the waker and does not await: it keeps the
\* thread it has had since the operation before.
Recv(t) ==
    /\ Doing(t, "recv") \/ Doing(t, "spin")
    /\ chan[X(t)] > 0 /\ Advance(t)
    /\ chan' = [chan EXCEPT ![X(t)] = @ - 1]
    /\ UNCHANGED <<main, spawned, reg, locks, val>>

\* Looks once; what comes later it will not see.
Take(t) ==
    /\ Doing(t, "take")
    /\ IF chan[X(t)] > 0
       THEN Advance(t) /\ chan' = [chan EXCEPT ![X(t)] = @ - 1]
       ELSE Stop(t) /\ UNCHANGED chan
    /\ UNCHANGED <<main, spawned, reg, locks, val>>

\* A future that is ready when somebody has written its data, and that leaves
\* its waker otherwise, all under its mutex; the waker is the message in chan.
Poll(t) ==
    /\ Doing(t, "poll")
    /\ IF locks[X(t)] # <<>> THEN Occupy(t) /\ UNCHANGED chan
       ELSE IF val[X(t)] > 0 THEN Advance(t) /\ UNCHANGED chan
       ELSE /\ chan[X(t)] = 0 /\ chan' = [chan EXCEPT ![X(t)] = 1]
            /\ Yield(t) /\ UNCHANGED at
    /\ UNCHANGED <<main, spawned, reg, locks, val>>

\* A task that awaits gives up its thread.
Waits(t) ==
    /\ Thread(t) # {} /\ Awaits(t) /\ Yield(t)
    /\ UNCHANGED <<main, spawned, at, reg, locks, val, chan>>

Step(t) ==
    /\ t \in Task
    /\ \/ Spawn(t) \/ Join(t) \/ TimeOut(t) \/ AssertEq(t) \/ Sleep(t) \/ Lock(t) \/ LockWaits(t) \/ Block(t) \/ Unlock(t)
       \/ Load(t) \/ Store(t) \/ Send(t) \/ Recv(t) \/ Take(t) \/ Poll(t) \/ Waits(t)

\* The process ends with its main, or with the assertion that main fails.
TaskStep(t) == at["main"] # 0 /\ ~Over("main") /\ Step(t)

AllTasks == UNION {DOMAIN p.script : p \in Mains}
Next == \E t \in AllTasks : TaskStep(t)

\* As long as a task can go on, one does.  No task goes on for ever, so that this
\* is all the programs need of the runtime's fairness.
FairSpec == Init /\ [][Next]_asyncVars /\ WF_asyncVars(Next)

-----------------------------------------------------------------------------
(* What the updates of the programs have in common.  x is what is updated.    *)

\* The tasks of program p that store x.
Storers(p, x) == {t \in DOMAIN p.script : <<"store", x>> \in Ops(p, t)}

\* All of them run on one thread; each of them uses x's mutex; either will do.
OneThread(p, x) == Cardinality(UNION {p.home[t] : t \in Storers(p, x)}) = 1
Locked(p, x) == \A t \in Storers(p, x) : {<<"lock", x>>, <<"block", x>>} \cap Ops(p, t) # {}
Guarded(p, x) == OneThread(p, x) \/ Locked(p, x)

\* t has x's mutex when it comes to its k-th operation.
Inside(p, t, x, k) ==
    \E j \in 1 .. k - 1 :
        /\ p.script[t][j] \in {<<"lock", x>>, <<"block", x>>}
        /\ \A i \in j + 1 .. k - 1 : p.script[t][i] # <<"unlock", x>>

\* What main joins before it spawns t.
JoinedBefore(p, t) ==
    {u \in DOMAIN p.script : \E i, j \in DOMAIN p.script["main"] :
        i < j /\ p.script["main"][i] = <<"join", u>> /\ p.script["main"][j] = <<"spawn", t>>}

\* The form of the programs: a store follows its load without an await between; a
\* mutex is unlocked by its owner, and a task that uses it stores under it only;
\* what may stop stores nothing; every task but main is spawned, at one place;
\* a task that loads what it does not store loads nothing else.
WellFormed(p) ==
    /\ IsFiniteSet(DOMAIN p.script) /\ "main" \in DOMAIN p.script /\ Nobody \notin DOMAIN p.script
    /\ \A t \in DOMAIN p.script :
        /\ IsFiniteSet(p.home[t])
        /\ p.script[t] \in Seq(Ops(p, t)) /\ \A op \in Ops(p, t) : op = <<op[1], op[2]>>
        /\ \A i \in DOMAIN p.script[t] :
            LET op == p.script[t][i]
            IN  /\ op[1] = "store" => i > 1 /\ p.script[t][i - 1] = <<"load", op[2]>>
                /\ \/ op[1] = "unlock"
                   \/ op[1] = "store" /\ {<<"lock", op[2]>>, <<"block", op[2]>>} \cap Ops(p, t) # {}
                   => Inside(p, t, op[2], i)
                /\ op[1] \in {"take", "await", "assert_eq"} => \A other \in Ops(p, t) : other[1] # "store"
                /\ op[1] = "spawn" =>
                    /\ op[2] # "main"
                    /\ \A u \in DOMAIN p.script : \A j \in DOMAIN p.script[u] :
                          p.script[u][j] = op => u = t /\ j = i
                /\ op[1] = "load" /\ t \notin Storers(p, op[2]) =>
                    /\ Guarded(p, op[2])
                    /\ \A other \in Ops(p, t) : other[1] = "load" => other = op

-----------------------------------------------------------------------------
(* Properties.                                                             *)

\* Stores to x so far: by t, and by the tasks of T.
Stores(t, x) == {i \in DOMAIN main.script[t] : i < at[t] /\ main.script[t][i] = <<"store", x>>}
StoresBy(T, x) == UNION {{t} \X Stores(t, x) : t \in T}
StoresOf(T, x) == Cardinality(StoresBy(T, x))

\* A read and a write that no mutex makes one lose no update as long as there is
\* no await between them and all tasks that do so are of one thread; with a mutex
\* they lose none on any.  Otherwise there may be as few updates as one.
UpdatesAdd ==
    \A x \in DOMAIN val :
        LET n == StoresOf(Task, x)
        IN  IF Guarded(main, x) THEN val[x] = n ELSE val[x] \in (IF n = 0 THEN 0 ELSE 1) .. n

\* A task that only reads a counter reads all that the tasks did that main awaited
\* before it spawned the reader.
ReadsAreCurrent ==
    \A t \in Task : \A x \in {op[2] : op \in {o \in Ops(main, t) : o[1] = "load"}} :
        t \notin Storers(main, x) /\ Over(t) =>
            reg[t] \in StoresOf(JoinedBefore(main, t), x) .. val[x]

\* main returns in every program, whatever the awaits and the threads do, and without
\* a failed assertion: no channel of limited room, fair mutex, lost waker or signal
\* that comes early keeps it.  Two programs may fail theirs, and of two more nothing
\* is said, since they hang if one of their tasks is too early.
MainEnds ==
    <>(\/ Over("main")
       \/ main \in MayFail /\ at["main"] = 0
       \/ main \in MayBeTooEarly)
=============================================================================
