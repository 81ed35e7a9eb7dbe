--------------------------- MODULE AsyncPrograms ----------------------------
(***************************************************************************)
(* The programs that run on AsyncTasks.  Numbers of tasks, rounds and room    *)
(* are smaller than in the code, each at least as large as it takes to have   *)
(* two of everything.                                                        *)
(***************************************************************************)
EXTENDS Integers, Sequences, SequencesExt, TLC

CONSTANTS Rounds, Room

Times(n, ops) == FlattenSeq([i \in 1 .. n |-> ops])
All(op, tasks) == [i \in DOMAIN tasks |-> <<op, tasks[i]>>]

\* Every task of script on any of the threads.
On(threads, script) == [script |-> script, home |-> [t \in DOMAIN script |-> threads], room |-> Room]

\* main has its own thread, the others share those of the runtime.
Multi(script) ==
    [On({"worker1", "worker2"}, script) EXCEPT !.home["main"] = {"main"}]

Increment(x) == <<<<"load", x>>, <<"store", x>>>>
Under(m, ops) == <<<<"lock", m>>>> \o ops \o <<<<"unlock", m>>>>
Three == <<"one", "two", "three">>
SpawnAndJoin(tasks) == All("spawn", tasks) \o All("join", tasks)

\* Two resources locked in opposite orders, with a timer between; main asserts that
\* both tasks end in time.
LockOrder ==
    On({"main"}, ("main" :> All("spawn", <<"handle1", "handle2">>) \o All("await", <<"handle1", "handle2">>))
        @@ ("handle1" :> Under("resource1", <<<<"sleep", "">>>> \o Under("resource2", <<>>)))
        @@ ("handle2" :> Under("resource2", <<<<"sleep", "">>>> \o Under("resource1", <<>>))))

\* unsafe_add on the runtime, and on the one a comment has in its place; main asserts
\* that all are counted.
UnsafeAddScript ==
    ("main" :> SpawnAndJoin(Three) \o <<<<"assert_eq", "COUNTER">>>>)
        @@ [t \in ToSet(Three) |-> Increment("COUNTER")]
UnsafeAdd == Multi(UnsafeAddScript)
UnsafeAddOneThread == On({"main"}, UnsafeAddScript)

\* A channel with less room than there are messages; main asserts that the sender
\* ends in time.
ChannelCapacity ==
    On({"main"}, ("main" :> <<<<"spawn", "sender">>, <<"spawn", "receiver">>, <<"await", "sender">>>>)
        @@ ("sender" :> Times(Room + Rounds, <<<<"send", "channel">>>>))
        @@ ("receiver" :> Times(Room + Rounds, <<<<"recv", "channel">>>>)))

\* A request, and its answer, at a time.
RespActor ==
    On({"main"}, ("main" :> <<<<"spawn", "actor">>>> \o Times(Rounds, <<<<"send", "tx">>, <<"recv", "resp">>>>))
        @@ ("actor" :> Times(Rounds, <<<<"recv", "tx">>>> \o Increment("state") \o <<<<"send", "resp">>>>)))

\* The mutex in place of the actor.
ActorReplacement ==
    On({"main"}, ("main" :> SpawnAndJoin(Three)) @@ [t \in ToSet(Three) |-> Under("state", Increment("state"))])

\* A coroutine sent to a thread, twice; main does not wait for the thread.
CoroutineSend ==
    Multi(("main" :> <<<<"spawn", "thread">>, <<"sleep", "">>, <<"send", "channel">>, <<"send", "channel">>, <<"sleep", "">>>>)
        @@ ("thread" :> <<<<"recv", "channel">>, <<"recv", "channel">>>>))

\* Pinned tasks that increment the counter of their thread, after a sleep each.
Something(thread) == Times(2, <<<<"sleep", "">>>> \o Increment(thread))

\* Three threads, and a counter of each that nobody shares.
ThreePools ==
    [On({"main"}, ("main" :> SpawnAndJoin(Three)) @@ [t \in ToSet(Three) |-> Increment(t)])
     EXCEPT !.home = [t \in DOMAIN @ |-> {t}]]

\* One thread in the pool: its counter is printed when all are awaited.
OneThreadPool ==
    [On({"pool1"}, ("main" :> SpawnAndJoin(<<"one", "two">>) \o SpawnAndJoin(<<"print">>))
        @@ [t \in {"one", "two"} |-> Something("pool1")] @@ ("print" :> <<<<"load", "pool1">>>>))
     EXCEPT !.home["main"] = {"main"}]

\* Several: at ctrl-c, which may come at any time, a task of each thread extracts
\* that thread's counter.
CompleteCount ==
    LET pin == ("one" :> "pool1") @@ ("two" :> "pool2")
               @@ ("extract1" :> "pool1") @@ ("extract2" :> "pool2")
        extract == <<"extract1", "extract2">>
        script == ("main" :> <<<<"spawn", "handle">>, <<"sleep", "">>>> \o SpawnAndJoin(extract))
                  @@ ("handle" :> SpawnAndJoin(<<"one", "two">>))
                  @@ [t \in DOMAIN pin |-> IF t \in ToSet(extract) THEN <<<<"load", pin[t]>>>> ELSE Something(pin[t])]
    IN  [script |-> script, room |-> Room,
         home |-> [t \in DOMAIN script |-> IF t \in DOMAIN pin THEN {pin[t]} ELSE {"main"}]]

\* A task of a runtime of its own, and two that wake themselves: what yields to the
\* other tasks is a sleep here, whoever wakes it.
SleepExample == Multi(("main" :> SpawnAndJoin(<<"sleep_example">>)) @@ ("sleep_example" :> <<<<"sleep", "">>>>))
Counters ==
    LET counters == <<"counter_1", "counter_2">>
    IN  Multi(("main" :> SpawnAndJoin(counters)) @@ [t \in ToSet(counters) |-> Times(4, <<<<"sleep", "">>>>)])

\* send_add puts the handle into MAP, get_add takes it out and awaits it.
AddHandler ==
    Multi(("main" :> <<<<"spawn", "async_add">>, <<"send", "MAP">>, <<"sleep", "">>, <<"take", "MAP">>, <<"join", "async_add">>>>)
        @@ ("async_add" :> <<<<"sleep", "">>>>))

\* The future's data is written, and its waker taken, by a task main triggers
\* after a while.
WakeFromOutside ==
    Multi(("main" :> <<<<"spawn", "future">>, <<"sleep", "">>, <<"spawn", "trigger">>, <<"send", "tx">>,
                       <<"join", "future">>, <<"join", "trigger">>>>)
        @@ ("future" :> <<<<"poll", "state">>>>)
        @@ ("trigger" :> <<<<"recv", "tx">>, <<"block", "state">>>> \o Increment("state")
                         \o <<<<"spin", "state">>, <<"unlock", "state">>>>))

\* main writes to a connection that ServerFuture accepts and reads at once.
MioServer ==
    Multi(("main" :> <<<<"spawn", "server">>, <<"send", "stream">>, <<"join", "server">>>>)
        @@ ("server" :> <<<<"take", "stream">>>>))

AllMains ==
    {LockOrder, UnsafeAdd, UnsafeAddOneThread, ChannelCapacity, RespActor, ActorReplacement,
     CoroutineSend, ThreePools, OneThreadPool, CompleteCount, SleepExample, Counters,
     AddHandler, WakeFromOutside, MioServer}

\* Programs with an assertion that a deadlock or a lost update may fail, and
\* programs that come to an end if one of their tasks is not too early.
MayFail == {LockOrder, UnsafeAdd}
MayBeTooEarly == {WakeFromOutside, MioServer}
=============================================================================
