--------------------------- MODULE QueuePrograms ----------------------------
(***************************************************************************)
(* The five programs that run on the queues of StealingQueue: the worker     *)
(* threads of each, the tasks of its main, and what main does with them.     *)
(* The numbers of CoreCounts stand for available_parallelism, which           *)
(* Runtime::new asks for the number of High workers; the others have theirs  *)
(* fixed.                                                                   *)
(***************************************************************************)
EXTENDS Integers, Sequences, FiniteSets, Functions, TLC

CONSTANT CoreCounts
ASSUME CoresAssumption == CoreCounts \subseteq Nat \ {0, 1}   \* cores - 2 is a usize

\* Threads that serve their own queue and steal from the other.
Stealing(high, low) ==
    [w \in ({"High"} \X (1 .. high)) \cup ({"Low"} \X (1 .. low)) |->
        IF w[1] = "High" THEN <<"High", "Low">> ELSE <<"Low", "High">>]

Spawn(t) == <<"spawn", t>>
Join(t) == <<"join", t>>

\* The two empty tasks of Runtime::run, before which there are no threads.
RunOrder == ("empty1" :> "High") @@ ("empty2" :> "Low")
RunPolls == ("empty1" :> 1) @@ ("empty2" :> 1)
RunSteps == <<Spawn("empty1"), Spawn("empty2"), Join("empty1"), Join("empty2")>>

Program(loop, order, polls, main) ==
    [loop |-> loop, order |-> order, polls |-> polls, main |-> main,
     panics |-> {}, outside |-> {}, spawns |-> [t \in DOMAIN order |-> {}]]

\* One thread and one queue, which the model calls Low.
OneQueueLoop == <<"Low", 1>> :> <<"Low">>
OneQueue ==
    Program(OneQueueLoop,
            [t \in {"count1", "count2", "block"} |-> "Low"],
            ("count1" :> 3) @@ ("count2" :> 3) @@ ("block" :> 1),
            <<Spawn("count1"), Spawn("count2"), Spawn("block"),
              Join("count1"), Join("count2"), Join("block")>>)

\* HIGH_PRIORITY_THREAD_NUM High threads, and an order that futures carry.
LabelledLoop == Stealing(3, 1)
Labelled ==
    Program(LabelledLoop,
            ("count1" :> "High") @@ ("count2" :> "Low"),
            ("count1" :> 3) @@ ("count2" :> 3),
            <<Spawn("count1"), Spawn("count2"), Join("count1"), Join("count2")>>)

\* The runtime, its background process and the four tasks main joins.
AsyncQueueLoop(cores) == Stealing(cores - 2, 1)
AsyncQueue(cores) ==
    Program(AsyncQueueLoop(cores),
            RunOrder @@ ("background" :> "Low") @@ ("count1" :> "High") @@ ("count2" :> "Low")
              @@ ("fn" :> "Low") @@ ("block" :> "High"),
            RunPolls @@ ("background" :> 0) @@ ("count1" :> 3) @@ ("count2" :> 3)
              @@ ("fn" :> 1) @@ ("block" :> 1),
            RunSteps \o <<Spawn("background"), Spawn("count1"), Spawn("count2"), Spawn("fn"), Spawn("block"),
                          Join("count1"), Join("count2"), Join("fn"), Join("block")>>)

\* ServerFuture wakes itself after every poll, and may panic in accept.  (Whether
\* it ends is a question of AsyncPrograms; here it does, at its second poll.)
MioLoop(cores) == Stealing(cores - 2, 1)
Mio(cores) ==
    [Program(MioLoop(cores),
             RunOrder @@ ("server" :> "Low"), RunPolls @@ ("server" :> 2),
             RunSteps \o <<Spawn("server"), Join("server")>>)
     EXCEPT !.panics = {"server"}]

\* fetch and, through CustomExecutor, hyper's connection task.  Both wait for
\* sockets, and the reactor wakes them.  Neither error of fetch is caught.
SocketLoop(cores) == Stealing(cores - 2, 1)
CustomExecutor == [t \in {"empty1", "empty2", "fetch", "hyper"} |-> IF t = "fetch" THEN {"hyper"} ELSE {}]
Socket(cores) ==
    [Program(SocketLoop(cores),
             RunOrder @@ ("fetch" :> "Low") @@ ("hyper" :> "Low"),
             RunPolls @@ ("fetch" :> 3) @@ ("hyper" :> 3),
             RunSteps \o <<Spawn("fetch"), Join("fetch")>>)
     EXCEPT !.panics = {"fetch"}, !.outside = {"fetch", "hyper"}, !.spawns = CustomExecutor]

AllPrograms ==
    {OneQueue, Labelled} \cup UNION {{AsyncQueue(cores), Mio(cores), Socket(cores)} : cores \in CoreCounts}
=============================================================================
