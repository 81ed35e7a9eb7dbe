---------------------------- MODULE WakerExecutor ---------------------------
(***************************************************************************)
(* The executor of executor/src/main.rs.  Tasks that may be polled wait in a *)
(* queue, polling; tasks that answered Pending wait in a map, waiting; a     *)
(* waker sends its task's id through a channel, and run moves the task of an *)
(* id from waiting to polling.  The wakers are called by other threads (the  *)
(* timer of async_std in main) at any time, before the task is in the map    *)
(* too, and more than once.                                                 *)
(***************************************************************************)
EXTENDS Integers, Sequences, FiniteSets, SequencesExt

CONSTANTS
    Tasks,      \* futures given to spawn_rcv; a task is its own id
    NoTask,
    Awaits,     \* events every future awaits, one after the other
    MaxExtra    \* bound on the calls of a waker beyond the needed ones

ASSUME ExecutorAssumption ==
    NoTask \notin Tasks /\ Awaits \in Nat /\ MaxExtra \in Nat

VARIABLES
    pc,         \* where run is: main, poll, run, insert, check, recv, done
    cur,        \* the task taken from polling
    spawned, finished,
    polling, waiting,
    wakes,      \* the channel from the wakers to run
    left,       \* events each future has still to await
    event,      \* of the one it awaits: none, armed (a waker is left), fired
    extra       \* needless calls of wakers so far

taskVars == <<spawned, finished, left>>
vars == <<pc, cur, taskVars, polling, waiting, wakes, event, extra>>

Init ==
    /\ pc = "main" /\ cur = NoTask
    /\ spawned = {} /\ finished = {}
    /\ polling = <<>> /\ waiting = {} /\ wakes = <<>>
    /\ left = [t \in Tasks |-> Awaits]
    /\ event = [t \in Tasks |-> "none"]
    /\ extra = 0

-----------------------------------------------------------------------------
\* Before run, or by a task that is being polled.
SpawnRcv(t) ==
    /\ pc \in {"main", "run"} /\ t \notin spawned
    /\ spawned' = spawned \cup {t}
    /\ polling' = Append(polling, t)
    /\ UNCHANGED <<pc, cur, finished, left, waiting, wakes, event, extra>>

Run ==
    /\ pc = "main"
    /\ pc' = "poll"
    /\ UNCHANGED <<cur, taskVars, polling, waiting, wakes, event, extra>>

-----------------------------------------------------------------------------
(* Executor::poll: every task of the queue is polled once.                 *)

PopFront ==
    /\ pc = "poll" /\ polling # <<>>
    /\ cur' = Head(polling) /\ polling' = Tail(polling)
    /\ pc' = "run"
    /\ UNCHANGED <<taskVars, waiting, wakes, event, extra>>

\* Mutant: ids that came while the tasks were polled are thrown away.
QueueEmptyAndDrain ==
    /\ pc = "poll" /\ polling = <<>>
    /\ pc' = "check" /\ wakes' = <<>>
    /\ UNCHANGED <<cur, taskVars, polling, waiting, event, extra>>

QueueEmpty ==
    /\ pc = "poll" /\ polling = <<>>
    /\ pc' = "check"
    /\ UNCHANGED <<cur, taskVars, polling, waiting, wakes, event, extra>>

\* The event the future awaited has happened: it goes on to the next.
Advance ==
    /\ pc = "run" /\ event[cur] = "fired"
    /\ left' = [left EXCEPT ![cur] = @ - 1]
    /\ event' = [event EXCEPT ![cur] = "none"]
    /\ UNCHANGED <<pc, cur, spawned, finished, polling, waiting, wakes, extra>>

\* The result is sent to the receiver spawn_rcv returned, the task dropped.
PollReady ==
    /\ pc = "run" /\ left[cur] = 0
    /\ finished' = finished \cup {cur}
    /\ cur' = NoTask /\ pc' = "poll"
    /\ UNCHANGED <<spawned, left, polling, waiting, wakes, event, extra>>

\* The future leaves its waker with the event and answers Pending.
PollPending ==
    /\ pc = "run" /\ left[cur] > 0 /\ event[cur] # "fired"
    /\ event' = [event EXCEPT ![cur] = "armed"]
    /\ pc' = "insert"
    /\ UNCHANGED <<cur, taskVars, polling, waiting, wakes, extra>>

Insert ==
    /\ pc = "insert"
    /\ waiting' = waiting \cup {cur}
    /\ cur' = NoTask /\ pc' = "poll"
    /\ UNCHANGED <<taskVars, polling, wakes, event, extra>>

-----------------------------------------------------------------------------
(* Executor::run between two calls of poll.                                *)

\* Mutants: nobody looks at the map, or nobody looks at all.
CheckQueueOnly ==
    /\ pc = "check"
    /\ pc' = IF polling = <<>> THEN "done" ELSE "recv"
    /\ UNCHANGED <<cur, taskVars, polling, waiting, wakes, event, extra>>
CheckNothing ==
    /\ pc = "check"
    /\ pc' = "recv"
    /\ UNCHANGED <<cur, taskVars, polling, waiting, wakes, event, extra>>

Check ==
    /\ pc = "check"
    /\ pc' = IF polling = <<>> /\ waiting = {} THEN "done" ELSE "recv"
    /\ UNCHANGED <<cur, taskVars, polling, waiting, wakes, event, extra>>

\* Mutant: the task is queued whether it was in the map or not.
RecvAndQueue ==
    /\ pc = "recv" /\ wakes # <<>>
    /\ polling' = Append(polling, Head(wakes))
    /\ waiting' = waiting \ {Head(wakes)}
    /\ wakes' = Tail(wakes)
    /\ pc' = "poll"
    /\ UNCHANGED <<cur, taskVars, event, extra>>

\* An id with no task in the map is ignored.
Recv ==
    /\ pc = "recv" /\ wakes # <<>>
    /\ polling' = IF Head(wakes) \in waiting THEN Append(polling, Head(wakes)) ELSE polling
    /\ waiting' = waiting \ {Head(wakes)}
    /\ wakes' = Tail(wakes)
    /\ pc' = "poll"
    /\ UNCHANGED <<cur, taskVars, event, extra>>

-----------------------------------------------------------------------------
(* The threads that call the wakers.                                       *)

Fire(t) ==
    /\ event[t] = "armed"
    /\ event' = [event EXCEPT ![t] = "fired"]
    /\ wakes' = Append(wakes, t)
    /\ UNCHANGED <<pc, cur, taskVars, polling, waiting, extra>>

\* A waker that was handed out once may be called at any later time.
ExtraWake(t) ==
    /\ t \in spawned /\ extra < MaxExtra
    /\ left[t] < Awaits \/ event[t] # "none"
    /\ wakes' = Append(wakes, t)
    /\ extra' = extra + 1
    /\ UNCHANGED <<pc, cur, taskVars, polling, waiting, event>>

-----------------------------------------------------------------------------
Executor ==
    \/ PopFront \/ QueueEmpty \/ Advance \/ PollReady \/ PollPending \/ Insert
    \/ Check \/ Recv

Next ==
    \/ Executor \/ Run
    \/ \E t \in Tasks : SpawnRcv(t) \/ Fire(t) \/ ExtraWake(t)

Spec == Init /\ [][Next]_vars

\* run keeps running, and every event a future awaits happens; nobody has to
\* spawn, to start run or to call a waker once more.
FairSpec == Spec /\ WF_vars(Executor) /\ \A t \in Tasks : WF_vars(Fire(t))

-----------------------------------------------------------------------------
(* Properties.                                                             *)

\* The type of every variable.
TypeOK ==
    /\ pc \in {"main", "poll", "run", "insert", "check", "recv", "done"}
    /\ cur \in Tasks \cup {NoTask}
    /\ spawned \subseteq Tasks /\ finished \subseteq spawned
    /\ polling \in Seq(Tasks) /\ waiting \subseteq Tasks /\ wakes \in Seq(Tasks)
    /\ left \in [Tasks -> 0 .. Awaits]
    /\ event \in [Tasks -> {"none", "armed", "fired"}]
    /\ extra \in 0 .. MaxExtra

Queued == ToSet(polling)
InChannel == ToSet(wakes)

\* A task that is spawned and not finished is in one place: the queue (once),
\* run's hands or the map.  Two homes would poll a future that is running or done.
OneHome ==
    /\ \A i, j \in 1 .. Len(polling) : polling[i] = polling[j] => i = j
    /\ Queued \cap waiting = {} /\ cur \notin Queued \cup waiting
    /\ Queued \cup waiting \cup ({cur} \ {NoTask}) = spawned \ finished

\* Every wake-up is still on its way: a task that answered Pending and is not
\* queued again has a waker that will be called, or its id in the channel, even
\* when the waker was called before the task got into the map.
NoLostWake ==
    \A t \in waiting \cup (IF pc = "insert" THEN {cur} ELSE {}) :
        event[t] = "armed" \/ t \in InChannel

\* run ignores an id only when its task is finished: while it reads the channel,
\* every other task is in the map.
IgnoredAreFinished == pc \in {"check", "recv"} => polling = <<>> /\ spawned \ finished = waiting

\* run returns only when every future it was given has sent its result.
ReturnsWhenAllDone == pc = "done" => spawned = finished

\* run returns, however early, late or often the wakers are called.
RunReturns == (pc = "poll") ~> (pc = "done")

\* What the proof adds: run holds a task exactly while it polls it, and an event
\* that is awaited is one of those still to await.
Hands ==
    /\ cur # NoTask <=> pc \in {"run", "insert"}
    /\ \A t \in Tasks : event[t] # "none" => left[t] > 0

IndInv ==
    TypeOK /\ Hands /\ OneHome /\ NoLostWake /\ IgnoredAreFinished /\ ReturnsWhenAllDone
=============================================================================
