---------------------------- MODULE TryLockTasks ----------------------------
(***************************************************************************)
(* Tasks that share data behind a mutex: the futures that try_lock and wake *)
(* themselves when it is taken (CounterFuture of tests/sharing_data.rs,     *)
(* AsyncWriteFuture of chap2/logging.rs, MutexCoroutine of                  *)
(* chap5/coroutine_test.rs), and the tasks that wait for tokio's mutex      *)
(* (count of tests/sharing_data.rs).  tokio's worker threads poll them at   *)
(* the same time.  Each main runs its own tasks: a behaviour is one main.   *)
(*                                                                          *)
(* A poll that finds the mutex taken only wakes itself: it changes nothing. *)
(***************************************************************************)
EXTENDS Integers, Sequences, FiniteSets, SequencesExt

CONSTANTS
    Mains,      \* the sets of tasks that run together
    Kind,       \* tasks to kinds: "future", "count", "write", "coroutine"
    Times,      \* updates each task makes (3 in main; threshold)
    MostTimes,  \* the largest of them
    Delta,      \* what an update adds: 1 or -1
    MutexOf,    \* the mutex of each task
    MayFail,    \* a write to the log may fail
    Nobody

Tasks == DOMAIN Kind
Mutexes == {MutexOf[t] : t \in Tasks}

VARIABLES
    active,     \* the tasks of the main that runs
    pc,         \* each task: poll, update, more (of a line), done
    left,       \* updates it has still to make
    read,       \* what it read under the mutex
    owner,      \* who has each mutex's guard
    waiters,    \* who waits for it (tokio's semaphore), first come first served
    value,      \* the counter
    file        \* the log: halves of lines, <<task, 1>> and <<task, 2>>

vars == <<active, pc, left, read, owner, waiters, value, file>>

Init ==
    /\ active \in Mains
    /\ pc = [t \in Tasks |-> "poll"] /\ left = Times
    /\ read = [t \in Tasks |-> 0]
    /\ owner = [m \in Mutexes |-> Nobody] /\ waiters = [m \in Mutexes |-> <<>>]
    /\ value = [m \in Mutexes |-> 0] /\ file = <<>>

-----------------------------------------------------------------------------
Polls(t) == t \in active /\ pc[t] = "poll"

\* Mutant: the data is read whether the guard was had or not.
LockRegardless(t) ==
    /\ Polls(t) /\ Kind[t] # "count"
    /\ read' = [read EXCEPT ![t] = value[MutexOf[t]]]
    /\ owner' = [owner EXCEPT ![MutexOf[t]] = t]
    /\ pc' = [pc EXCEPT ![t] = "update"]
    /\ UNCHANGED <<active, left, waiters, value, file>>

\* Mutant: the poll that finds the mutex taken does not wake itself.
TryLockOnce(t) ==
    LET m == MutexOf[t]
    IN  /\ Polls(t) /\ Kind[t] # "count"
        /\ IF owner[m] = Nobody
           THEN /\ owner' = [owner EXCEPT ![m] = t]
                /\ read' = [read EXCEPT ![t] = value[m]]
                /\ pc' = [pc EXCEPT ![t] = "update"]
           ELSE pc' = [pc EXCEPT ![t] = "asleep"] /\ UNCHANGED <<owner, read>>
        /\ UNCHANGED <<active, left, waiters, value, file>>

\* try_lock fails while another task has the guard.
TryLock(t) ==
    LET m == MutexOf[t]
    IN  /\ Polls(t) /\ Kind[t] # "count" /\ owner[m] = Nobody
        /\ owner' = [owner EXCEPT ![m] = t]
        /\ read' = [read EXCEPT ![t] = value[m]]
        /\ pc' = [pc EXCEPT ![t] = "update"]
        /\ UNCHANGED <<active, left, waiters, value, file>>

LockAwait(t) ==
    /\ Polls(t) /\ Kind[t] = "count" /\ left[t] > 0
    /\ waiters' = [waiters EXCEPT ![MutexOf[t]] = Append(@, t)]
    /\ pc' = [pc EXCEPT ![t] = "wait"]
    /\ UNCHANGED <<active, left, read, owner, value, file>>

Locked(t) ==
    LET m == MutexOf[t]
    IN  /\ pc[t] = "wait" /\ owner[m] = Nobody /\ Head(waiters[m]) = t
        /\ waiters' = [waiters EXCEPT ![m] = Tail(@)]
        /\ owner' = [owner EXCEPT ![m] = t]
        /\ read' = [read EXCEPT ![t] = value[m]]
        /\ pc' = [pc EXCEPT ![t] = "update"]
        /\ UNCHANGED <<active, left, value, file>>

\* increment, decrement or += 1, the drop of the guard, and the task's own count.
Update(t) ==
    LET m == MutexOf[t]
    IN  /\ pc[t] = "update" /\ Kind[t] # "write"
        /\ left[t] > 0
        /\ value' = [value EXCEPT ![m] = read[t] + Delta[t]]
        /\ owner' = [owner EXCEPT ![m] = Nobody]
        /\ left' = [left EXCEPT ![t] = @ - 1]
        /\ pc' = [pc EXCEPT ![t] = IF left[t] = 1 THEN "done" ELSE "poll"]
        /\ UNCHANGED <<active, read, waiters, file>>

\* write_all of a line may take more than one write.
WriteHalf(t) ==
    /\ pc[t] = "update" /\ Kind[t] = "write"
    /\ file' = Append(file, <<t, 1>>)
    /\ pc' = [pc EXCEPT ![t] = "more"]
    /\ UNCHANGED <<active, left, read, owner, waiters, value>>

WriteDone(t, end) ==
    /\ owner' = [owner EXCEPT ![MutexOf[t]] = Nobody]
    /\ left' = [left EXCEPT ![t] = @ - 1]
    /\ pc' = [pc EXCEPT ![t] = end]
    /\ UNCHANGED <<active, read, waiters, value>>

WriteRest(t) ==
    /\ pc[t] = "more"
    /\ file' = Append(file, <<t, 2>>)
    /\ WriteDone(t, "done")

\* Mutant: a line that failed is written again by the next poll.
WriteRetried(t) ==
    /\ MayFail /\ pc[t] \in {"update", "more"} /\ Kind[t] = "write"
    /\ owner' = [owner EXCEPT ![MutexOf[t]] = Nobody]
    /\ pc' = [pc EXCEPT ![t] = "poll"]
    /\ UNCHANGED <<active, left, read, waiters, value, file>>

\* An error is printed, and the task is Ready(Ok(true)) all the same.
WriteFails(t) ==
    /\ MayFail /\ pc[t] \in {"update", "more"} /\ Kind[t] = "write"
    /\ UNCHANGED file
    /\ WriteDone(t, "done")

-----------------------------------------------------------------------------
Step(t) ==
    \/ TryLock(t) \/ LockAwait(t) \/ Locked(t) \/ Update(t)
    \/ WriteHalf(t) \/ WriteRest(t) \/ WriteFails(t)

Next == \E t \in Tasks : Step(t)

Spec == Init /\ [][Next]_vars

\* A task that woke itself is polled again; tokio's semaphore passes the guard on.
FairSpec == Spec /\ \A t \in Tasks : WF_vars(Step(t))

-----------------------------------------------------------------------------
(* Properties.                                                             *)

\* The updates by d that the tasks of m have made, each task's counted down.
Updates(m, d) ==
    {u \in Tasks \X (1 .. MostTimes) :
        /\ MutexOf[u[1]] = m /\ Kind[u[1]] # "write" /\ Delta[u[1]] = d
        /\ left[u[1]] < u[2] /\ u[2] <= Times[u[1]]}

\* Every update counts: between two updates the data is what the updates made
\* so far add up to, whichever polls overlap.
EveryUpdateCounts ==
    \A m \in Mutexes : value[m] = Cardinality(Updates(m, 1)) - Cardinality(Updates(m, -1))

\* Lines of the log do not run into each other: a half line is followed by its
\* rest, unless its write failed, and no line is written twice.
LinesAreWhole ==
    /\ \A i, j \in DOMAIN file : file[i] = file[j] => i = j
    /\ \A i \in DOMAIN file :
         file[i][2] = 2 => i > 1 /\ file[i - 1] = <<file[i][1], 1>>

\* Every task of a main comes to its end, although a poll that finds the mutex
\* taken gets no turn reserved for it.
AllTasksEnd == \A t \in Tasks : t \in active ~> pc[t] = "done"
=============================================================================
