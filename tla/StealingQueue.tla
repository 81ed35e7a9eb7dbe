--------------------------- MODULE StealingQueue ----------------------------
(***************************************************************************)
(* The runtime of chap3/async_queue.rs, which chap3/3_1.rs, chap3/3_4.rs,    *)
(* chap4/mio_socket.rs and chap4/socket.rs have in other sizes: tasks are    *)
(* scheduled on the queue of their order, High or Low, and worker threads    *)
(* take from their own queue first and steal from the other when it is       *)
(* empty.  What the programs differ in (threads, tasks, main) is a record    *)
(* of QueuePrograms; a behaviour runs one of them until its main returns.    *)
(*                                                                          *)
(* async_task keeps one Runnable per task: a wake during a poll schedules    *)
(* it once, when the poll is over; a wake while it waits in a queue does     *)
(* nothing.                                                                 *)
(***************************************************************************)
EXTENDS Integers, Sequences, FiniteSets, SequencesExt

CONSTANTS
    Programs,   \* records: see ProgramType
    NoTask

Orders == {"High", "Low"}
WorkerIds == UNION {DOMAIN p.loop : p \in Programs}
AllTasks == UNION {DOMAIN p.order : p \in Programs}

\* loop: the queues each worker thread tries, its own first; order: the queue of
\* each task; polls: polls its future takes, 0 for one that never ends; panics:
\* tasks whose future may panic; outside: tasks that do not wake themselves but
\* are woken by the reactor's thread; spawns: what the first poll of a task
\* spawns; main: what main does with its tasks, in order.
ProgramType(p) ==
    LET T == DOMAIN p.order
    IN  /\ DOMAIN p.loop \subseteq Orders \X Nat
        /\ \A w \in DOMAIN p.loop : p.loop[w] \in Seq(Orders) /\ p.loop[w] # <<>> /\ p.loop[w][1] = w[1]
        /\ p.order \in [T -> Orders] /\ p.polls \in [T -> Nat]
        /\ p.panics \subseteq T /\ p.outside \subseteq T
        /\ p.spawns \in [T -> SUBSET T]
        /\ p.main \in Seq({"spawn", "join", "try_join"} \X T)

\* A spawn makes a task of its own: main spawns none twice, nor one that another
\* task spawns, and a future spawns its tasks in a poll it does not repeat.
SpawnsOnce(p) ==
    LET T == DOMAIN p.order
        Spawning == {i \in DOMAIN p.main : p.main[i][1] = "spawn"}
    IN  /\ \A i, j \in Spawning : p.main[i][2] = p.main[j][2] => i = j
        /\ \A i \in Spawning : \A u \in T : p.main[i][2] \notin p.spawns[u]
        /\ \A u, v \in T : u # v => p.spawns[u] \cap p.spawns[v] = {}
        /\ \A u \in T : IsFiniteSet(p.spawns[u]) /\ (p.spawns[u] # {} => p.polls[u] # 0)

ASSUME QueueAssumption ==
    /\ \A p \in Programs : ProgramType(p) /\ SpawnsOnce(p)
    /\ NoTask \notin AllTasks

VARIABLES
    prog,       \* the program that runs
    step,       \* where its main is; 0 when it panicked
    queue,      \* HIGH_CHANNEL and LOW_CHANNEL
    wpc, at,    \* each worker: try, run or sleep; the queue it tries next
    running,    \* the Runnable it runs
    state,      \* each task: new, live, ready, panicked
    asleep,     \* live tasks nobody has woken since their last poll
    notified,   \* tasks woken while they were polled
    polled      \* polls so far, of tasks that end

vars == <<prog, step, queue, wpc, at, running, state, asleep, notified, polled>>

Tasks == DOMAIN prog.order
Worker == DOMAIN prog.loop

Init ==
    /\ prog \in Programs /\ step = 1
    /\ queue = [o \in Orders |-> <<>>]
    /\ wpc = [w \in Worker |-> "try"] /\ at = [w \in Worker |-> 1]
    /\ running = [w \in Worker |-> NoTask]
    /\ state = [t \in Tasks |-> "new"]
    /\ asleep = {} /\ notified = {}
    /\ polled = [t \in Tasks |-> 0]

\* When main is over so is the process.
Up == step \in 1 .. Len(prog.main)
Doing(op) == Up /\ prog.main[step][1] = op
Mains == prog.main[step][2]

-----------------------------------------------------------------------------
\* The closure schedule: the Runnables of S go to the queues of their orders.
Schedule(S) ==
    queue' = [o \in Orders |-> queue[o] \o SetToSeq({t \in S : prog.order[t] = o})]

MainSpawn ==
    /\ Doing("spawn")
    /\ state' = [state EXCEPT ![Mains] = "live"]
    /\ Schedule({Mains})
    /\ step' = step + 1
    /\ UNCHANGED <<prog, wpc, at, running, asleep, notified, polled>>

\* block_on returns when the task is ready; the panic of a task is main's panic,
\* unless try_join catches it.
MainJoin ==
    /\ Doing("join") \/ Doing("try_join")
    /\ \/ state[Mains] = "ready" /\ step' = step + 1
       \/ state[Mains] = "panicked" /\ step' = IF Doing("join") THEN 0 ELSE step + 1
    /\ UNCHANGED <<prog, queue, wpc, at, running, state, asleep, notified, polled>>

\* A LazyLock starts the threads of a queue with the first task of its order.
Started(w) == \E t \in Tasks : prog.order[t] = w[1] /\ state[t] # "new"

WorkerAt(w, pc) == Up /\ Started(w) /\ wpc[w] = pc

\* Mutant: the Runnable is looked at, and stays in the queue.
TryPeek(w) ==
    LET o == prog.loop[w][at[w]]
    IN  /\ WorkerAt(w, "try") /\ queue[o] # <<>>
        /\ running' = [running EXCEPT ![w] = Head(queue[o])]
        /\ wpc' = [wpc EXCEPT ![w] = "run"]
        /\ UNCHANGED <<prog, step, queue, at, state, asleep, notified, polled>>

\* try_recv on one queue gives the Runnable to run.
TryRecv(w) ==
    LET o == prog.loop[w][at[w]]
    IN  /\ WorkerAt(w, "try") /\ queue[o] # <<>>
        /\ running' = [running EXCEPT ![w] = Head(queue[o])]
        /\ queue' = [queue EXCEPT ![o] = Tail(@)]
        /\ wpc' = [wpc EXCEPT ![w] = "run"]
        /\ UNCHANGED <<prog, step, at, state, asleep, notified, polled>>

\* Or nothing: the worker goes on to the next queue, and sleeps after the last.
\* (The recv of 3_1.rs waits instead; there is no other queue to try.)
TryEmpty(w) ==
    /\ WorkerAt(w, "try") /\ queue[prog.loop[w][at[w]]] = <<>>
    /\ IF at[w] < Len(prog.loop[w])
       THEN at' = [at EXCEPT ![w] = @ + 1] /\ UNCHANGED wpc
       ELSE wpc' = [wpc EXCEPT ![w] = "sleep"] /\ UNCHANGED at
    /\ UNCHANGED <<prog, step, queue, running, state, asleep, notified, polled>>

Loop(w) ==
    /\ wpc' = [wpc EXCEPT ![w] = "try"] /\ at' = [at EXCEPT ![w] = 1]
    /\ running' = [running EXCEPT ![w] = NoTask]

Awake(w) ==
    /\ WorkerAt(w, "sleep") /\ Loop(w)
    /\ UNCHANGED <<prog, step, queue, state, asleep, notified, polled>>

Ends(t) == prog.polls[t] # 0
Poll(t) == polled' = [polled EXCEPT ![t] = IF Ends(t) THEN @ + 1 ELSE @]
Spawned(t) == IF polled[t] = 0 THEN prog.spawns[t] ELSE {}

\* Pending.  The future woke itself, or somebody did while it was polled, and its
\* Runnable goes back; or it sleeps.  Tasks it spawned are scheduled with it.
RunPending(w) ==
    LET t == running[w]
        again == t \notin prog.outside \/ t \in notified
    IN  /\ WorkerAt(w, "run") /\ (Ends(t) => polled[t] + 1 < prog.polls[t])
        /\ Poll(t)
        /\ Schedule(Spawned(t) \cup (IF again THEN {t} ELSE {}))
        /\ asleep' = IF again THEN asleep ELSE asleep \cup {t}
        /\ notified' = notified \ {t}
        /\ state' = [u \in Tasks |-> IF u \in Spawned(t) THEN "live" ELSE state[u]]
        /\ Loop(w)
        /\ UNCHANGED <<prog, step>>

End(w, how) ==
    /\ state' = [state EXCEPT ![running[w]] = how]
    /\ notified' = notified \ {running[w]}
    /\ UNCHANGED <<prog, step, queue, asleep>>

RunReady(w) ==
    LET t == running[w]
    IN  /\ WorkerAt(w, "run") /\ Ends(t) /\ polled[t] + 1 = prog.polls[t]
        /\ Poll(t)
        /\ End(w, "ready") /\ Loop(w)

\* Mutant: catch_unwind is missing, and the thread ends with the panic.
PanicKills(w) ==
    /\ WorkerAt(w, "run") /\ running[w] \in prog.panics
    /\ End(w, "panicked")
    /\ wpc' = [wpc EXCEPT ![w] = "gone"]
    /\ running' = [running EXCEPT ![w] = NoTask]
    /\ UNCHANGED <<at, polled>>

\* catch_unwind keeps the worker; the task is closed.
RunPanics(w) ==
    /\ WorkerAt(w, "run") /\ running[w] \in prog.panics
    /\ End(w, "panicked") /\ Loop(w)
    /\ UNCHANGED polled

\* The reactor's thread calls a task's waker; it may do so needlessly.
Wake(t) ==
    /\ Up /\ t \in Tasks /\ t \in prog.outside /\ state[t] = "live"
    /\ Schedule(asleep \cap {t})
    /\ asleep' = asleep \ {t}
    /\ notified' = notified \cup ({t} \cap {running[w] : w \in Worker})
    /\ UNCHANGED <<prog, step, wpc, at, running, state, polled>>

-----------------------------------------------------------------------------
Main == MainSpawn \/ MainJoin

WorkerStep(w) ==
    /\ w \in Worker
    /\ TryRecv(w) \/ TryEmpty(w) \/ Awake(w) \/ RunPending(w) \/ RunReady(w) \/ RunPanics(w)

Next == Main \/ (\E w \in WorkerIds : WorkerStep(w)) \/ \E t \in AllTasks : Wake(t)

Spec == Init /\ [][Next]_vars

\* The operating system schedules main and every worker; a task that sleeps is
\* woken in the end.
FairSpec ==
    /\ Spec /\ WF_vars(Main)
    /\ \A w \in WorkerIds : WF_vars(WorkerStep(w))
    /\ \A t \in AllTasks : WF_vars(t \in asleep /\ Wake(t))

-----------------------------------------------------------------------------
(* Properties.                                                             *)

\* However often it is stolen, woken and rescheduled, a task that is neither over
\* nor asleep has one Runnable: in one queue, or with one worker.  Two would poll
\* one future twice at the same time; none would leave it unpolled for ever.
OneRunnable ==
    \A t \in Tasks :
        LET In(s) == Cardinality({i \in DOMAIN s : s[i] = t})
        IN  In(queue["High"]) + In(queue["Low"]) + Cardinality({w \in Worker : running[w] = t})
              = IF state[t] = "live" /\ t \notin asleep THEN 1 ELSE 0

\* With no High worker a Low task that never ends keeps the Low one from ever
\* looking at the queue main waits for: the case of two cores and async_queue.rs.
Starved ==
    /\ Doing("join") /\ prog.order[Mains] = "High" /\ state[Mains] = "live"
    /\ ~\E w \in Worker : w[1] = "High"
    /\ \E t \in Tasks : prog.order[t] = "Low" /\ state[t] = "live" /\ ~Ends(t)

\* Main returns, be it by the panic of a task it joined.  Neither a wake-up that
\* comes while the task is polled, nor a panic on a worker, nor a task that never
\* ends keeps it from that: as long as there is a worker for each order.
MainsReturn == <>(~Up \/ Starved)
=============================================================================
