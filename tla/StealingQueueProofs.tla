------------------------- MODULE StealingQueueProofs -------------------------
(***************************************************************************)
(* Proofs about StealingQueue for every set of programs, however many         *)
(* threads, tasks and polls they have: OneRunnable.  Its statement counts;    *)
(* the invariant that is proved says the same without numbers (no task twice  *)
(* in the queues, none in two hands, none in a hand and a queue, and exactly  *)
(* the live ones that do not sleep somewhere), and that tasks still to be     *)
(* spawned are new, without which a spawn could give a task a second         *)
(* Runnable.                                                                *)
(***************************************************************************)
EXTENDS StealingQueue, SequenceLemmas

\* The types of what moves a Runnable, and that only live tasks sleep.
Typed ==
    /\ prog \in Programs /\ step \in Nat
    /\ queue \in [Orders -> Seq(Tasks)]
    /\ wpc \in [Worker -> {"try", "run", "sleep"}]
    /\ \A w \in Worker : at[w] \in 1 .. Len(prog.loop[w])
    /\ at \in [Worker -> Nat]
    /\ running \in [Worker -> Tasks \cup {NoTask}]
    /\ state \in [Tasks -> {"new", "live", "ready", "panicked"}]
    /\ polled \in [Tasks -> Nat]
    /\ asleep \subseteq Tasks /\ \A t \in asleep : state[t] = "live"

\* The queues hold no task twice, and none in both.
QueuesOnce ==
    /\ \A o \in Orders : Once(queue[o])
    /\ ToSet(queue["High"]) \cap ToSet(queue["Low"]) = {}

InQueue(t) == \E o \in Orders : t \in ToSet(queue[o])
Runs(t) == \E w \in Worker : running[w] = t

\* A worker has a task in hand exactly while it runs it; no other worker has it,
\* and no queue.
HandsOnce ==
    \A w \in Worker :
        /\ wpc[w] = "run" <=> running[w] # NoTask
        /\ running[w] # NoTask =>
             ~InQueue(running[w]) /\ \A v \in Worker : running[v] = running[w] => v = w

\* The tasks that have a Runnable.
LiveHaveOne ==
    \A t \in Tasks : (state[t] = "live" /\ t \notin asleep) <=> (InQueue(t) \/ Runs(t))

\* What is still to be spawned is new.
UnspawnedAreNew ==
    /\ step # 0 =>
         \A i \in DOMAIN prog.main : i >= step /\ prog.main[i][1] = "spawn" => state[prog.main[i][2]] = "new"
    /\ \A u \in Tasks : polled[u] = 0 => \A t \in prog.spawns[u] : state[t] = "new"

IndInv == Typed /\ QueuesOnce /\ HandsOnce /\ LiveHaveOne /\ UnspawnedAreNew

-----------------------------------------------------------------------------
\* The program of a behaviour is one of the assumption.
LEMMA ProgramFacts ==
    ASSUME prog \in Programs
    PROVE  /\ ProgramType(prog) /\ SpawnsOnce(prog) /\ NoTask \notin Tasks
           /\ prog.order \in [Tasks -> Orders]
           /\ \A t \in Tasks : prog.spawns[t] \in SUBSET Tasks /\ IsFiniteSet(prog.spawns[t])
           /\ \A i \in DOMAIN prog.main : prog.main[i][2] \in Tasks
  <1>1. ProgramType(prog) /\ SpawnsOnce(prog)
    BY QueueAssumption
  <1>2. NoTask \notin Tasks
    BY QueueAssumption DEF AllTasks, Tasks
  <1>3. prog.order \in [Tasks -> Orders] /\ prog.spawns \in [Tasks -> SUBSET Tasks]
    BY <1>1 DEF ProgramType, Tasks
  <1>4. \A t \in Tasks : IsFiniteSet(prog.spawns[t])
    BY <1>1 DEF SpawnsOnce, Tasks
  <1>5. prog.main \in Seq({"spawn", "join", "try_join"} \X Tasks)
    BY <1>1 DEF ProgramType, Tasks
  <1>6. ASSUME NEW i \in DOMAIN prog.main PROVE prog.main[i][2] \in Tasks
    <2>1. prog.main[i] \in {"spawn", "join", "try_join"} \X Tasks
      BY <1>5
    <2> QED BY <2>1
  <1> QED BY <1>1, <1>2, <1>3, <1>4, <1>6

\* The closure schedule, for tasks that are in no queue.
LEMMA ScheduleKeeps ==
    ASSUME Typed, QueuesOnce, UNCHANGED prog,
           NEW S \in SUBSET Tasks, IsFiniteSet(S), \A t \in S : ~InQueue(t), Schedule(S)
    PROVE  /\ queue' \in [Orders -> Seq(Tasks)]
           /\ QueuesOnce'
           /\ \A t \in Tasks : InQueue(t)' <=> (InQueue(t) \/ t \in S)
  <1> DEFINE Of(o) == {t \in S : prog.order[t] = o}
             more(o) == SetToSeq(Of(o))
  <1>1. /\ prog.order \in [Tasks -> Orders]
        /\ queue \in [Orders -> Seq(Tasks)]
    BY ProgramFacts DEF Typed
  <1>2. ASSUME NEW o \in Orders
        PROVE  more(o) \in Seq(Tasks) /\ ToSet(more(o)) = Of(o) /\ Once(more(o))
    <2>1. IsFiniteSet(Of(o))
      BY FS_Subset
    <2>2. more(o) \in Seq(Of(o)) /\ ToSet(more(o)) = Of(o) /\ Once(more(o))
      BY <2>1, SetToSeqElements
    <2>3. Of(o) \subseteq Tasks
      OBVIOUS
    <2>4. more(o) \in Seq(Tasks)
      BY <2>2, <2>3
    <2> QED BY <2>2, <2>4
  <1>3. queue' = [o \in Orders |-> queue[o] \o more(o)]
    BY DEF Schedule
  <1> HIDE DEF more
  <1>4. ASSUME NEW o \in Orders
        PROVE  /\ queue'[o] \in Seq(Tasks) /\ Once(queue'[o])
               /\ ToSet(queue'[o]) = ToSet(queue[o]) \cup Of(o)
    <2>1. queue'[o] = queue[o] \o more(o) /\ queue[o] \in Seq(Tasks)
      BY <1>1, <1>3
    <2>2. Once(queue[o]) /\ ToSet(queue[o]) \cap Of(o) = {}
      BY DEF QueuesOnce, InQueue
    <2>3. ToSet(queue'[o]) = ToSet(queue[o]) \cup ToSet(more(o)) /\ queue'[o] \in Seq(Tasks)
      BY <1>2, <2>1, ConcatElements
    <2>4. Once(queue'[o])
      BY <1>2, <2>1, <2>2, ConcatOnce
    <2> QED BY <1>2, <2>3, <2>4
  <1>5. queue' \in [Orders -> Seq(Tasks)]
    BY <1>3, <1>4
  <1>6. "High" \in Orders /\ "Low" \in Orders /\ Of("High") \cap Of("Low") = {}
    BY DEF Orders
  <1>7. ToSet(queue["High"]) \cap Of("Low") = {} /\ ToSet(queue["Low"]) \cap Of("High") = {}
    BY <1>6 DEF InQueue
  <1>8. QueuesOnce'
    BY <1>4, <1>6, <1>7 DEF QueuesOnce
  <1>9. ASSUME NEW t \in Tasks PROVE InQueue(t)' <=> (InQueue(t) \/ t \in S)
    <2>1. t \in S => prog.order[t] \in Orders /\ t \in Of(prog.order[t])
      BY <1>1
    <2> QED BY <1>4, <2>1 DEF InQueue
  <1> QED BY <1>5, <1>8, <1>9

-----------------------------------------------------------------------------
LEMMA InitHolds == Init => IndInv
  <1> SUFFICES ASSUME Init PROVE IndInv
    OBVIOUS
  <1> USE DEF Init
  <1>1. ProgramType(prog)
    BY ProgramFacts
  <1>2. Typed
    <2>1. \A w \in Worker : 1 \in 1 .. Len(prog.loop[w])
      <3>1. ASSUME NEW w \in Worker PROVE Len(prog.loop[w]) \in Nat /\ Len(prog.loop[w]) > 0
        <4>1. prog.loop[w] \in Seq(Orders) /\ prog.loop[w] # <<>>
          BY <1>1 DEF ProgramType, Worker
        <4> QED BY <4>1
      <3> QED BY <3>1
    <2> QED BY <2>1 DEF Typed
  <1>3. \A o \in Orders : queue[o] = <<>> /\ ToSet(queue[o]) = {}
    BY EmptyToSet
  <1>4. QueuesOnce
    BY <1>3 DEF QueuesOnce, Once, Orders
  <1>5. HandsOnce
    BY DEF HandsOnce
  <1>6. LiveHaveOne
    BY <1>3, ProgramFacts DEF LiveHaveOne, InQueue, Runs
  <1>7. UnspawnedAreNew
    <2>1. \A i \in DOMAIN prog.main : prog.main[i][2] \in Tasks
      BY ProgramFacts
    <2>2. \A u \in Tasks : \A t \in prog.spawns[u] : t \in Tasks
      BY ProgramFacts
    <2> QED BY <2>1, <2>2 DEF UnspawnedAreNew
  <1> QED BY <1>2, <1>4, <1>5, <1>6, <1>7 DEF IndInv

\* try_recv takes the first task of a queue.
LEMMA PopKeeps ==
    ASSUME Typed, QueuesOnce, UNCHANGED prog,
           NEW o \in Orders, queue[o] # <<>>, queue' = [queue EXCEPT ![o] = Tail(@)]
    PROVE  /\ Head(queue[o]) \in Tasks /\ InQueue(Head(queue[o]))
           /\ queue' \in [Orders -> Seq(Tasks)]
           /\ QueuesOnce'
           /\ \A t \in Tasks : InQueue(t)' <=> (InQueue(t) /\ t # Head(queue[o]))
  <1> DEFINE s == queue[o]
  <1>1. s \in Seq(Tasks) /\ queue \in [Orders -> Seq(Tasks)] /\ s # <<>>
    BY DEF Typed
  <1>2. Once(s)
    BY DEF QueuesOnce
  <1>3. queue'[o] = Tail(s) /\ \A q \in Orders : q # o => queue'[q] = queue[q]
    BY <1>1
  <1> HIDE DEF s
  <1>4. Head(s) \in Tasks /\ Tail(s) \in Seq(Tasks) /\ ToSet(s) = ToSet(Tail(s)) \cup {Head(s)}
    BY <1>1, TailElements
  <1>5. Once(Tail(s)) /\ Head(s) \notin ToSet(Tail(s))
    BY <1>1, <1>2, PopOnce DEF Once
  <1>6. queue' \in [Orders -> Seq(Tasks)]
    BY <1>1, <1>4 DEF s
  <1>7. ToSet(queue'[o]) = ToSet(s) \ {Head(s)}
    BY <1>3, <1>4, <1>5
  <1>8. \A q \in Orders : Once(queue'[q]) /\ ToSet(queue'[q]) \subseteq ToSet(queue[q])
    BY <1>3, <1>5, <1>7 DEF QueuesOnce, s
  <1>9. QueuesOnce'
    BY <1>8 DEF QueuesOnce, Orders
  <1>10. \A q \in Orders : q # o => Head(s) \notin ToSet(queue[q])
    BY <1>4 DEF QueuesOnce, Orders, s
  <1>11. ASSUME NEW t \in Tasks PROVE InQueue(t)' <=> (InQueue(t) /\ t # Head(s))
    <2>1. \A q \in Orders : t \in ToSet(queue'[q]) <=> (t \in ToSet(queue[q]) /\ t # Head(s))
      BY <1>3, <1>7, <1>10 DEF s
    <2> QED BY <2>1 DEF InQueue
  <1> QED BY <1>4, <1>6, <1>9, <1>11 DEF InQueue, s

\* When the queues do not change, neither does what is in them.
LEMMA SameQueues ==
    ASSUME Typed, UNCHANGED <<prog, queue>>
    PROVE  /\ Tasks' = Tasks /\ Worker' = Worker
           /\ queue' \in [Orders -> Seq(Tasks)]
           /\ QueuesOnce => QueuesOnce'
           /\ \A t \in Tasks : InQueue(t)' <=> InQueue(t)
  BY DEF Typed, Tasks, Worker, QueuesOnce, InQueue

-----------------------------------------------------------------------------
LEMMA MainSpawnKeeps ==
    ASSUME IndInv, MainSpawn PROVE IndInv'
  <1> DEFINE t == prog.main[step][2]
  <1>1. /\ Typed /\ QueuesOnce /\ HandsOnce /\ LiveHaveOne /\ UnspawnedAreNew
        /\ Tasks' = Tasks /\ Worker' = Worker /\ prog' = prog
    BY DEF IndInv, MainSpawn, Tasks, Worker
  <1>2. /\ step \in DOMAIN prog.main /\ step \in Nat /\ step # 0 /\ prog.main[step][1] = "spawn"
        /\ Mains = t /\ step' = step + 1
    <2>1. prog.main \in Seq({"spawn", "join", "try_join"} \X Tasks)
      BY <1>1, ProgramFacts DEF ProgramType, Tasks, Typed
    <2>2. step \in 1 .. Len(prog.main) /\ prog.main[step][1] = "spawn"
      BY DEF MainSpawn, Doing, Up
    <2> QED BY <1>1, <2>1, <2>2 DEF MainSpawn, Mains, Typed
  <1>3. t \in Tasks /\ state[t] = "new"
    BY <1>1, <1>2, ProgramFacts DEF UnspawnedAreNew, Typed
  <1> HIDE DEF t
  <1>4. t \notin asleep /\ ~InQueue(t) /\ ~Runs(t)
    BY <1>1, <1>3 DEF Typed, LiveHaveOne
  <1>5. /\ queue' \in [Orders -> Seq(Tasks)] /\ QueuesOnce'
        /\ \A u \in Tasks : InQueue(u)' <=> (InQueue(u) \/ u = t)
    <2>1. IsFiniteSet({t}) /\ {t} \in SUBSET Tasks
      BY <1>3, FS_Singleton
    <2>2. Schedule({t})
      BY <1>2 DEF MainSpawn
    <2> QED BY <1>1, <1>4, <2>1, <2>2, ScheduleKeeps
  <1>6. state' = [state EXCEPT ![t] = "live"] /\ UNCHANGED <<wpc, at, running, asleep, polled>>
    BY <1>2 DEF MainSpawn
  <1>7. Typed'
    BY <1>1, <1>2, <1>3, <1>5, <1>6 DEF Typed
  <1>8. HandsOnce'
    <2>1. ASSUME NEW w \in Worker, running[w] # NoTask PROVE ~InQueue(running[w])'
      <3>1. running[w] \in Tasks /\ running[w] # t /\ running'[w] = running[w]
        BY <1>1, <1>4, <1>6, <2>1 DEF Typed, Runs
      <3> QED BY <1>1, <1>5, <1>6, <2>1, <3>1 DEF HandsOnce, InQueue
    <2> QED BY <1>1, <1>6, <2>1 DEF HandsOnce, InQueue
  <1>9. LiveHaveOne'
    <2>1. \A u \in Tasks : Runs(u)' <=> Runs(u)
      BY <1>1, <1>6 DEF Runs
    <2>2. ASSUME NEW u \in Tasks
          PROVE  (state'[u] = "live" /\ u \notin asleep') <=> (InQueue(u)' \/ Runs(u)')
      BY <1>1, <1>3, <1>4, <1>5, <1>6, <2>1 DEF LiveHaveOne, Typed
    <2> QED BY <1>1, <2>2 DEF LiveHaveOne, InQueue, Runs
  <1>10. UnspawnedAreNew'
    <2>1. SpawnsOnce(prog)
      BY <1>1, ProgramFacts DEF Typed
    <2>2. ASSUME NEW i \in DOMAIN prog.main, i >= step + 1, prog.main[i][1] = "spawn"
          PROVE  state'[prog.main[i][2]] = "new"
      <3>1. prog.main[i][2] # t
        BY <1>2, <2>1, <2>2 DEF SpawnsOnce, t
      <3>2. i >= step /\ prog.main[i][2] \in Tasks
        BY <1>1, <1>2, <2>2, ProgramFacts DEF Typed, ProgramType
      <3>3. state[prog.main[i][2]] = "new"
        BY <1>1, <1>2, <2>2, <3>2 DEF UnspawnedAreNew
      <3> QED BY <1>1, <1>6, <3>1, <3>2, <3>3 DEF Typed
    <2>3. ASSUME NEW u \in Tasks, polled[u] = 0, NEW v \in prog.spawns[u]
          PROVE  state'[v] = "new"
      <3>1. v # t /\ v \in Tasks
        BY <1>1, <1>2, <2>1, ProgramFacts DEF SpawnsOnce, t, Tasks, Typed
      <3> QED BY <1>1, <1>6, <2>3, <3>1 DEF UnspawnedAreNew, Typed
    <2> QED BY <1>1, <1>2, <1>6, <2>2, <2>3 DEF UnspawnedAreNew
  <1> QED BY <1>5, <1>7, <1>8, <1>9, <1>10 DEF IndInv

LEMMA MainJoinKeeps ==
    ASSUME IndInv, MainJoin PROVE IndInv'
  <1>1. /\ Typed /\ QueuesOnce /\ HandsOnce /\ LiveHaveOne /\ UnspawnedAreNew
        /\ Tasks' = Tasks /\ Worker' = Worker
        /\ UNCHANGED <<prog, queue, wpc, at, running, state, asleep, polled>>
    BY DEF IndInv, MainJoin, Tasks, Worker
  <1>2. step' \in {0, step + 1} /\ step \in Nat /\ step # 0
    BY <1>1 DEF MainJoin, Doing, Up, Typed
  <1>3. Typed' /\ QueuesOnce'
    BY <1>1, <1>2 DEF Typed, QueuesOnce
  <1>4. HandsOnce' /\ LiveHaveOne'
    BY <1>1 DEF HandsOnce, LiveHaveOne, InQueue, Runs
  <1>5. UnspawnedAreNew'
    <2>1. DOMAIN prog.main \subseteq Nat
      BY <1>1, ProgramFacts DEF Typed, ProgramType
    <2>2. \A i \in DOMAIN prog.main : step' # 0 /\ i >= step' => i >= step
      BY <1>2, <2>1
    <2> QED BY <1>1, <1>2, <2>2 DEF UnspawnedAreNew
  <1> QED BY <1>3, <1>4, <1>5 DEF IndInv

-----------------------------------------------------------------------------
(* The workers.                                                            *)

\* A worker's loop starts again, with nothing in hand.
LEMMA LoopFrees ==
    ASSUME Typed, HandsOnce, UNCHANGED prog, NEW w \in Worker, Loop(w)
    PROVE  /\ running' \in [Worker -> Tasks \cup {NoTask}]
           /\ wpc' \in [Worker -> {"try", "run", "sleep"}]
           /\ at' \in [Worker -> Nat] /\ \A v \in Worker : at'[v] \in 1 .. Len(prog.loop[v])
           /\ \A v \in Worker : wpc'[v] = "run" <=> running'[v] # NoTask
           /\ \A v \in Worker : running'[v] # NoTask => v # w /\ running'[v] = running[v] /\ running[v] # running[w]
           /\ \A t \in Tasks : Runs(t)' <=> (Runs(t) /\ t # running[w])
  <1>1. /\ running' = [running EXCEPT ![w] = NoTask]
        /\ wpc' = [wpc EXCEPT ![w] = "try"] /\ at' = [at EXCEPT ![w] = 1]
        /\ Worker' = Worker
    BY DEF Loop, Worker
  <1>2. 1 \in 1 .. Len(prog.loop[w])
    <2>1. prog.loop[w] \in Seq(Orders) /\ prog.loop[w] # <<>>
      BY ProgramFacts DEF Typed, ProgramType, Worker
    <2>2. Len(prog.loop[w]) \in Nat /\ Len(prog.loop[w]) > 0
      BY <2>1
    <2> QED BY <2>2
  <1>3. \A v \in Worker : wpc'[v] = "run" <=> running'[v] # NoTask
    BY <1>1 DEF Typed, HandsOnce
  <1>4. \A v \in Worker : running'[v] # NoTask => v # w /\ running'[v] = running[v] /\ running[v] # running[w]
    BY <1>1 DEF Typed, HandsOnce
  <1>5. NoTask \notin Tasks
    BY ProgramFacts DEF Typed
  <1>6. ASSUME NEW t \in Tasks PROVE Runs(t)' <=> (Runs(t) /\ t # running[w])
    <2>1. ASSUME NEW v \in Worker PROVE running'[v] = t <=> (running[v] = t /\ t # running[w])
      BY <1>1, <1>4, <1>5, <2>1 DEF Typed
    <2> QED BY <1>1, <2>1 DEF Runs
  <1> QED BY <1>1, <1>2, <1>3, <1>4, <1>6 DEF Typed

LEMMA TryRecvKeeps ==
    ASSUME IndInv, NEW w \in Worker, TryRecv(w) PROVE IndInv'
  <1> DEFINE o == prog.loop[w][at[w]]
             t == Head(queue[o])
  <1>1. /\ Typed /\ QueuesOnce /\ HandsOnce /\ LiveHaveOne /\ UnspawnedAreNew
        /\ Tasks' = Tasks /\ Worker' = Worker
        /\ UNCHANGED <<prog, step, at, state, asleep, polled>>
    BY DEF IndInv, TryRecv, Tasks, Worker
  <1>2. o \in Orders
    <2>1. prog.loop[w] \in Seq(Orders) /\ at[w] \in 1 .. Len(prog.loop[w])
      BY <1>1, ProgramFacts DEF Typed, ProgramType, Worker
    <2> QED BY <2>1
  <1>3. /\ wpc[w] = "try" /\ queue[o] # <<>> /\ queue' = [queue EXCEPT ![o] = Tail(@)]
        /\ running' = [running EXCEPT ![w] = t] /\ wpc' = [wpc EXCEPT ![w] = "run"]
    BY DEF TryRecv, WorkerAt
  <1> HIDE DEF o
  <1>4. /\ t \in Tasks /\ InQueue(t)
        /\ queue' \in [Orders -> Seq(Tasks)] /\ QueuesOnce'
        /\ \A u \in Tasks : InQueue(u)' <=> (InQueue(u) /\ u # t)
    BY <1>1, <1>2, <1>3, PopKeeps
  <1> HIDE DEF t
  <1>5. NoTask \notin Tasks
    BY <1>1, ProgramFacts DEF Typed
  <1>6. running[w] = NoTask
    BY <1>1, <1>3 DEF HandsOnce
  <1>7. Typed'
    BY <1>1, <1>3, <1>4 DEF Typed
  <1>8. ASSUME NEW v \in Worker, v # w PROVE running'[v] = running[v] /\ running[v] # t
    BY <1>1, <1>3, <1>4, <1>5, <1>8 DEF Typed, HandsOnce
  <1>9. HandsOnce'
    <2>1. running'[w] = t /\ wpc'[w] = "run" /\ \A v \in Worker : v # w => wpc'[v] = wpc[v]
      BY <1>1, <1>3 DEF Typed
    <2>2. ASSUME NEW v \in Worker, running'[v] # NoTask
          PROVE  running'[v] \in Tasks /\ ~InQueue(running[v])'
      <3>1. CASE v = w
        BY <1>4, <2>1, <3>1 DEF InQueue
      <3>2. CASE v # w
        <4>1. running'[v] = running[v] /\ running[v] # t /\ running[v] \in Tasks /\ ~InQueue(running[v])
          BY <1>1, <1>8, <2>2, <3>2 DEF HandsOnce, Typed
        <4> QED BY <1>4, <4>1 DEF InQueue
      <3> QED BY <3>1, <3>2
    <2>3. \A v \in Worker : wpc'[v] = "run" <=> running'[v] # NoTask
      BY <1>1, <1>4, <1>5, <1>8, <2>1 DEF HandsOnce
    <2>4. \A u, v \in Worker : running'[v] # NoTask /\ running'[u] = running'[v] => u = v
      BY <1>1, <1>8, <2>1 DEF HandsOnce
    <2> QED BY <1>1, <2>2, <2>3, <2>4 DEF HandsOnce, InQueue
  <1>10. ASSUME NEW u \in Tasks PROVE Runs(u)' <=> (Runs(u) \/ u = t)
    <2>1. running'[w] = t
      BY <1>1, <1>3 DEF Typed
    <2> QED BY <1>1, <1>5, <1>6, <1>8, <2>1 DEF Runs
  <1>11. LiveHaveOne'
    <2>1. ASSUME NEW u \in Tasks
          PROVE  (state'[u] = "live" /\ u \notin asleep') <=> (InQueue(u)' \/ Runs(u)')
      BY <1>1, <1>4, <1>10 DEF LiveHaveOne
    <2> QED BY <1>1, <2>1 DEF LiveHaveOne, InQueue, Runs
  <1>12. UnspawnedAreNew'
    BY <1>1 DEF UnspawnedAreNew
  <1> QED BY <1>4, <1>7, <1>9, <1>11, <1>12 DEF IndInv

LEMMA TryEmptyKeeps ==
    ASSUME IndInv, NEW w \in Worker, TryEmpty(w) PROVE IndInv'
  <1>1. /\ Typed /\ QueuesOnce /\ HandsOnce /\ LiveHaveOne /\ UnspawnedAreNew
        /\ Tasks' = Tasks /\ Worker' = Worker
        /\ UNCHANGED <<prog, step, queue, running, state, asleep, polled>>
    BY DEF IndInv, TryEmpty, Tasks, Worker
  <1>2. /\ wpc' \in [Worker -> {"try", "run", "sleep"}]
        /\ \A v \in Worker : wpc'[v] = "run" <=> wpc[v] = "run"
    BY <1>1 DEF TryEmpty, WorkerAt, Typed
  <1>3. at' \in [Worker -> Nat] /\ \A v \in Worker : at'[v] \in 1 .. Len(prog.loop[v])
    <2>1. prog.loop[w] \in Seq(Orders) /\ at[w] \in 1 .. Len(prog.loop[w]) /\ at \in [Worker -> Nat]
      BY <1>1, ProgramFacts DEF Typed, ProgramType, Worker
    <2>2. Len(prog.loop[w]) \in Nat
      BY <2>1
    <2>3. CASE at[w] < Len(prog.loop[w])
      <3>1. at' = [at EXCEPT ![w] = at[w] + 1] /\ at[w] + 1 \in 1 .. Len(prog.loop[w])
        BY <2>1, <2>2, <2>3 DEF TryEmpty
      <3> QED BY <1>1, <2>1, <3>1 DEF Typed
    <2>4. CASE ~(at[w] < Len(prog.loop[w]))
      BY <1>1, <2>4 DEF TryEmpty, Typed
    <2> QED BY <2>3, <2>4
  <1>4. Typed' /\ QueuesOnce'
    <2>1. Typed'
      BY <1>1, <1>2, <1>3 DEF Typed
    <2>2. QueuesOnce'
      BY <1>1 DEF QueuesOnce
    <2> QED BY <2>1, <2>2
  <1>5. HandsOnce'
    BY <1>1, <1>2 DEF HandsOnce, InQueue
  <1>6. LiveHaveOne'
    BY <1>1 DEF LiveHaveOne, InQueue, Runs
  <1>7. UnspawnedAreNew'
    BY <1>1 DEF UnspawnedAreNew
  <1> QED BY <1>4, <1>5, <1>6, <1>7 DEF IndInv

LEMMA AwakeKeeps ==
    ASSUME IndInv, NEW w \in Worker, Awake(w) PROVE IndInv'
  <1>1. /\ Typed /\ QueuesOnce /\ HandsOnce /\ LiveHaveOne /\ UnspawnedAreNew
        /\ Tasks' = Tasks /\ Worker' = Worker /\ Loop(w)
        /\ UNCHANGED <<prog, step, queue, state, asleep, polled>>
    BY DEF IndInv, Awake, Tasks, Worker
  <1>2. running[w] = NoTask
    BY <1>1 DEF HandsOnce, Awake, WorkerAt
  <1>3. /\ Typed' /\ QueuesOnce'
        /\ \A v \in Worker : wpc'[v] = "run" <=> running'[v] # NoTask
        /\ \A v \in Worker : running'[v] # NoTask => running'[v] = running[v]
        /\ \A t \in Tasks : Runs(t)' <=> Runs(t)
    BY <1>1, <1>2, LoopFrees, ProgramFacts DEF Typed, QueuesOnce
  <1>4. HandsOnce'
    BY <1>1, <1>3 DEF HandsOnce, InQueue
  <1>5. LiveHaveOne' /\ UnspawnedAreNew'
    BY <1>1, <1>3 DEF LiveHaveOne, InQueue, Runs, UnspawnedAreNew
  <1> QED BY <1>3, <1>4, <1>5 DEF IndInv

\* The task a worker runs.
LEMMA RunningFacts ==
    ASSUME IndInv, NEW w \in Worker, WorkerAt(w, "run")
    PROVE  /\ running[w] \in Tasks /\ state[running[w]] = "live" /\ running[w] \notin asleep
           /\ ~InQueue(running[w])
  <1>1. Typed /\ HandsOnce /\ LiveHaveOne
    BY DEF IndInv
  <1>2. running[w] \in Tasks /\ ~InQueue(running[w])
    BY <1>1 DEF WorkerAt, HandsOnce, Typed
  <1>3. Runs(running[w])
    BY DEF Runs
  <1> QED BY <1>1, <1>2, <1>3 DEF LiveHaveOne

LEMMA RunPendingKeeps ==
    ASSUME IndInv, NEW w \in Worker, RunPending(w) PROVE IndInv'
  <1> DEFINE t == running[w]
             again == t \notin prog.outside \/ t \in notified
             N == Spawned(t)
             S == N \cup (IF again THEN {t} ELSE {})
  <1>1. /\ Typed /\ QueuesOnce /\ HandsOnce /\ LiveHaveOne /\ UnspawnedAreNew
        /\ Tasks' = Tasks /\ Worker' = Worker /\ prog' = prog /\ step' = step
    BY DEF IndInv, RunPending, Tasks, Worker
  <1>2. t \in Tasks /\ state[t] = "live" /\ t \notin asleep /\ ~InQueue(t)
    BY RunningFacts DEF RunPending
  <1>3. /\ Poll(t) /\ Schedule(S) /\ Loop(w)
        /\ asleep' = IF again THEN asleep ELSE asleep \cup {t}
        /\ state' = [u \in Tasks |-> IF u \in N THEN "live" ELSE state[u]]
    BY DEF RunPending
  <1>4. SpawnsOnce(prog) /\ prog.polls \in [Tasks -> Nat]
    BY <1>1, ProgramFacts DEF Typed, ProgramType, Tasks
  <1>5. N \in SUBSET Tasks /\ IsFiniteSet(N) /\ \A u \in N : state[u] = "new" /\ u \in prog.spawns[t]
    <2>1. CASE polled[t] = 0
      BY <1>1, <1>2, <2>1, ProgramFacts DEF Spawned, UnspawnedAreNew, Typed
    <2>2. CASE polled[t] # 0
      BY <2>2, FS_EmptySet DEF Spawned
    <2> QED BY <2>1, <2>2
  <1> HIDE DEF N
  <1>6. \A u \in N : u # t /\ u \notin asleep /\ ~InQueue(u) /\ ~Runs(u)
    BY <1>1, <1>2, <1>5 DEF Typed, LiveHaveOne
  <1>7. S \in SUBSET Tasks /\ IsFiniteSet(S) /\ \A u \in S : ~InQueue(u)
    <2>1. IsFiniteSet({t}) /\ IsFiniteSet({})
      BY FS_Singleton, FS_EmptySet
    <2>2. IsFiniteSet(S)
      BY <1>5, <2>1, FS_Union
    <2> QED BY <1>2, <1>5, <1>6, <2>2
  <1>8. /\ queue' \in [Orders -> Seq(Tasks)] /\ QueuesOnce'
        /\ \A u \in Tasks : InQueue(u)' <=> (InQueue(u) \/ u \in S)
    <2> HIDE DEF S
    <2> QED BY <1>1, <1>3, <1>7, ScheduleKeeps
  <1>9. /\ running' \in [Worker -> Tasks \cup {NoTask}]
        /\ wpc' \in [Worker -> {"try", "run", "sleep"}]
        /\ at' \in [Worker -> Nat] /\ \A v \in Worker : at'[v] \in 1 .. Len(prog.loop[v])
        /\ \A v \in Worker : wpc'[v] = "run" <=> running'[v] # NoTask
        /\ \A v \in Worker : running'[v] # NoTask => v # w /\ running'[v] = running[v] /\ running[v] # t
        /\ \A u \in Tasks : Runs(u)' <=> (Runs(u) /\ u # t)
    BY <1>1, <1>3, LoopFrees
  <1> HIDE DEF t
  <1>10. Typed'
    <2>1. polled' \in [Tasks -> Nat]
      BY <1>1, <1>2, <1>3 DEF Poll, Typed
    <2>2. asleep' \subseteq Tasks /\ \A u \in asleep' : state'[u] = "live"
      BY <1>1, <1>2, <1>3 DEF Typed
    <2>3. state' \in [Tasks -> {"new", "live", "ready", "panicked"}]
      BY <1>1, <1>3 DEF Typed
    <2> QED BY <1>1, <1>8, <1>9, <2>1, <2>2, <2>3 DEF Typed
  <1>11. HandsOnce'
    <2>1. ASSUME NEW v \in Worker, running'[v] # NoTask PROVE ~InQueue(running[v])'
      <3>1. running'[v] = running[v] /\ running[v] \in Tasks /\ running[v] # t /\ ~InQueue(running[v])
        BY <1>1, <1>9, <2>1 DEF Typed, HandsOnce
      <3>2. running[v] \notin S
        BY <1>6, <3>1 DEF Runs
      <3> QED BY <1>8, <3>1, <3>2 DEF InQueue
    <2>2. \A u, v \in Worker : running'[v] # NoTask /\ running'[u] = running'[v] => u = v
      BY <1>1, <1>9 DEF HandsOnce
    <2> QED BY <1>1, <1>9, <2>1, <2>2 DEF HandsOnce, InQueue
  <1>12. LiveHaveOne'
    <2>1. ASSUME NEW u \in Tasks
          PROVE  (state'[u] = "live" /\ u \notin asleep') <=> (InQueue(u)' \/ Runs(u)')
      <3>1. CASE u \in N
        BY <1>3, <1>6, <1>8, <3>1
      <3>2. CASE u = t
        BY <1>2, <1>3, <1>6, <1>8, <1>9, <3>2
      <3>3. CASE u \notin N /\ u # t
        BY <1>1, <1>3, <1>8, <1>9, <3>3 DEF LiveHaveOne
      <3> QED BY <3>1, <3>2, <3>3
    <2> QED BY <1>1, <2>1 DEF LiveHaveOne, InQueue, Runs
  <1>13. UnspawnedAreNew'
    <2>1. ASSUME NEW i \in DOMAIN prog.main, step # 0, i >= step, prog.main[i][1] = "spawn"
          PROVE  state'[prog.main[i][2]] = "new"
      <3>1. prog.main[i][2] \in Tasks /\ state[prog.main[i][2]] = "new"
        BY <1>1, <2>1, ProgramFacts DEF UnspawnedAreNew, Typed
      <3>2. prog.main[i][2] \notin N
        BY <1>2, <1>4, <1>5, <2>1 DEF SpawnsOnce, Tasks
      <3> QED BY <1>3, <3>1, <3>2
    <2>2. ASSUME NEW u \in Tasks, polled'[u] = 0, NEW v \in prog.spawns[u]
          PROVE  state'[v] = "new"
      <3>1. u # t
        <4>1. CASE prog.polls[t] = 0
          <5>1. prog.spawns[t] = {}
            BY <1>2, <1>4, <4>1 DEF SpawnsOnce, Tasks
          <5> QED BY <2>2, <5>1
        <4>2. CASE prog.polls[t] # 0
          <5>1. polled'[t] = polled[t] + 1 /\ polled[t] \in Nat
            BY <1>1, <1>2, <1>3, <4>2 DEF Poll, Ends, Typed
          <5> QED BY <2>2, <5>1
        <4> QED BY <4>1, <4>2
      <3>2. polled[u] = 0
        BY <1>1, <1>3, <2>2, <3>1 DEF Poll, Typed
      <3>3. v \in Tasks /\ state[v] = "new"
        BY <1>1, <2>2, <3>2, ProgramFacts DEF UnspawnedAreNew, Typed
      <3>4. v \notin N
        <4>1. prog.spawns[u] \cap prog.spawns[t] = {}
          BY <1>2, <1>4, <3>1 DEF SpawnsOnce, Tasks
        <4> QED BY <1>5, <2>2, <4>1
      <3> QED BY <1>3, <3>3, <3>4
    <2> QED BY <1>1, <2>1, <2>2 DEF UnspawnedAreNew
  <1> QED BY <1>8, <1>10, <1>11, <1>12, <1>13 DEF IndInv

\* The task a worker runs is over, ready or with a panic.
LEMMA EndKeeps ==
    ASSUME IndInv, NEW w \in Worker, WorkerAt(w, "run"), Loop(w),
           NEW how \in {"ready", "panicked"}, End(w, how),
           polled' \in [Tasks -> Nat], \A u \in Tasks : polled'[u] = 0 => polled[u] = 0
    PROVE  IndInv'
  <1> DEFINE t == running[w]
  <1>1. /\ Typed /\ QueuesOnce /\ HandsOnce /\ LiveHaveOne /\ UnspawnedAreNew
        /\ Tasks' = Tasks /\ Worker' = Worker
        /\ UNCHANGED <<prog, step, queue, asleep>>
        /\ state' = [state EXCEPT ![t] = how]
    BY DEF IndInv, End, Tasks, Worker
  <1>2. t \in Tasks /\ state[t] = "live" /\ t \notin asleep /\ ~InQueue(t)
    BY RunningFacts
  <1>3. /\ running' \in [Worker -> Tasks \cup {NoTask}]
        /\ wpc' \in [Worker -> {"try", "run", "sleep"}]
        /\ at' \in [Worker -> Nat] /\ \A v \in Worker : at'[v] \in 1 .. Len(prog.loop[v])
        /\ \A v \in Worker : wpc'[v] = "run" <=> running'[v] # NoTask
        /\ \A v \in Worker : running'[v] # NoTask => v # w /\ running'[v] = running[v] /\ running[v] # t
        /\ \A u \in Tasks : Runs(u)' <=> (Runs(u) /\ u # t)
    BY <1>1, LoopFrees
  <1> HIDE DEF t
  <1>4. Typed'
    BY <1>1, <1>2, <1>3 DEF Typed
  <1>5. QueuesOnce'
    BY <1>1 DEF QueuesOnce
  <1>6. HandsOnce'
    <2>1. ASSUME NEW v \in Worker, running'[v] # NoTask PROVE ~InQueue(running[v])'
      <3>1. running'[v] = running[v] /\ ~InQueue(running[v])
        BY <1>1, <1>3, <2>1 DEF HandsOnce
      <3> QED BY <1>1, <3>1 DEF InQueue
    <2>2. \A u, v \in Worker : running'[v] # NoTask /\ running'[u] = running'[v] => u = v
      BY <1>1, <1>3 DEF HandsOnce
    <2> QED BY <1>1, <1>3, <2>1, <2>2 DEF HandsOnce, InQueue
  <1>7. LiveHaveOne'
    <2>1. ASSUME NEW u \in Tasks
          PROVE  (state'[u] = "live" /\ u \notin asleep') <=> (InQueue(u)' \/ Runs(u)')
      <3>1. InQueue(u)' <=> InQueue(u)
        BY <1>1 DEF InQueue
      <3> QED BY <1>1, <1>2, <1>3, <3>1 DEF LiveHaveOne, Typed
    <2> QED BY <1>1, <2>1 DEF LiveHaveOne, InQueue, Runs
  <1>8. UnspawnedAreNew'
    <2>1. \A u \in Tasks : state[u] = "new" => state'[u] = "new"
      BY <1>1, <1>2 DEF Typed
    <2>2. \A i \in DOMAIN prog.main : prog.main[i][2] \in Tasks
      BY <1>1, ProgramFacts DEF Typed
    <2>3. \A u \in Tasks : prog.spawns[u] \subseteq Tasks
      BY <1>1, ProgramFacts DEF Typed
    <2> QED BY <1>1, <2>1, <2>2, <2>3 DEF UnspawnedAreNew
  <1> QED BY <1>4, <1>5, <1>6, <1>7, <1>8 DEF IndInv

LEMMA RunReadyKeeps ==
    ASSUME IndInv, NEW w \in Worker, RunReady(w) PROVE IndInv'
  <1>1. WorkerAt(w, "run") /\ Loop(w) /\ End(w, "ready") /\ Poll(running[w])
    BY DEF RunReady
  <1>2. polled' \in [Tasks -> Nat] /\ \A u \in Tasks : polled'[u] = 0 => polled[u] = 0
    <2>1. running[w] \in Tasks /\ polled \in [Tasks -> Nat]
      BY <1>1, RunningFacts DEF IndInv, Typed
    <2>2. polled' = polled \/ polled' = [polled EXCEPT ![running[w]] = polled[running[w]] + 1]
      BY <1>1, <2>1 DEF Poll
    <2> QED BY <2>1, <2>2
  <1> QED BY <1>1, <1>2, EndKeeps

LEMMA RunPanicsKeeps ==
    ASSUME IndInv, NEW w \in Worker, RunPanics(w) PROVE IndInv'
  <1>1. WorkerAt(w, "run") /\ Loop(w) /\ End(w, "panicked") /\ polled' = polled
    BY DEF RunPanics
  <1>2. polled' \in [Tasks -> Nat] /\ \A u \in Tasks : polled'[u] = 0 => polled[u] = 0
    BY <1>1 DEF IndInv, Typed
  <1> QED BY <1>1, <1>2, EndKeeps

\* The reactor.
LEMMA WakeKeeps ==
    ASSUME IndInv, NEW t, Wake(t) PROVE IndInv'
  <1> DEFINE S == asleep \cap {t}
  <1>1. /\ Typed /\ QueuesOnce /\ HandsOnce /\ LiveHaveOne /\ UnspawnedAreNew
        /\ Tasks' = Tasks /\ Worker' = Worker
        /\ UNCHANGED <<prog, step, wpc, at, running, state, polled>>
        /\ t \in Tasks /\ state[t] = "live" /\ Schedule(S) /\ asleep' = asleep \ {t}
    BY DEF IndInv, Wake, Tasks, Worker
  <1>2. S \in SUBSET Tasks /\ IsFiniteSet(S) /\ \A u \in S : ~InQueue(u) /\ ~Runs(u)
    <2>1. IsFiniteSet({t})
      BY FS_Singleton
    <2>2. IsFiniteSet(S)
      BY <2>1, FS_Subset
    <2> QED BY <1>1, <2>2 DEF LiveHaveOne
  <1>3. /\ queue' \in [Orders -> Seq(Tasks)] /\ QueuesOnce'
        /\ \A u \in Tasks : InQueue(u)' <=> (InQueue(u) \/ u \in S)
    <2> HIDE DEF S
    <2> QED BY <1>1, <1>2, ScheduleKeeps
  <1>4. Typed'
    BY <1>1, <1>3 DEF Typed
  <1>5. HandsOnce'
    <2>1. ASSUME NEW v \in Worker, running[v] # NoTask PROVE ~InQueue(running[v])'
      <3>1. running'[v] = running[v] /\ running[v] \in Tasks /\ ~InQueue(running[v])
        BY <1>1, <2>1 DEF HandsOnce, Typed
      <3>2. running[v] \notin S
        BY <1>2 DEF Runs
      <3> QED BY <1>3, <3>1, <3>2 DEF InQueue
    <2> QED BY <1>1, <2>1 DEF HandsOnce, InQueue
  <1>6. LiveHaveOne'
    <2>1. ASSUME NEW u \in Tasks
          PROVE  (state'[u] = "live" /\ u \notin asleep') <=> (InQueue(u)' \/ Runs(u)')
      <3>1. Runs(u)' <=> Runs(u)
        BY <1>1 DEF Runs
      <3> QED BY <1>1, <1>3, <3>1 DEF LiveHaveOne
    <2> QED BY <1>1, <2>1 DEF LiveHaveOne, InQueue, Runs
  <1>7. UnspawnedAreNew'
    BY <1>1 DEF UnspawnedAreNew
  <1> QED BY <1>3, <1>4, <1>5, <1>6, <1>7 DEF IndInv

LEMMA StutterKeeps == ASSUME IndInv, UNCHANGED vars PROVE IndInv'
  <1>1. UNCHANGED <<prog, step, queue, wpc, at, running, state, asleep, polled>>
    BY DEF vars
  <1>2. Typed' /\ QueuesOnce'
    BY <1>1 DEF IndInv, Typed, QueuesOnce, Tasks, Worker
  <1>3. HandsOnce' /\ LiveHaveOne' /\ UnspawnedAreNew'
    BY <1>1 DEF IndInv, HandsOnce, LiveHaveOne, UnspawnedAreNew, InQueue, Runs, Tasks, Worker
  <1> QED BY <1>2, <1>3 DEF IndInv

-----------------------------------------------------------------------------
\* The inductive invariant of the queues.
THEOREM QueueInvariant == Spec => []IndInv
  <1>1. ASSUME IndInv, Next PROVE IndInv'
    <2>1. CASE Main
      BY <1>1, <2>1, MainSpawnKeeps, MainJoinKeeps DEF Main
    <2>2. ASSUME NEW w \in WorkerIds, WorkerStep(w) PROVE IndInv'
      BY <1>1, <2>2, TryRecvKeeps, TryEmptyKeeps, AwakeKeeps, RunPendingKeeps, RunReadyKeeps, RunPanicsKeeps
         DEF WorkerStep
    <2>3. ASSUME NEW t \in AllTasks, Wake(t) PROVE IndInv'
      BY <1>1, <2>3, WakeKeeps
    <2> QED BY <1>1, <2>1, <2>2, <2>3 DEF Next
  <1>2. IndInv /\ [Next]_vars => IndInv'
    BY <1>1, StutterKeeps
  <1> QED BY InitHolds, <1>2, PTL DEF Spec

\* How often a task is in a sequence that has none twice.
LEMMA CountOnce ==
    ASSUME NEW S, NEW s \in Seq(S), Once(s), NEW t
    PROVE  Cardinality({i \in DOMAIN s : s[i] = t}) = IF t \in ToSet(s) THEN 1 ELSE 0
  <1>1. DOMAIN s = 1 .. Len(s)
    OBVIOUS
  <1>2. CASE t \in ToSet(s)
    <2>1. PICK i \in 1 .. Len(s) : s[i] = t
      BY <1>1, <1>2 DEF ToSet
    <2>2. {j \in DOMAIN s : s[j] = t} = {i}
      BY <1>1, <2>1 DEF Once
    <2> QED BY <1>2, <2>2, FS_Singleton
  <1>3. CASE t \notin ToSet(s)
    <2>1. {j \in DOMAIN s : s[j] = t} = {}
      BY <1>1, <1>3 DEF ToSet
    <2> QED BY <1>3, <2>1, FS_EmptySet
  <1> QED BY <1>2, <1>3

\* The schedule closures and workers of async_queue.rs and its copies: a task that
\* is neither over nor asleep has exactly one Runnable, however many threads
\* steal, and whoever wakes it.
THEOREM RunnablesAreUnique == Spec => []OneRunnable
  <1>1. ASSUME IndInv PROVE OneRunnable
    <2> SUFFICES ASSUME NEW t \in Tasks
                 PROVE  Cardinality({i \in DOMAIN queue["High"] : queue["High"][i] = t})
                          + Cardinality({i \in DOMAIN queue["Low"] : queue["Low"][i] = t})
                          + Cardinality({w \in Worker : running[w] = t})
                        = IF state[t] = "live" /\ t \notin asleep THEN 1 ELSE 0
      BY DEF OneRunnable
    <2>1. Typed /\ QueuesOnce /\ HandsOnce /\ LiveHaveOne /\ NoTask \notin Tasks
      BY <1>1, ProgramFacts DEF IndInv, Typed
    <2>2. ASSUME NEW o \in Orders
          PROVE  Cardinality({i \in DOMAIN queue[o] : queue[o][i] = t}) = IF t \in ToSet(queue[o]) THEN 1 ELSE 0
      <3>1. queue[o] \in Seq(Tasks) /\ Once(queue[o])
        BY <2>1 DEF Typed, QueuesOnce
      <3> QED BY <3>1, CountOnce
    <2>3. Cardinality({w \in Worker : running[w] = t}) = IF Runs(t) THEN 1 ELSE 0
      <3>1. CASE Runs(t)
        <4>1. PICK w \in Worker : running[w] = t
          BY <3>1 DEF Runs
        <4>2. {v \in Worker : running[v] = t} = {w}
          BY <2>1, <4>1 DEF HandsOnce
        <4> QED BY <3>1, <4>2, FS_Singleton
      <3>2. CASE ~Runs(t)
        <4>1. {v \in Worker : running[v] = t} = {}
          BY <3>2 DEF Runs
        <4> QED BY <3>2, <4>1, FS_EmptySet
      <3> QED BY <3>1, <3>2
    <2>4. "High" \in Orders /\ "Low" \in Orders
          /\ (InQueue(t) <=> (t \in ToSet(queue["High"]) \/ t \in ToSet(queue["Low"])))
          /\ ~(t \in ToSet(queue["High"]) /\ t \in ToSet(queue["Low"]))
      BY <2>1 DEF Orders, InQueue, QueuesOnce
    <2>5. ~(InQueue(t) /\ Runs(t))
      BY <2>1 DEF HandsOnce, Runs
    <2>6. (state[t] = "live" /\ t \notin asleep) <=> (InQueue(t) \/ Runs(t))
      BY <2>1 DEF LiveHaveOne
    <2> QED BY <2>2, <2>3, <2>4, <2>5, <2>6
  <1> QED BY QueueInvariant, <1>1, PTL
=============================================================================
