------------------------ MODULE WakerExecutorProofs -------------------------
(***************************************************************************)
(* Proofs about WakerExecutor for every set of tasks, number of awaits and   *)
(* bound on needless wakes: IndInv is inductive, so no wake-up is lost and   *)
(* run returns only when every future has finished.                         *)
(***************************************************************************)
EXTENDS WakerExecutor, SequenceLemmas, TLAPS

USE DEF taskVars

\* A step that leaves the tasks where they are keeps every task in one home.
LEMMA SameHomes ==
    IndInv /\ UNCHANGED <<polling, waiting, cur, spawned, finished>> => OneHome'
  BY DEF IndInv, OneHome, Queued

\* Before run, and by a polled task.
LEMMA SpawnStep == ASSUME NEW t \in Tasks, IndInv, SpawnRcv(t) PROVE IndInv'
  <1> TypeOK /\ Hands /\ OneHome /\ NoLostWake /\ IgnoredAreFinished /\ ReturnsWhenAllDone
    BY DEF IndInv
  <1>1. /\ pc \in {"main", "run"} /\ t \notin spawned
        /\ spawned' = spawned \cup {t} /\ polling' = Append(polling, t)
        /\ UNCHANGED <<pc, cur, finished, left, waiting, wakes, event, extra>>
    BY DEF SpawnRcv
  <1>2. polling' \in Seq(Tasks) /\ Queued' = Queued \cup {t}
    BY <1>1, AppendElements DEF TypeOK, Queued
  <1>3. t \notin Queued \cup waiting /\ (cur # NoTask => cur # t)
    BY <1>1 DEF OneHome
  <1>4. t # NoTask
    BY ExecutorAssumption
  <1>5. TypeOK'
    BY <1>1, <1>2 DEF TypeOK
  <1>6. OneHome'
    <2>1. \A i, j \in 1 .. Len(polling') : polling'[i] = polling'[j] => i = j
      <3>1. polling \in Seq(Tasks) /\ t \notin ToSet(polling)
        BY <1>3 DEF TypeOK, Queued
      <3>2. \A i, j \in 1 .. Len(polling) : polling[i] = polling[j] => i = j
        BY DEF OneHome
      <3> QED BY <1>1, <3>1, <3>2, PushOnce
    <2>2. t \notin finished /\ cur # t
      BY <1>1, <1>3, <1>4 DEF TypeOK
    <2> QED BY <1>1, <1>2, <1>3, <2>1, <2>2 DEF OneHome
  <1> QED BY <1>1, <1>5, <1>6 DEF IndInv, Hands, NoLostWake, InChannel, IgnoredAreFinished, ReturnsWhenAllDone

\* The next task is taken from the queue.
LEMMA PopStep == ASSUME IndInv, PopFront PROVE IndInv'
  <1> TypeOK /\ Hands /\ OneHome /\ NoLostWake
    BY DEF IndInv
  <1>1. /\ pc = "poll" /\ pc' = "run" /\ polling # <<>>
        /\ cur' = Head(polling) /\ polling' = Tail(polling)
        /\ UNCHANGED <<spawned, finished, left, waiting, wakes, event, extra>>
    BY DEF PopFront
  <1>2. /\ cur' \in Tasks /\ polling' \in Seq(Tasks) /\ Queued = Queued' \cup {cur'}
    BY <1>1, TailElements DEF TypeOK, Queued
  <1>3. /\ \A i, j \in 1 .. Len(polling') : polling'[i] = polling'[j] => i = j
        /\ cur' \notin Queued'
    <2>1. polling \in Seq(Tasks) /\ \A i, j \in 1 .. Len(polling) : polling[i] = polling[j] => i = j
      BY DEF TypeOK, OneHome
    <2>2. /\ \A i, j \in 1 .. Len(Tail(polling)) : Tail(polling)[i] = Tail(polling)[j] => i = j
          /\ Head(polling) \notin ToSet(Tail(polling))
      BY <1>1, <2>1, PopOnce
    <2> QED BY <1>1, <2>2 DEF Queued
  <1>4. cur = NoTask /\ cur' # NoTask
    BY <1>1, <1>2, ExecutorAssumption DEF Hands
  <1>5. TypeOK'
    BY <1>1, <1>2 DEF TypeOK
  <1>6. OneHome'
    BY <1>1, <1>2, <1>3, <1>4 DEF OneHome
  <1> QED
    BY <1>1, <1>4, <1>5, <1>6
       DEF IndInv, Hands, NoLostWake, InChannel, IgnoredAreFinished, ReturnsWhenAllDone

\* The polled task is over, or goes into the map.
LEMMA PolledStep == ASSUME IndInv, PollReady \/ Insert PROVE IndInv'
  <1> TypeOK /\ Hands /\ OneHome /\ NoLostWake
    BY DEF IndInv
  <1>1. cur \in Tasks /\ cur # NoTask /\ cur \in spawned \ finished /\ cur \notin Queued \cup waiting
    BY DEF PollReady, Insert, TypeOK, Hands, OneHome
  <1>2. /\ cur' = NoTask /\ pc' = "poll" /\ Queued' = Queued /\ NoTask \notin Tasks
        /\ UNCHANGED <<spawned, left, polling, wakes, event, extra>>
    BY ExecutorAssumption DEF PollReady, Insert, Queued
  <1>3. TypeOK'
    BY <1>1 DEF PollReady, Insert, TypeOK
  <1>4. NoTask \notin Queued \cup waiting'
    <2>1. Queued \cup waiting \subseteq Tasks
      BY DEF OneHome, TypeOK
    <2> QED BY <1>1, <1>2, <2>1 DEF PollReady, Insert
  <1>5. OneHome'
    <2>1. Queued' \cap waiting' = {} /\ cur' \notin Queued' \cup waiting'
      BY <1>1, <1>2, <1>4 DEF PollReady, Insert, OneHome
    <2>2. Queued' \cup waiting' \cup ({cur'} \ {NoTask}) = spawned' \ finished'
      BY <1>1, <1>2 DEF PollReady, Insert, OneHome
    <2> QED BY <1>2, <2>1, <2>2 DEF OneHome
  <1>6. NoLostWake'
    BY <1>2 DEF PollReady, Insert, NoLostWake, InChannel
  <1> QED
    BY <1>2, <1>3, <1>5, <1>6
       DEF IndInv, PollReady, Insert, Hands, IgnoredAreFinished, ReturnsWhenAllDone

\* run takes an id from the channel, and its task from the map.
LEMMA RecvStep == ASSUME IndInv, Recv PROVE IndInv'
  <1> TypeOK /\ Hands /\ OneHome /\ NoLostWake /\ IgnoredAreFinished
    BY DEF IndInv
  <1> DEFINE t == Head(wakes)
  <1>1. /\ pc = "recv" /\ pc' = "poll" /\ wakes # <<>> /\ wakes' = Tail(wakes)
        /\ waiting' = waiting \ {t} /\ polling = <<>> /\ cur = NoTask
        /\ polling' = IF t \in waiting THEN Append(polling, t) ELSE polling
        /\ UNCHANGED <<cur, spawned, finished, left, event, extra>>
    BY DEF Recv, Hands, IgnoredAreFinished
  <1>2. t \in Tasks /\ wakes' \in Seq(Tasks) /\ InChannel = InChannel' \cup {t}
    BY <1>1, TailElements DEF TypeOK, InChannel
  <1>3. Queued = {}
    BY <1>1, EmptyToSet DEF Queued
  <1>4. /\ polling' \in Seq(Tasks) /\ Queued' = waiting \cap {t}
        /\ \A i, j \in 1 .. Len(polling') : polling'[i] = polling'[j] => i = j
    <2>1. CASE t \in waiting
      <3>1. polling' = Append(polling, t)
        BY <1>1, <2>1
      <3>2. polling' \in Seq(Tasks) /\ Queued' = {t}
        BY <1>2, <1>3, <3>1, AppendElements DEF TypeOK, Queued
      <3>3. \A i, j \in 1 .. Len(polling') : polling'[i] = polling'[j] => i = j
        <4>1. polling' = Append(<<>>, t) /\ Len(polling') = 1
          BY <1>1, <3>1
        <4> QED BY <4>1
      <3> QED BY <2>1, <3>2, <3>3
    <2>2. CASE t \notin waiting
      BY <1>1, <1>3, <2>2 DEF TypeOK, OneHome, Queued
    <2> QED BY <2>1, <2>2
  <1>5. TypeOK'
    BY <1>1, <1>2, <1>4 DEF TypeOK
  <1>6. OneHome'
    BY <1>1, <1>3, <1>4 DEF OneHome
  <1>7. NoLostWake'
    BY <1>1, <1>2 DEF NoLostWake
  <1> QED
    BY <1>1, <1>5, <1>6, <1>7 DEF IndInv, Hands, IgnoredAreFinished, ReturnsWhenAllDone

\* A waker is called.
LEMMA WakeStep == ASSUME NEW t \in Tasks, IndInv, Fire(t) \/ ExtraWake(t) PROVE IndInv'
  <1> TypeOK /\ Hands /\ NoLostWake
    BY DEF IndInv
  <1>1. /\ wakes' = Append(wakes, t)
        /\ UNCHANGED <<pc, cur, spawned, finished, left, polling, waiting>>
        /\ \A u \in Tasks \ {t} : event'[u] = event[u]
        /\ event[t] = "none" => event'[t] = "none"
        /\ event' \in [Tasks -> {"none", "armed", "fired"}]
        /\ extra' \in 0 .. MaxExtra
    <2>1. CASE Fire(t)
      BY <2>1 DEF Fire, TypeOK
    <2>2. CASE ExtraWake(t)
      <3>1. extra + 1 \in 0 .. MaxExtra
        BY <2>2, ExecutorAssumption DEF ExtraWake, TypeOK
      <3> QED BY <2>2, <3>1 DEF ExtraWake, TypeOK
    <2> QED BY <2>1, <2>2
  <1>2. wakes' \in Seq(Tasks) /\ InChannel' = InChannel \cup {t}
    BY <1>1, AppendElements DEF TypeOK, InChannel
  <1>3. TypeOK'
    BY <1>1, <1>2 DEF TypeOK
  <1>4. Hands'
    BY <1>1 DEF Hands
  <1>5. NoLostWake'
    BY <1>1, <1>2 DEF NoLostWake, TypeOK, Hands
  <1> QED
    BY <1>1, <1>3, <1>4, <1>5, SameHomes DEF IndInv, IgnoredAreFinished, ReturnsWhenAllDone

\* The other steps move no task.
LEMMA QuietStep ==
    ASSUME IndInv, Run \/ QueueEmpty \/ Advance \/ PollPending \/ Check \/ UNCHANGED vars
    PROVE  IndInv'
  <1> TypeOK /\ Hands /\ OneHome /\ NoLostWake /\ IgnoredAreFinished /\ ReturnsWhenAllDone
    BY DEF IndInv
  <1>1. UNCHANGED <<polling, waiting, cur, spawned, finished, wakes, extra>>
    BY DEF Run, QueueEmpty, Advance, PollPending, Check, vars
  <1>2. OneHome'
    BY <1>1, SameHomes
  <1>3. InChannel' = InChannel
    BY <1>1 DEF InChannel
  <1>4. CASE Run \/ UNCHANGED vars
    BY <1>1, <1>2, <1>3, <1>4
       DEF IndInv, Run, vars, TypeOK, Hands, NoLostWake, IgnoredAreFinished, ReturnsWhenAllDone
  <1>5. CASE QueueEmpty
    <2>1. Queued = {} /\ cur = NoTask
      BY <1>5, EmptyToSet DEF QueueEmpty, Queued, Hands
    <2>2. polling = <<>> /\ spawned \ finished = waiting
      BY <1>5, <2>1 DEF QueueEmpty, OneHome
    <2> QED
      BY <1>1, <1>2, <1>3, <1>5, <2>2
         DEF IndInv, QueueEmpty, TypeOK, Hands, NoLostWake, IgnoredAreFinished, ReturnsWhenAllDone
  <1>6. CASE Advance
    <2>1. /\ cur \in Tasks /\ left[cur] > 0 /\ left[cur] \in 0 .. Awaits /\ cur \notin waiting
          /\ pc = "run" /\ pc' = pc
      BY <1>6 DEF Advance, TypeOK, Hands, OneHome
    <2>2. left[cur] - 1 \in 0 .. Awaits
      BY <2>1, ExecutorAssumption
    <2>3. TypeOK'
      BY <1>1, <1>6, <2>1, <2>2 DEF Advance, TypeOK
    <2>4. Hands'
      BY <1>1, <1>6, <2>1 DEF Advance, TypeOK, Hands
    <2>5. NoLostWake'
      BY <1>1, <1>3, <1>6, <2>1 DEF Advance, TypeOK, NoLostWake
    <2> QED
      BY <1>1, <1>2, <2>1, <2>3, <2>4, <2>5 DEF IndInv, IgnoredAreFinished, ReturnsWhenAllDone
  <1>7. CASE PollPending
    <2>1. cur \in Tasks /\ cur \notin waiting /\ pc' = "insert" /\ event' = [event EXCEPT ![cur] = "armed"]
      BY <1>7 DEF PollPending, TypeOK, Hands, OneHome
    <2>2. TypeOK'
      BY <1>1, <1>7, <2>1 DEF PollPending, TypeOK
    <2>3. Hands'
      BY <1>1, <1>7, <2>1 DEF PollPending, TypeOK, Hands
    <2>4. NoLostWake'
      BY <1>1, <1>3, <2>1 DEF TypeOK, NoLostWake
    <2> QED
      BY <1>1, <1>2, <2>1, <2>2, <2>3, <2>4 DEF IndInv, IgnoredAreFinished, ReturnsWhenAllDone
  <1>8. CASE Check
    BY <1>1, <1>2, <1>3, <1>8
       DEF IndInv, Check, TypeOK, Hands, NoLostWake, IgnoredAreFinished, ReturnsWhenAllDone
  <1> QED BY <1>4, <1>5, <1>6, <1>7, <1>8

\* The invariant of the executor: one home for every task, every wake-up on its
\* way, and nothing unfinished outside the map while run reads the channel.
THEOREM ExecutorInvariant == Spec => []IndInv
  <1>1. ASSUME Init PROVE IndInv
    <2>1. TypeOK
      BY <1>1, ExecutorAssumption DEF Init, TypeOK
    <2>2. Queued = {} /\ InChannel = {}
      BY <1>1, EmptyToSet DEF Init, Queued, InChannel
    <2>3. OneHome
      BY <1>1, <2>2 DEF Init, OneHome
    <2> QED
      BY <1>1, <2>1, <2>3 DEF Init, IndInv, Hands, NoLostWake, IgnoredAreFinished, ReturnsWhenAllDone
  <1>2. IndInv /\ [Next]_vars => IndInv'
    BY SpawnStep, PopStep, PolledStep, RecvStep, WakeStep, QuietStep DEF Next, Executor
  <1> QED BY <1>1, <1>2, PTL DEF Spec

\* No wake-up is lost between a waker and the map (executor/src/main.rs 53, 74, 94).
THEOREM WakesAreKept == Spec => []NoLostWake
  <1>1. IndInv => NoLostWake
    BY DEF IndInv
  <1> QED BY <1>1, ExecutorInvariant, PTL

\* run leaves its loop only when every spawned future has sent its result
\* (executor/src/main.rs 69-71).
THEOREM RunFinishesAll == Spec => []ReturnsWhenAllDone
  <1>1. IndInv => ReturnsWhenAllDone
    BY DEF IndInv
  <1> QED BY <1>1, ExecutorInvariant, PTL
=============================================================================
