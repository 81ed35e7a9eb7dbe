------------------------ MODULE IoMultiplexingProofs ------------------------
(***************************************************************************)
(* Proofs about IoMultiplexing for every number of clients, descriptors and *)
(* pieces and every capacity of the channel: IndInv is inductive, so the    *)
(* selector thread never panics, every task has one home and none is lost.  *)
(***************************************************************************)
EXTENDS IoMultiplexing, SequenceTheorems, WellFoundedInduction, FiniteSetTheorems,
        TLAPS

\* What Append does to length and elements.
LEMMA AppendFacts ==
    ASSUME NEW S, NEW s \in Seq(S), NEW e \in S
    PROVE  /\ Append(s, e) \in Seq(S) /\ Append(s, e) # <<>>
           /\ Len(s) \in Nat /\ Len(Append(s, e)) = Len(s) + 1
           /\ \A i \in 1 .. Len(s) : Append(s, e)[i] = s[i]
           /\ Append(s, e)[Len(s) + 1] = e
  OBVIOUS

\* What Head and Tail do to length and elements.
LEMMA TailFacts ==
    ASSUME NEW S, NEW s \in Seq(S), s # <<>>
    PROVE  /\ Tail(s) \in Seq(S) /\ Head(s) \in S
           /\ Head(s) = s[1] /\ Len(s) \in Nat /\ Len(s) > 0
           /\ Len(Tail(s)) = Len(s) - 1
           /\ \A i \in 1 .. Len(s) - 1 : Tail(s)[i] = s[i + 1]
  OBVIOUS

\* An element of a sequence is its head or in its tail.
LEMMA TailElements ==
    ASSUME NEW S, NEW s \in Seq(S), s # <<>>, NEW t
    PROVE  (\E i \in 1 .. Len(s) : s[i] = t)
             <=> (t = Head(s) \/ \E i \in 1 .. Len(Tail(s)) : Tail(s)[i] = t)
  <1> Len(s) \in Nat
    OBVIOUS
  <1>1. ASSUME NEW i \in 1 .. Len(s), s[i] = t, t # Head(s)
        PROVE  \E j \in 1 .. Len(Tail(s)) : Tail(s)[j] = t
    <2>1. i # 1 /\ i - 1 \in 1 .. Len(Tail(s))
      BY <1>1, TailFacts
    <2>2. Tail(s)[i - 1] = t
      BY <1>1, <2>1, TailFacts
    <2> QED BY <2>1, <2>2
  <1>2. ASSUME NEW i \in 1 .. Len(Tail(s)), Tail(s)[i] = t
        PROVE  \E j \in 1 .. Len(s) : s[j] = t
    <2>1. i + 1 \in 1 .. Len(s) /\ s[i + 1] = t
      BY <1>2, TailFacts
    <2> QED BY <2>1
  <1>3. 1 \in 1 .. Len(s) /\ s[1] = Head(s)
    BY TailFacts
  <1> QED BY <1>1, <1>2, <1>3

\* An element of s with e appended is e or in s.
LEMMA AppendElements ==
    ASSUME NEW S, NEW s \in Seq(S), NEW e \in S, NEW t
    PROVE  (\E i \in 1 .. Len(Append(s, e)) : Append(s, e)[i] = t)
             <=> (t = e \/ \E i \in 1 .. Len(s) : s[i] = t)
  <1>1. ASSUME NEW i \in 1 .. Len(Append(s, e)), Append(s, e)[i] = t, t # e
        PROVE  \E j \in 1 .. Len(s) : s[j] = t
    <2>1. i \in 1 .. Len(s) /\ s[i] = t
      BY <1>1, AppendFacts
    <2> QED BY <2>1
  <1>2. ASSUME NEW i \in 1 .. Len(s), s[i] = t
        PROVE  \E j \in 1 .. Len(Append(s, e)) : Append(s, e)[j] = t
    <2>1. i \in 1 .. Len(Append(s, e)) /\ Append(s, e)[i] = t
      BY <1>2, AppendFacts
    <2> QED BY <2>1
  <1>3. Len(s) + 1 \in 1 .. Len(Append(s, e)) /\ Append(s, e)[Len(s) + 1] = e
    BY AppendFacts
  <1> QED BY <1>1, <1>2, <1>3

USE DEF netVars, selVars

\* What the threads hand around is untouched by a step that only reads, writes
\* or receives from the network.
LEMMA FrameStep ==
    IndInv /\ UNCHANGED <<fd, task, chan, current, queue, event, selVars>>
      => (QueueInv /\ SelectorInv /\ AtMostOneHome /\ NoLostTask
            /\ StaleRemoveHarmless /\ SelectorNeverPanics)'
  BY DEF IndInv, QueueInv, SelectorInv, AtMostOneHome, NoLostTask,
         StaleRemoveHarmless, SelectorNeverPanics, InChan, InQueue, InWakers, IsAdd

\* A new client changes only who waits in the backlog.
LEMMA ConnectStep == ASSUME NEW c \in Conns PROVE IndInv /\ Connect(c) => IndInv'
  <1> SUFFICES ASSUME IndInv, Connect(c) PROVE IndInv'
    OBVIOUS
  <1>0. /\ backlog' \in Seq(Conns) /\ Len(backlog) \in Nat /\ Len(backlog') = Len(backlog) + 1
        /\ \A i \in 1 .. Len(backlog) : backlog'[i] = backlog[i]
        /\ backlog'[Len(backlog) + 1] = c
    BY AppendFacts DEF IndInv, TypeOK, Connect
  <1>1. TypeOK'
    BY <1>0 DEF IndInv, TypeOK, Connect, taskVars
  <1>2. ControlInv' /\ FdInv'
    BY DEF IndInv, Connect, taskVars, ControlInv, FdInv
  <1>3. BacklogInv'
    <2>1. /\ task[c] = "none" /\ fd[c] = NoFd /\ peer' = [peer EXCEPT ![c] = "open"]
          /\ \A i \in 1 .. Len(backlog) : backlog[i] # c
          /\ UNCHANGED <<task, fd>>
      BY DEF IndInv, BacklogInv, Connect, taskVars
    <2>2. \A i, j \in 1 .. Len(backlog') : backlog'[i] = backlog'[j] => i = j
      BY <1>0, <2>1 DEF IndInv, BacklogInv
    <2>3. \A i \in 1 .. Len(backlog') : task'[backlog'[i]] = "none" /\ fd'[backlog'[i]] = NoFd
      BY <1>0, <2>1 DEF IndInv, BacklogInv
    <2>4. ASSUME NEW d \in Conns, peer'[d] = "away"
          PROVE  /\ task'[d] = "none" /\ fd'[d] = NoFd
                 /\ \A i \in 1 .. Len(backlog') : backlog'[i] # d
      <3>1. d # c /\ peer[d] = "away"
        BY <2>1, <2>4 DEF IndInv, TypeOK
      <3> QED BY <1>0, <2>1, <3>1 DEF IndInv, BacklogInv
    <2> QED BY <2>2, <2>3, <2>4 DEF BacklogInv
  <1> QED BY <1>1, <1>2, <1>3, FrameStep DEF IndInv, Connect, taskVars

\* Bytes that arrive disturb nothing but their types.
LEMMA SendStep == ASSUME NEW c \in Conns PROVE IndInv /\ Send(c) => IndInv'
  <1> SUFFICES ASSUME IndInv, Send(c) PROVE IndInv'
    OBVIOUS
  <1>0. nsent[c] + 1 \in 1 .. MaxPieces /\ rx'[c] \in Seq(1 .. MaxPieces)
    BY AppendFacts, ConstantsAssumption DEF IndInv, TypeOK, Send
  <1>1. TypeOK'
    BY <1>0 DEF IndInv, TypeOK, Send, taskVars
  <1>2. ControlInv' /\ FdInv' /\ BacklogInv'
    BY DEF IndInv, Send, taskVars, ControlInv, FdInv, BacklogInv
  <1> QED BY <1>1, <1>2, FrameStep DEF IndInv, Send, taskVars

\* Nor does what a client does to its end.
LEMMA PeerMoveStep == ASSUME NEW c \in Conns PROVE IndInv /\ PeerMove(c) => IndInv'
  <1> SUFFICES ASSUME IndInv, PeerMove(c) PROVE IndInv'
    OBVIOUS
  <1>1. TypeOK'
    BY ConstantsAssumption DEF IndInv, TypeOK, PeerMove, taskVars
  <1>2. ControlInv' /\ FdInv'
    BY DEF IndInv, PeerMove, taskVars, ControlInv, FdInv
  <1>3. BacklogInv'
    BY ConstantsAssumption DEF IndInv, TypeOK, PeerMove, taskVars, BacklogInv
  <1> QED BY <1>1, <1>2, <1>3, FrameStep DEF IndInv, PeerMove, taskVars

\* The task at the head of the channel moves into the executor's hands.
LEMMA RecvStep == IndInv /\ Recv => IndInv'
  <1> SUFFICES ASSUME IndInv, Recv PROVE IndInv'
    OBVIOUS
  <1>0. /\ chan \in Seq(Tasks) /\ chan # <<>> /\ chan' = Tail(chan) /\ current' = Head(chan)
    BY DEF IndInv, TypeOK, Recv
  <1>1. /\ chan' \in Seq(Tasks) /\ current' \in Tasks /\ current' = chan[1]
        /\ Len(chan) \in Nat /\ Len(chan) > 0 /\ Len(chan') = Len(chan) - 1
        /\ \A i \in 1 .. Len(chan) - 1 : chan'[i] = chan[i + 1]
    BY <1>0, TailFacts
  <1>2. \A t : InChan(t) <=> t = current' \/ InChan(t)'
    BY <1>0, TailElements DEF InChan
  <1>3. TypeOK'
    BY <1>1 DEF IndInv, TypeOK, Recv
  <1>4. /\ ControlInv' /\ FdInv' /\ BacklogInv' /\ QueueInv' /\ SelectorInv'
        /\ SelectorNeverPanics' /\ StaleRemoveHarmless'
    BY <1>1, ConstantsAssumption DEF IndInv, Recv, Tasks, ControlInv, FdInv, BacklogInv,
       QueueInv, SelectorInv, SelectorNeverPanics, StaleRemoveHarmless, IsAdd
  <1>5. AtMostOneHome'
    <2>1. \A i, j \in 1 .. Len(chan') : chan'[i] = chan'[j] => i = j
      <3>1. \A i, j \in 1 .. Len(chan) : chan[i] = chan[j] => i = j
        BY DEF IndInv, AtMostOneHome
      <3>2. ASSUME NEW i \in 1 .. Len(chan'), NEW j \in 1 .. Len(chan'), chan'[i] = chan'[j]
            PROVE  i = j
        <4>1. /\ i \in 1 .. Len(chan) - 1 /\ j \in 1 .. Len(chan) - 1
              /\ i + 1 \in 1 .. Len(chan) /\ j + 1 \in 1 .. Len(chan)
          BY <1>1
        <4>2. chan[i + 1] = chan[j + 1]
          BY <1>1, <3>2, <4>1
        <4>3. i + 1 = j + 1
          BY <3>1, <4>1, <4>2
        <4> QED BY <4>3
      <3> QED BY <3>2
    <2>2. \A t : InChan(t)' => InChan(t) /\ t # current'
      BY <1>1, <1>2 DEF IndInv, AtMostOneHome, InChan
    <2>3. InChan(current') /\ UNCHANGED <<fd, task, queue, wakers>>
      BY <1>1, <1>2 DEF Recv, InChan
    <2> QED BY <1>1, <2>1, <2>2, <2>3 DEF IndInv, AtMostOneHome, InQueue, InWakers, IsAdd
  <1>6. NoLostTask'
    <2>1. \A t \in Tasks : t # current
      BY ConstantsAssumption DEF IndInv, Recv, ControlInv, Tasks
    <2> QED BY <1>2, <2>1 DEF IndInv, Recv, NoLostTask, InQueue, InWakers, IsAdd
  <1> QED BY <1>3, <1>4, <1>5, <1>6 DEF IndInv

\* The server's task gets the listener's descriptor.
LEMMA ListenStep == IndInv /\ Listen => IndInv'
  <1> SUFFICES ASSUME IndInv, Listen PROVE IndInv'
    OBVIOUS
  <1>1. TypeOK'
    BY DEF IndInv, TypeOK, Listen, Tasks, IoFds
  <1>2. \A t \in Tasks : t # Server => fd'[t] = fd[t] /\ fd[t] # ListenFd
    BY ConstantsAssumption DEF IndInv, TypeOK, Listen, Tasks, FdInv
  <1>3. fd'[Server] = ListenFd /\ fd[Server] = NoFd
    BY DEF IndInv, TypeOK, Listen, Tasks
  <1>4. ControlInv' /\ FdInv' /\ BacklogInv'
    BY <1>2, <1>3, ConstantsAssumption
       DEF IndInv, TypeOK, Listen, Tasks, ControlInv, FdInv, BacklogInv
  <1>5. QueueInv'
    <2>1. ASSUME NEW i \in 1 .. Len(queue), IsAdd(i)
          PROVE  queue[i].task # NoTask /\ fd'[queue[i].task] = queue[i].fd
      <3>1. queue[i] \in Ops /\ queue[i].task # NoTask /\ fd[queue[i].task] = queue[i].fd
        BY <2>1 DEF IndInv, TypeOK, QueueInv
      <3>2. queue[i].task \in Tasks /\ queue[i].task # Server
        BY <1>3, <3>1, ConstantsAssumption DEF Ops, IoFds
      <3> QED BY <1>2, <3>1, <3>2
    <2> QED BY <2>1 DEF QueueInv, IsAdd, Listen
  <1>6. SelectorInv' /\ SelectorNeverPanics' /\ StaleRemoveHarmless' /\ NoLostTask'
    BY DEF IndInv, Listen, SelectorInv, SelectorNeverPanics, StaleRemoveHarmless,
           NoLostTask, InChan, InQueue, InWakers, IsAdd
  <1>7. AtMostOneHome'
    BY <1>2, <1>3, ConstantsAssumption
       DEF IndInv, TypeOK, Listen, AtMostOneHome, InChan, InQueue, InWakers, IsAdd, IoFds
  <1> QED BY <1>1, <1>4, <1>5, <1>6, <1>7 DEF IndInv

\* A descriptor nobody owns gets an owner whose task is about to be spawned.
LEMMA AcceptStep == IndInv /\ Accept => IndInv'
  <1> SUFFICES ASSUME IndInv, Accept PROVE IndInv'
    OBVIOUS
  <1>1. CASE FreeFds = {}
    <2>1. TypeOK' /\ ControlInv' /\ FdInv' /\ BacklogInv'
      BY <1>1 DEF IndInv, TypeOK, Accept, ControlInv, FdInv, BacklogInv
    <2> QED BY <1>1, <2>1, FrameStep DEF IndInv, Accept
  <1>2. CASE FreeFds # {}
    <2> PICK f \in FreeFds : fd' = [fd EXCEPT ![Head(backlog)] = f]
      BY <1>2 DEF Accept
    <2> DEFINE c == Head(backlog)
    <2>0. backlog \in Seq(Conns) /\ backlog # <<>> /\ backlog' = Tail(backlog)
      BY <1>2 DEF IndInv, TypeOK, Accept
    <2>1. /\ backlog' \in Seq(Conns) /\ c \in Conns /\ c = backlog[1]
          /\ Len(backlog) \in Nat /\ Len(backlog) > 0 /\ Len(backlog') = Len(backlog) - 1
          /\ \A i \in 1 .. Len(backlog) - 1 : backlog'[i] = backlog[i + 1]
      BY <2>0, TailFacts
    <2>2. /\ fd[c] = NoFd /\ task[c] = "none" /\ peer[c] # "away"
          /\ fd'[c] = f /\ f \in Fds /\ f # NoFd /\ \A t \in Tasks : fd[t] # f
          /\ \A t \in Tasks : t # c => fd'[t] = fd[t]
          /\ \A i \in 1 .. Len(backlog') : backlog'[i] # c
      <3> 1 \in 1 .. Len(backlog)
        BY <2>1
      <3>1. fd[c] = NoFd /\ task[c] = "none" /\ peer[c] # "away"
        BY <2>1 DEF IndInv, BacklogInv
      <3>2. f \in Fds /\ f # NoFd /\ \A t \in Tasks : fd[t] # f
        BY ConstantsAssumption DEF FreeFds
      <3>3. fd'[c] = f /\ \A t \in Tasks : t # c => fd'[t] = fd[t]
        BY <2>1 DEF IndInv, TypeOK, Tasks
      <3>4. ASSUME NEW i \in 1 .. Len(backlog') PROVE backlog'[i] # c
        <4>1. i + 1 \in 1 .. Len(backlog) /\ i + 1 # 1 /\ backlog'[i] = backlog[i + 1]
          BY <2>1
        <4> QED BY <2>1, <4>1 DEF IndInv, BacklogInv
      <3> QED BY <3>1, <3>2, <3>3, <3>4
    <2> HIDE DEF c
    <2>3. TypeOK'
      BY <1>2, <2>1, <2>2 DEF IndInv, TypeOK, Accept, IoFds, c, Tasks
    <2>4. ControlInv'
      BY <1>2 DEF IndInv, ControlInv, Accept
    <2>5. FdInv'
      BY <1>2, <2>2, ConstantsAssumption DEF IndInv, FdInv, Accept, Tasks
    <2>6. BacklogInv'
      <3>1. \A i \in 1 .. Len(backlog') :
              /\ i + 1 \in 1 .. Len(backlog) /\ backlog'[i] = backlog[i + 1]
              /\ backlog'[i] \in Conns
        BY <2>1
      <3>2. \A i, j \in 1 .. Len(backlog') : backlog'[i] = backlog'[j] => i = j
        BY <2>1, <3>1 DEF IndInv, BacklogInv
      <3>3. \A i \in 1 .. Len(backlog') : task[backlog'[i]] = "none" /\ fd'[backlog'[i]] = NoFd
        BY <2>2, <3>1 DEF IndInv, BacklogInv, Tasks
      <3>4. \A d \in Conns : peer[d] = "away" =>
              /\ task[d] = "none" /\ fd'[d] = NoFd
              /\ \A i \in 1 .. Len(backlog') : backlog'[i] # d
        BY <2>2, <3>1 DEF IndInv, BacklogInv, Tasks
      <3> QED BY <3>2, <3>3, <3>4 DEF BacklogInv, Accept
    <2>7. QueueInv' /\ AtMostOneHome'
      <3>1. \A i \in 1 .. Len(queue) : IsAdd(i) => fd'[queue[i].task] = queue[i].fd
        <4> SUFFICES ASSUME NEW i \in 1 .. Len(queue), IsAdd(i)
                     PROVE  fd'[queue[i].task] = queue[i].fd
          OBVIOUS
        <4>1. queue[i] \in Ops /\ queue[i].task # NoTask /\ fd[queue[i].task] = queue[i].fd
          BY DEF IndInv, TypeOK, QueueInv
        <4>2. queue[i].task \in Tasks /\ queue[i].task # c
          BY <2>2, <4>1, ConstantsAssumption DEF Ops, IoFds
        <4> QED BY <2>2, <4>1, <4>2
      <3>2. \A g \in IoFds : wakers[g] # NoTask => fd'[wakers[g]] = g
        BY <2>2, ConstantsAssumption DEF IndInv, TypeOK, AtMostOneHome, IoFds
      <3> QED BY <3>1, <3>2
            DEF IndInv, Accept, QueueInv, AtMostOneHome, InChan, InQueue, InWakers, IsAdd
    <2>8. SelectorInv' /\ SelectorNeverPanics' /\ StaleRemoveHarmless' /\ NoLostTask'
      BY DEF IndInv, Accept, SelectorInv, SelectorNeverPanics, StaleRemoveHarmless,
             NoLostTask, InChan, InQueue, InWakers, IsAdd
    <2> QED BY <2>3, <2>4, <2>5, <2>6, <2>7, <2>8 DEF IndInv
  <1> QED BY <1>1, <1>2

\* The new connection's task gets its first home, the channel.
LEMMA SpawnStep == IndInv /\ Spawn => IndInv'
  <1> SUFFICES ASSUME IndInv, Spawn PROVE IndInv'
    OBVIOUS
  <1> PICK c \in Conns : /\ task[c] = "none" /\ fd[c] # NoFd
                         /\ task' = [task EXCEPT ![c] = "live"]
                         /\ chan' = Append(chan, c)
    BY DEF Spawn, SendTask
  <1>0. c \in Tasks /\ chan \in Seq(Tasks)
    BY DEF IndInv, TypeOK, Tasks
  <1>1. /\ chan' \in Seq(Tasks) /\ Len(chan) \in Nat /\ Len(chan') = Len(chan) + 1
        /\ \A i \in 1 .. Len(chan) : chan'[i] = chan[i]
        /\ chan'[Len(chan) + 1] = c
    BY <1>0, AppendFacts
  <1>2. \A t : InChan(t)' <=> t = c \/ InChan(t)
    BY <1>0, AppendElements DEF InChan
  <1>3. TypeOK'
    BY <1>1 DEF IndInv, TypeOK, Spawn
  <1>4. ControlInv' /\ FdInv'
    BY ConstantsAssumption DEF IndInv, TypeOK, Spawn, ControlInv, FdInv, Tasks
  <1>5. BacklogInv'
    <2>1. \A i \in 1 .. Len(backlog) : backlog[i] # c /\ backlog[i] \in Conns
      <3>1. backlog \in Seq(Conns)
        BY DEF IndInv, TypeOK
      <3>2. \A i \in 1 .. Len(backlog) : fd[backlog[i]] = NoFd
        BY DEF IndInv, BacklogInv
      <3>3. \A i \in 1 .. Len(backlog) : backlog[i] \in Conns
        BY <3>1
      <3> QED BY <3>2, <3>3
    <2>2. peer[c] # "away" /\ UNCHANGED <<peer, backlog, fd>>
      BY DEF IndInv, BacklogInv, Spawn
    <2>3. \A d \in Conns : d # c => task'[d] = task[d]
      BY DEF IndInv, TypeOK, Tasks
    <2> QED BY <2>1, <2>2, <2>3 DEF IndInv, BacklogInv
  <1>6. QueueInv' /\ SelectorInv' /\ SelectorNeverPanics' /\ StaleRemoveHarmless'
    BY DEF IndInv, Spawn, QueueInv, SelectorInv, SelectorNeverPanics, StaleRemoveHarmless, IsAdd
  <1>7. ~InChan(c) /\ ~InQueue(c) /\ ~InWakers(c) /\ current # c
    BY <1>0 DEF IndInv, AtMostOneHome
  <1>8. AtMostOneHome'
    <2>1. \A i, j \in 1 .. Len(chan') : chan'[i] = chan'[j] => i = j
      BY <1>1, <1>7 DEF IndInv, AtMostOneHome, InChan
    <2>2. \A t \in Tasks :
            /\ InChan(t)' => ~InQueue(t)' /\ ~InWakers(t)' /\ current' # t
            /\ InQueue(t)' => ~InWakers(t)' /\ current' # t
            /\ InWakers(t)' => current' # t
            /\ InChan(t)' \/ InQueue(t)' \/ InWakers(t)' \/ current' = t => task'[t] = "live"
      BY <1>0, <1>2, <1>7 DEF IndInv, TypeOK, Spawn, AtMostOneHome, InQueue, InWakers, IsAdd
    <2> QED BY <2>1, <2>2 DEF IndInv, Spawn, AtMostOneHome, IsAdd
  <1>9. NoLostTask'
    <2>1. UNCHANGED <<current, queue, event, wakers, epoll, events>>
      BY DEF Spawn
    <2>2. ASSUME NEW t \in Tasks, task'[t] = "live"
          PROVE  current' = t \/ InChan(t)' \/ InQueue(t)' \/ InWakers(t)'
      <3>1. CASE t = c
        BY <1>2, <3>1
      <3>2. CASE t # c
        <4>1. task[t] = "live"
          BY <2>2, <3>2 DEF IndInv, TypeOK
        <4>2. current = t \/ InChan(t) \/ InQueue(t) \/ InWakers(t)
          BY <4>1 DEF IndInv, NoLostTask
        <4>3. InQueue(t)' = InQueue(t) /\ InWakers(t)' = InWakers(t)
          BY <2>1 DEF InQueue, InWakers, IsAdd
        <4> QED BY <1>2, <2>1, <4>2, <4>3
      <3> QED BY <3>1, <3>2
    <2>3. NoLostTask
      BY DEF IndInv
    <2> QED BY <2>1, <2>2, <2>3 DEF NoLostTask
  <1> QED BY <1>3, <1>4, <1>5, <1>6, <1>8, <1>9 DEF IndInv

\* A sequence with a newline has a first one, by the least element of its positions.
LEMMA FirstEndFacts ==
    ASSUME NEW s \in Seq(1 .. MaxPieces), HasLine(s)
    PROVE  /\ FirstEnd(s) \in 1 .. Len(s) /\ s[FirstEnd(s)] \in Ends
           /\ \A j \in 1 .. FirstEnd(s) - 1 : s[j] \notin Ends
  <1> DEFINE T == {i \in 1 .. Len(s) : s[i] \in Ends}
  <1>1. T \subseteq Nat /\ T # {} /\ DOMAIN s = 1 .. Len(s) /\ Len(s) \in Nat
    BY DEF HasLine
  <1> DEFINE R == {p \in Nat \X Nat : p[1] < p[2]}
  <1>r. IsWellFoundedOn(R, Nat)
    BY NatLessThanWellFounded DEF OpToRel
  <1>2. PICK m \in T : \A y \in T : ~ (<<y, m>> \in R)
    <2> HIDE DEF T, R
    <2> QED BY <1>1, <1>r, WFMin
  <1>3. \A y \in T : ~ (y < m)
    BY <1>1, <1>2
  <1>4. \A j \in 1 .. m - 1 : s[j] \notin Ends
    BY <1>1, <1>3
  <1>5. m \in DOMAIN s /\ s[m] \in Ends
    BY <1>1
  <1> QED BY <1>1, <1>4, <1>5 DEF FirstEnd

\* A piece of a sequence over S is a sequence over S.
LEMMA SubSeqType ==
    ASSUME NEW S, NEW s \in Seq(S), NEW m \in Int, NEW n \in Int, m >= 1, n <= Len(s)
    PROVE  SubSeq(s, m, n) \in Seq(S)
  <1>1. \A i \in m .. n : s[i] \in S
    OBVIOUS
  <1> QED BY <1>1, SubSeqProperties

\* read_line never returns more than there is.
LEMMA LineLengthType ==
    ASSUME TypeOK, NEW c \in Conns
    PROVE  LineLength(c) \in 0 .. Len(rx[c])
  <1>1. rx[c] \in Seq(1 .. MaxPieces) /\ Len(rx[c]) \in Nat
    BY DEF TypeOK
  <1>2. CASE HasLine(rx[c])
    BY <1>1, <1>2, FirstEndFacts DEF LineLength
  <1>3. CASE ~HasLine(rx[c])
    BY <1>1, <1>3 DEF LineLength
  <1> QED BY <1>2, <1>3

\* The accept that would block goes on to register.
LEMMA AcceptWouldBlockStep == IndInv /\ AcceptWouldBlock => IndInv'
  <1> SUFFICES ASSUME IndInv, AcceptWouldBlock PROVE IndInv'
    OBVIOUS
  <1>1. TypeOK' /\ ControlInv' /\ FdInv' /\ BacklogInv'
    BY ConstantsAssumption
       DEF IndInv, TypeOK, AcceptWouldBlock, ControlInv, FdInv, BacklogInv
  <1> QED BY <1>1, FrameStep DEF IndInv, AcceptWouldBlock

\* A line that is echoed, in full or in part, leaves tasks and descriptors alone.
LEMMA EchoLineStep == IndInv /\ EchoLine => IndInv'
  <1> SUFFICES ASSUME IndInv, EchoLine PROVE IndInv'
    OBVIOUS
  <1>1. /\ current \in Conns /\ rx[current] \in Seq(1 .. MaxPieces)
        /\ echoed[current] \in Seq(1 .. MaxPieces)
        /\ LineLength(current) \in 1 .. Len(rx[current])
    BY LineLengthType DEF IndInv, TypeOK, EchoLine
  <1>2. ASSUME NEW n \in Written(current)
        PROVE  /\ n \in 1 .. Len(rx[current])
               /\ echoed[current] \o SubSeq(rx[current], 1, n) \in Seq(1 .. MaxPieces)
               /\ rx[current][n] \in 1 .. MaxPieces
    <2>1. n \in 1 .. Len(rx[current])
      BY <1>1, <1>2 DEF Written
    <2>2. 1 \in Int /\ 1 >= 1 /\ n \in Int /\ n <= Len(rx[current])
      BY <1>1, <2>1
    <2>4. rx[current][n] \in 1 .. MaxPieces
      BY <1>1, <2>1, ElementOfSeq
    <2>3. SubSeq(rx[current], 1, n) \in Seq(1 .. MaxPieces)
      BY <1>1, <2>2, SubSeqType, Zenon
    <2>5. echoed[current] \o SubSeq(rx[current], 1, n) \in Seq(1 .. MaxPieces)
      BY <1>1, <2>3, ConcatProperties
    <2> QED BY <2>1, <2>4, <2>5
  <1>3. AfterLine(current, LineLength(current)) \in Seq(1 .. MaxPieces)
    <2>1. /\ LineLength(current) + 1 \in Int /\ LineLength(current) + 1 >= 1
          /\ Len(rx[current]) \in Int /\ Len(rx[current]) <= Len(rx[current])
      BY <1>1
    <2>2. SubSeq(rx[current], LineLength(current) + 1, Len(rx[current])) \in Seq(1 .. MaxPieces)
      BY <1>1, <2>1, SubSeqType, Zenon
    <2> QED BY <2>2 DEF AfterLine
  <1>4. TypeOK'
    <2>1. CASE epc' = "panic" /\ UNCHANGED <<echoed, cut, rx>>
      BY <2>1 DEF IndInv, TypeOK, EchoLine
    <2>2. ASSUME NEW n \in Written(current), UNCHANGED epc,
                 echoed' = [echoed EXCEPT ![current] = @ \o SubSeq(rx[current], 1, n)],
                 cut' = cut \/ cut' = [cut EXCEPT ![current] = @ \cup {rx[current][n]}],
                 rx' = [rx EXCEPT ![current] = AfterLine(current, LineLength(current))]
          PROVE  TypeOK'
      <3>1. /\ echoed[current] \o SubSeq(rx[current], 1, n) \in Seq(1 .. MaxPieces)
            /\ rx[current][n] \in 1 .. MaxPieces
        BY <1>2
      <3>2. echoed' \in [Conns -> Seq(1 .. MaxPieces)] /\ rx' \in [Conns -> Seq(1 .. MaxPieces)]
        BY <1>3, <2>2, <3>1 DEF IndInv, TypeOK
      <3>3. cut' \in [Conns -> SUBSET (1 .. MaxPieces)]
        <4>1. cut \in [Conns -> SUBSET (1 .. MaxPieces)]
          BY DEF IndInv, TypeOK
        <4>2. cut[current] \cup {rx[current][n]} \in SUBSET (1 .. MaxPieces)
          BY <1>1, <3>1, <4>1
        <4> QED BY <2>2, <4>1, <4>2
      <3> QED BY <2>2, <3>2, <3>3 DEF IndInv, TypeOK, EchoLine
    <2> QED BY <2>1, <2>2 DEF EchoLine
  <1>5. ControlInv' /\ FdInv' /\ BacklogInv'
    BY DEF IndInv, EchoLine, ControlInv, FdInv, BacklogInv
  <1> QED BY <1>4, <1>5, FrameStep DEF IndInv, EchoLine

\* The end of a stream, or a line that is none, sends the task on to unregister.
LEMMA ReadClosedStep == IndInv /\ ReadClosed => IndInv'
  <1> SUFFICES ASSUME IndInv, ReadClosed PROVE IndInv'
    OBVIOUS
  <1>1. TypeOK' /\ ControlInv' /\ FdInv' /\ BacklogInv'
    BY DEF IndInv, TypeOK, ReadClosed, ControlInv, FdInv, BacklogInv
  <1> QED BY <1>1, FrameStep DEF IndInv, ReadClosed

\* The read that would block goes on to register.
LEMMA ReadWouldBlockStep == IndInv /\ ReadWouldBlock => IndInv'
  <1> SUFFICES ASSUME IndInv, ReadWouldBlock PROVE IndInv'
    OBVIOUS
  <1>1. TypeOK' /\ FdInv' /\ BacklogInv'
    BY DEF IndInv, TypeOK, ReadWouldBlock, AfterWouldBlock, FdInv, BacklogInv
  <1>2. ControlInv'
    <2>1. current \in Tasks /\ task[current] = "live" /\ fd[current] # NoFd
      BY DEF IndInv, ReadWouldBlock, AtMostOneHome, Tasks, FdInv
    <2> QED BY <2>1 DEF IndInv, ReadWouldBlock, ControlInv
  <1> QED BY <1>1, <1>2, FrameStep DEF IndInv, ReadWouldBlock

\* The two requests.
LEMMA RegisterStep == IndInv /\ Register => IndInv'
  <1> SUFFICES ASSUME IndInv, Register PROVE IndInv'
    OBVIOUS
  <1> DEFINE op == [op |-> "add", fd |-> fd[current], task |-> current]
  <1>0. /\ current \in Tasks /\ fd[current] \in IoFds /\ fd[current] # NoFd
        /\ queue' = Append(queue, op) /\ queue \in Seq(Ops) /\ op \in Ops
        /\ event' = event + 1 /\ current' = NoTask /\ epc' = "recv"
        /\ UNCHANGED <<peer, backlog, fd, task, chan, epoll, wakers, events, spc>>
    BY DEF IndInv, TypeOK, ControlInv, Register, Request, Ops
  <1>1. /\ queue' \in Seq(Ops) /\ Len(queue) \in Nat /\ Len(queue') = Len(queue) + 1
        /\ \A i \in 1 .. Len(queue) : queue'[i] = queue[i]
        /\ queue'[Len(queue) + 1] = op
    BY <1>0, AppendFacts
  <1>2. TypeOK'
    BY <1>0, <1>1 DEF IndInv, TypeOK, Register
  <1>3. ControlInv' /\ FdInv' /\ BacklogInv'
    BY ConstantsAssumption DEF IndInv, Register, ControlInv, FdInv, BacklogInv
  <1>4. QueueInv' /\ SelectorInv' /\ SelectorNeverPanics'
    <2>1. \A i \in 1 .. Len(queue') :
            (IsAdd(i) => queue[i].task # NoTask /\ fd[queue[i].task] = queue[i].fd)'
      <3> SUFFICES ASSUME NEW i \in 1 .. Len(queue')
                   PROVE  (IsAdd(i) => queue[i].task # NoTask /\ fd[queue[i].task] = queue[i].fd)'
        OBVIOUS
      <3>1. CASE i = Len(queue) + 1
        BY <1>0, <1>1, <3>1, ConstantsAssumption DEF IsAdd, Tasks
      <3>2. CASE i \in 1 .. Len(queue)
        BY <1>0, <1>1, <3>2 DEF IndInv, QueueInv, IsAdd
      <3> QED BY <1>1, <3>1, <3>2
    <2> QED BY <1>0, <2>1 DEF IndInv, TypeOK, QueueInv, SelectorInv, SelectorNeverPanics
  <1>5. \A t \in Tasks : InQueue(t)' <=> InQueue(t) \/ t = current
    BY <1>0, <1>1 DEF InQueue, IsAdd
  <1>6. \A t : (InChan(t)' <=> InChan(t)) /\ (InWakers(t)' <=> InWakers(t))
    BY <1>0 DEF InChan, InWakers
  <1>7. ~InQueue(current) /\ ~InChan(current) /\ ~InWakers(current)
    BY <1>0 DEF IndInv, AtMostOneHome
  <1>8. AtMostOneHome'
    <2>1. \A i, j \in 1 .. Len(queue') :
            (IsAdd(i) /\ IsAdd(j) /\ queue[i].task = queue[j].task)' => i = j
      BY <1>0, <1>1, <1>7 DEF IndInv, AtMostOneHome, InQueue, IsAdd
    <2>2. \A t \in Tasks :
            /\ InChan(t)' => ~InQueue(t)' /\ ~InWakers(t)' /\ current' # t
            /\ InQueue(t)' => ~InWakers(t)' /\ current' # t
            /\ InWakers(t)' => current' # t
            /\ InChan(t)' \/ InQueue(t)' \/ InWakers(t)' \/ current' = t => task'[t] = "live"
      BY <1>0, <1>5, <1>6, <1>7, ConstantsAssumption DEF IndInv, AtMostOneHome, Tasks
    <2> QED BY <1>0, <2>1, <2>2 DEF IndInv, AtMostOneHome
  <1>9. NoLostTask'
    BY <1>0, <1>5, <1>6 DEF IndInv, TypeOK, NoLostTask
  <1>10. StaleRemoveHarmless'
    BY <1>0, <1>1 DEF IndInv, TypeOK, StaleRemoveHarmless, IsAdd
  <1> QED BY <1>2, <1>3, <1>4, <1>8, <1>9, <1>10 DEF IndInv

\* The request to remove is queued behind every request to add of its owner,
\* who is running and so in no other place.
LEMMA UnregisterStep == IndInv /\ Unregister => IndInv'
  <1> SUFFICES ASSUME IndInv, Unregister PROVE IndInv'
    OBVIOUS
  <1> DEFINE op == [op |-> "remove", fd |-> fd[current], task |-> NoTask]
  <1>0. /\ current \in Tasks /\ fd[current] \in IoFds /\ fd[current] # NoFd
        /\ queue' = Append(queue, op) /\ queue \in Seq(Ops) /\ op \in Ops
        /\ event' = event + 1 /\ epc' = "close"
        /\ UNCHANGED <<peer, backlog, fd, task, chan, current, epoll, wakers, events, spc>>
    BY DEF IndInv, TypeOK, ControlInv, FdInv, AtMostOneHome, Unregister, Request, Ops, Tasks
  <1>1. /\ queue' \in Seq(Ops) /\ Len(queue) \in Nat /\ Len(queue') = Len(queue) + 1
        /\ \A i \in 1 .. Len(queue) : queue'[i] = queue[i]
        /\ queue'[Len(queue) + 1] = op
    BY <1>0, AppendFacts
  <1>2. TypeOK'
    BY <1>0, <1>1 DEF IndInv, TypeOK, Unregister
  <1>3. ControlInv' /\ FdInv' /\ BacklogInv'
    BY DEF IndInv, Unregister, ControlInv, FdInv, BacklogInv
  <1>4. QueueInv' /\ SelectorInv' /\ SelectorNeverPanics'
    BY <1>0, <1>1 DEF IndInv, TypeOK, QueueInv, SelectorInv, SelectorNeverPanics, IsAdd
  <1>5. \A t \in Tasks : InQueue(t)' <=> InQueue(t)
    BY <1>0, <1>1 DEF InQueue, IsAdd
  <1>6. \A t : (InChan(t)' <=> InChan(t)) /\ (InWakers(t)' <=> InWakers(t))
    BY <1>0 DEF InChan, InWakers
  <1>7. AtMostOneHome'
    <2>1. \A i, j \in 1 .. Len(queue') :
            (IsAdd(i) /\ IsAdd(j) /\ queue[i].task = queue[j].task)' => i = j
      BY <1>0, <1>1 DEF IndInv, AtMostOneHome, IsAdd
    <2> QED BY <1>0, <1>5, <1>6, <2>1 DEF IndInv, AtMostOneHome
  <1>8. NoLostTask'
    BY <1>0, <1>5, <1>6 DEF IndInv, TypeOK, NoLostTask
  \* The descriptor's owner is running, so nothing else refers to it.
  <1>9. wakers[fd[current]] = NoTask
    BY <1>0 DEF IndInv, TypeOK, AtMostOneHome, FdInv, InWakers
  <1>10. \A j \in 1 .. Len(queue) : IsAdd(j) => queue[j].fd # fd[current]
    <2> SUFFICES ASSUME NEW j \in 1 .. Len(queue), IsAdd(j), queue[j].fd = fd[current]
                 PROVE  FALSE
      OBVIOUS
    <2>1. queue[j] \in Ops /\ queue[j].task # NoTask /\ fd[queue[j].task] = fd[current]
      BY <1>0 DEF IndInv, QueueInv
    <2>2. queue[j].task = current
      BY <1>0, <2>1 DEF IndInv, FdInv, Ops
    <2>3. InQueue(current)
      BY <2>2 DEF InQueue
    <2> QED BY <1>0, <2>3 DEF IndInv, AtMostOneHome
  <1>11. StaleRemoveHarmless'
    BY <1>0, <1>1, <1>9, <1>10 DEF IndInv, TypeOK, StaleRemoveHarmless, SelectorInv, IsAdd
  <1> QED BY <1>2, <1>3, <1>4, <1>7, <1>8, <1>11 DEF IndInv

\* The descriptor is freed: no request to add, waker or event is for it.
LEMMA CloseStep == IndInv /\ Close => IndInv'
  <1> SUFFICES ASSUME IndInv, Close PROVE IndInv'
    OBVIOUS
  <1>0. /\ current \in Conns /\ current \in Tasks /\ current # Server
        /\ fd[current] \in IoFds /\ fd[current] # NoFd
        /\ fd' = [fd EXCEPT ![current] = NoFd] /\ task' = [task EXCEPT ![current] = "done"]
        /\ epoll' = [epoll EXCEPT ![fd[current]] = "none"]
        /\ epc' = "recv" /\ current' = NoTask
        /\ UNCHANGED <<peer, backlog, chan, queue, event, wakers, events, spc>>
    BY ConstantsAssumption DEF IndInv, TypeOK, ControlInv, FdInv, AtMostOneHome, Close, Tasks
  <1>1. TypeOK'
    BY <1>0 DEF IndInv, TypeOK, Close
  <1>2. \A t \in Tasks : t # current => fd'[t] = fd[t] /\ task'[t] = task[t]
    BY <1>0 DEF IndInv, TypeOK
  <1>3. fd'[current] = NoFd /\ task'[current] = "done"
    BY <1>0 DEF IndInv, TypeOK
  <1>4. ControlInv' /\ FdInv'
    BY <1>0, <1>2, <1>3, ConstantsAssumption DEF IndInv, ControlInv, FdInv, Tasks
  <1>5. BacklogInv'
    <2>1. task[current] = "live"
      BY <1>0 DEF IndInv, AtMostOneHome
    <2>2. peer[current] # "away" /\ \A i \in 1 .. Len(backlog) : backlog[i] # current /\ backlog[i] \in Tasks
      BY <1>0, <2>1 DEF IndInv, TypeOK, BacklogInv, Tasks
    <2> QED BY <1>0, <1>2, <2>2 DEF IndInv, BacklogInv, Tasks
  <1>6. QueueInv'
    <2> SUFFICES ASSUME NEW i \in 1 .. Len(queue), IsAdd(i)
                 PROVE  queue[i].task # NoTask /\ fd'[queue[i].task] = queue[i].fd
      BY <1>0 DEF QueueInv, IsAdd
    <2>1. queue[i] \in Ops /\ queue[i].task # NoTask /\ fd[queue[i].task] = queue[i].fd
      BY DEF IndInv, TypeOK, QueueInv
    <2>2. queue[i].task \in Tasks /\ queue[i].task # current
      BY <1>0, <2>1 DEF IndInv, AtMostOneHome, InQueue, Ops
    <2> QED BY <1>2, <2>1, <2>2
  <1>7. \A f \in IoFds : wakers[f] # NoTask => wakers[f] \in Tasks /\ wakers[f] # current
    BY <1>0 DEF IndInv, TypeOK, AtMostOneHome, InWakers
  <1>8. AtMostOneHome'
    BY <1>0, <1>2, <1>7, ConstantsAssumption
       DEF IndInv, AtMostOneHome, InChan, InQueue, InWakers, IsAdd, Tasks
  <1>9. wakers[fd[current]] = NoTask
    BY <1>0, <1>7 DEF IndInv, AtMostOneHome, FdInv
  <1>10. \A f \in IoFds : f # fd[current] => epoll'[f] = epoll[f]
    BY <1>0 DEF IndInv, TypeOK
  <1>11. epoll'[fd[current]] = "none"
    BY <1>0 DEF IndInv, TypeOK
  <1>12. SelectorInv' /\ SelectorNeverPanics'
    BY <1>0, <1>10, <1>11 DEF IndInv, SelectorInv, SelectorNeverPanics
  <1>13. NoLostTask'
    BY <1>0, <1>2, <1>3, <1>9, <1>10 DEF IndInv, NoLostTask, InChan, InQueue, InWakers, IsAdd
  <1>14. StaleRemoveHarmless'
    <2>1. \A i \in 1 .. Len(queue) : queue[i] \in Ops
      BY DEF IndInv, TypeOK
    <2>2. \A i \in 1 .. Len(queue) : queue[i].fd \in IoFds
      BY <2>1 DEF Ops
    <2> QED BY <1>0, <1>10, <1>11, <2>2 DEF IndInv, StaleRemoveHarmless, IsAdd
  <1> QED BY <1>1, <1>4, <1>5, <1>6, <1>8, <1>12, <1>13, <1>14 DEF IndInv

\* The selector thread starts.
LEMMA SelectorStartStep == IndInv /\ SelectorStart => IndInv'
  BY DEF IndInv, SelectorStart, taskVars, TypeOK, ControlInv, FdInv, BacklogInv, QueueInv,
         SelectorInv, AtMostOneHome, NoLostTask, StaleRemoveHarmless, SelectorNeverPanics,
         InChan, InQueue, InWakers, IsAdd

\* A batch is done.
LEMMA BatchDoneStep == IndInv /\ BatchDone => IndInv'
  BY DEF IndInv, BatchDone, taskVars, TypeOK, ControlInv, FdInv, BacklogInv, QueueInv,
         SelectorInv, AtMostOneHome, NoLostTask, StaleRemoveHarmless, SelectorNeverPanics,
         InChan, InQueue, InWakers, IsAdd

\* A drain begins with the eventfd's counter above zero.
LEMMA BeginDrainStep == IndInv /\ BeginDrain => IndInv'
  BY DEF IndInv, BeginDrain, taskVars, TypeOK, ControlInv, FdInv, BacklogInv, QueueInv,
         SelectorInv, AtMostOneHome, NoLostTask, StaleRemoveHarmless, SelectorNeverPanics,
         InChan, InQueue, InWakers, IsAdd

\* A batch reports armed descriptors only, and so only ones with a waker.
LEMMA EpollWaitStep == IndInv /\ EpollWait => IndInv'
  <1> SUFFICES ASSUME IndInv, EpollWait PROVE IndInv'
    OBVIOUS
  <1>1. TypeOK'
    BY DEF IndInv, TypeOK, EpollWait, taskVars, Ready, Disarmed
  <1>2. ControlInv' /\ FdInv' /\ BacklogInv' /\ QueueInv' /\ SelectorNeverPanics' /\ AtMostOneHome'
    BY DEF IndInv, EpollWait, taskVars, ControlInv, FdInv, BacklogInv, QueueInv,
           SelectorNeverPanics, AtMostOneHome, InChan, InQueue, InWakers, IsAdd
  <1>3. \A f \in IoFds : f \in events' => epoll[f] = "armed" /\ epoll'[f] = "disarmed"
    BY ConstantsAssumption DEF EpollWait, Ready, Disarmed, IoFds
  <1>4. \A f \in IoFds : f \notin events' => epoll'[f] = epoll[f]
    BY DEF EpollWait, Disarmed
  <1>5. EventFd \in events' => event > 0
    BY ConstantsAssumption DEF EpollWait, Ready, IoFds
  <1>6. SelectorInv'
    BY <1>3, <1>4, <1>5 DEF IndInv, SelectorInv, EpollWait
  <1>7. NoLostTask'
    <2>1. events = {}
      BY DEF IndInv, SelectorInv, EpollWait
    <2> QED BY <1>3, <1>4, <2>1 DEF IndInv, NoLostTask, EpollWait, taskVars,
                                    InChan, InQueue, InWakers, IsAdd
  <1>8. StaleRemoveHarmless'
    <2>1. \A i \in 1 .. Len(queue) : queue[i] \in Ops
      BY DEF IndInv, TypeOK
    <2>2. \A i \in 1 .. Len(queue) : queue[i].fd \in IoFds
      BY <2>1 DEF Ops
    <2> QED BY <1>3, <1>4, <2>2 DEF IndInv, StaleRemoveHarmless, EpollWait, IsAdd
  <1> QED BY <1>1, <1>2, <1>6, <1>7, <1>8 DEF IndInv

\* The waker of a reported descriptor is there, and its task moves to the channel.
LEMMA DispatchFdStep == IndInv /\ DispatchFd => IndInv'
  <1> SUFFICES ASSUME IndInv, DispatchFd PROVE IndInv'
    OBVIOUS
  <1> PICK f \in events \ {EventFd} :
         IF wakers[f] = NoTask
         THEN spc' = "panic" /\ UNCHANGED <<chan, wakers, events>>
         ELSE /\ SendTask(wakers[f])
              /\ wakers' = WakersWithout(f)
              /\ events' = events \ {f}
              /\ UNCHANGED spc
    BY DEF DispatchFd
  <1> DEFINE w == wakers[f]
  \* The unwrap: a descriptor in the batch has a waker.
  <1>0. /\ f \in IoFds /\ w \in Tasks /\ w # NoTask /\ epoll[f] # "armed" /\ spc = "dispatch"
        /\ chan \in Seq(Tasks) /\ chan' = Append(chan, w)
        /\ wakers' = [wakers EXCEPT ![f] = NoTask] /\ events' = events \ {f}
        /\ UNCHANGED <<peer, backlog, fd, task, current, epc, queue, event, epoll, spc>>
    BY DEF IndInv, TypeOK, SelectorInv, DispatchFd, SendTask, WakersWithout
  <1>1. /\ chan' \in Seq(Tasks) /\ Len(chan) \in Nat /\ Len(chan') = Len(chan) + 1
        /\ \A i \in 1 .. Len(chan) : chan'[i] = chan[i]
        /\ chan'[Len(chan) + 1] = w
    BY <1>0, AppendFacts
  <1>2. \A t : InChan(t)' <=> t = w \/ InChan(t)
    BY <1>0, AppendElements DEF InChan
  <1>3. wakers'[f] = NoTask /\ \A g \in IoFds : g # f => wakers'[g] = wakers[g]
    BY <1>0 DEF IndInv, TypeOK
  <1>4. InWakers(w) /\ ~InChan(w) /\ ~InQueue(w) /\ current # w /\ task[w] = "live"
    <2>1. InWakers(w)
      BY <1>0 DEF InWakers
    <2> QED BY <1>0, <2>1 DEF IndInv, AtMostOneHome
  <1>5. \A t \in Tasks : InWakers(t)' <=> InWakers(t) /\ t # w
    <2>1. \A g \in IoFds : wakers[g] = w => g = f
      BY <1>0 DEF IndInv, AtMostOneHome
    <2>2. NoTask \notin Tasks
      BY ConstantsAssumption DEF Tasks
    <2> QED BY <1>0, <1>3, <2>1, <2>2 DEF InWakers
  <1>6. \A t : InQueue(t)' <=> InQueue(t)
    BY <1>0 DEF InQueue, IsAdd
  <1> HIDE DEF w
  <1>7. TypeOK'
    BY <1>0, <1>1 DEF IndInv, TypeOK, DispatchFd
  <1>8. ControlInv' /\ FdInv' /\ BacklogInv' /\ QueueInv' /\ SelectorNeverPanics'
    BY <1>0 DEF IndInv, ControlInv, FdInv, BacklogInv, QueueInv, SelectorNeverPanics, IsAdd
  <1>9. SelectorInv'
    BY <1>0, <1>3 DEF IndInv, SelectorInv
  <1>10. AtMostOneHome'
    <2>1. \A i, j \in 1 .. Len(chan') : chan'[i] = chan'[j] => i = j
      BY <1>1, <1>4 DEF IndInv, AtMostOneHome, InChan
    <2>2. \A t \in Tasks :
            /\ InChan(t)' => ~InQueue(t)' /\ ~InWakers(t)' /\ current' # t
            /\ InQueue(t)' => ~InWakers(t)' /\ current' # t
            /\ InWakers(t)' => current' # t
            /\ InChan(t)' \/ InQueue(t)' \/ InWakers(t)' \/ current' = t => task'[t] = "live"
      BY <1>0, <1>2, <1>4, <1>5, <1>6 DEF IndInv, AtMostOneHome
    <2>3. \A g \in IoFds : wakers'[g] # NoTask => fd'[wakers'[g]] = g
      BY <1>0, <1>3 DEF IndInv, AtMostOneHome
    <2> QED BY <1>0, <2>1, <2>2, <2>3 DEF IndInv, AtMostOneHome, IsAdd
  <1>11. NoLostTask'
    BY <1>0, <1>2, <1>3, <1>5, <1>6 DEF IndInv, NoLostTask
  <1>12. StaleRemoveHarmless'
    <2>1. \A i \in 1 .. Len(queue) : queue[i] \in Ops
      BY DEF IndInv, TypeOK
    <2>2. \A i \in 1 .. Len(queue) : queue[i].fd \in IoFds
      BY <2>1 DEF Ops
    <2> QED BY <1>0, <1>3, <2>2 DEF IndInv, StaleRemoveHarmless, IsAdd
  <1> QED BY <1>7, <1>8, <1>9, <1>10, <1>11, <1>12 DEF IndInv

\* What a drain takes from the front of the queue.
LEMMA DrainFacts ==
    ASSUME IndInv, queue # <<>>, queue' = Tail(queue)
    PROVE  /\ queue' \in Seq(Ops) /\ Head(queue) = queue[1] /\ Head(queue) \in Ops
           /\ Len(queue) \in Nat /\ 1 \in 1 .. Len(queue) /\ Len(queue') = Len(queue) - 1
           /\ \A i \in 1 .. Len(queue') :
                /\ queue'[i] = queue[i + 1] /\ i + 1 \in 1 .. Len(queue)
                /\ queue'[i] \in Ops /\ queue'[i].fd \in IoFds
  <1>1. queue \in Seq(Ops)
    BY DEF IndInv, TypeOK
  <1>2. /\ queue' \in Seq(Ops) /\ Head(queue) = queue[1] /\ Head(queue) \in Ops
        /\ Len(queue) \in Nat /\ Len(queue) > 0 /\ Len(queue') = Len(queue) - 1
        /\ \A i \in 1 .. Len(queue) - 1 : queue'[i] = queue[i + 1]
    BY <1>1, TailFacts
  <1>3. \A i \in 1 .. Len(queue') : queue'[i] \in Ops
    BY <1>2
  <1>4. \A i \in 1 .. Len(queue') : queue'[i].fd \in IoFds
    BY <1>3 DEF Ops
  <1> QED BY <1>2, <1>3, <1>4

\* A request to add meets an open descriptor without a waker.
LEMMA AddEventStep == IndInv /\ AddEvent => IndInv'
  <1> SUFFICES ASSUME IndInv, AddEvent PROVE IndInv'
    OBVIOUS
  <1> DEFINE f == Head(queue).fd
             w == Head(queue).task
  <1>0. queue # <<>> /\ queue' = Tail(queue) /\ Head(queue).op = "add" /\ spc = "drain"
    BY DEF AddEvent
  <1>1. /\ Head(queue) = queue[1] /\ 1 \in 1 .. Len(queue) /\ IsAdd(1)
        /\ f \in IoFds /\ w \in Tasks /\ w # NoTask /\ fd[w] = f
    <2>1. Head(queue) = queue[1] /\ Head(queue) \in Ops /\ 1 \in 1 .. Len(queue)
      BY <1>0, DrainFacts
    <2> QED BY <1>0, <2>1 DEF IndInv, QueueInv, Ops, IsAdd
  <1>2. InQueue(w) /\ ~InChan(w) /\ ~InWakers(w) /\ current # w /\ task[w] = "live"
    <2>1. InQueue(w)
      BY <1>1 DEF InQueue
    <2> QED BY <1>1, <2>1 DEF IndInv, AtMostOneHome
  \* The assert: were there another waker of f, f would have two owners.
  <1>3. wakers[f] = NoTask
    <2>1. wakers[f] # NoTask => wakers[f] \in Tasks /\ fd[wakers[f]] = f /\ wakers[f] # w
      BY <1>1, <1>2 DEF IndInv, TypeOK, AtMostOneHome, InWakers
    <2>2. f # NoFd
      BY <1>1, ConstantsAssumption DEF IoFds
    <2> QED BY <1>1, <2>1, <2>2 DEF IndInv, FdInv
  <1>4. /\ ~AddFails(f)
        /\ epoll' = [epoll EXCEPT ![f] = "armed"] /\ wakers' = [wakers EXCEPT ![f] = w]
        /\ UNCHANGED <<peer, backlog, fd, task, chan, current, epc, event, events, spc>>
    BY <1>1, <1>3 DEF AddEvent, AddFails, Armed, taskVars
  <1>5. f \notin events
    BY <1>1, <1>3 DEF IndInv, SelectorInv
  <1>6. \A i \in 1 .. Len(queue) : ~IsAdd(i) => queue[i].fd # f
    <2> SUFFICES ASSUME NEW i \in 1 .. Len(queue), ~IsAdd(i) PROVE queue[i].fd # f
      OBVIOUS
    <2>1. 1 \in 1 .. i - 1
      BY <1>1
    <2> QED BY <1>1, <2>1 DEF IndInv, StaleRemoveHarmless
  <1>7. /\ wakers'[f] = w /\ epoll'[f] = "armed"
        /\ \A g \in IoFds : g # f => wakers'[g] = wakers[g] /\ epoll'[g] = epoll[g]
    BY <1>1, <1>4 DEF IndInv, TypeOK
  <1>8. \A t \in Tasks : InWakers(t)' <=> InWakers(t) \/ t = w
    BY <1>1, <1>3, <1>7, ConstantsAssumption DEF InWakers, Tasks
  <1>9. \A t \in Tasks : InQueue(t)' <=> InQueue(t) /\ t # w
    <2> SUFFICES ASSUME NEW t \in Tasks PROVE InQueue(t)' <=> InQueue(t) /\ t # w
      OBVIOUS
    <2>1. ASSUME NEW i \in 1 .. Len(queue'), IsAdd(i)', queue'[i].task = t
          PROVE  InQueue(t) /\ t # w
      <3>1. i + 1 \in 1 .. Len(queue) /\ i + 1 # 1 /\ IsAdd(i + 1) /\ queue[i + 1].task = t
        BY <1>0, <2>1, DrainFacts DEF IsAdd
      <3> QED BY <1>1, <3>1 DEF IndInv, AtMostOneHome, InQueue
    <2>2. ASSUME NEW i \in 1 .. Len(queue), IsAdd(i), queue[i].task = t, t # w
          PROVE  InQueue(t)'
      <3>1. i # 1 /\ i - 1 \in 1 .. Len(queue') /\ queue'[i - 1] = queue[i]
        BY <1>0, <1>1, <2>2, DrainFacts
      <3> QED BY <2>2, <3>1 DEF InQueue, IsAdd
    <2> QED BY <2>1, <2>2 DEF InQueue
  <1>10. \A t : InChan(t)' <=> InChan(t)
    BY <1>4 DEF InChan
  <1> HIDE DEF f, w
  <1>11. TypeOK'
    <2>1. queue' \in Seq(Ops)
      BY <1>0, DrainFacts
    <2> QED BY <1>1, <1>4, <2>1 DEF IndInv, TypeOK, AddEvent, taskVars
  <1>12. ControlInv' /\ FdInv' /\ BacklogInv' /\ SelectorNeverPanics'
    BY <1>4 DEF IndInv, ControlInv, FdInv, BacklogInv, SelectorNeverPanics
  <1>13. QueueInv'
    BY <1>0, <1>4, DrainFacts DEF IndInv, QueueInv, IsAdd
  <1>14. SelectorInv'
    BY <1>1, <1>4, <1>5, <1>7 DEF IndInv, SelectorInv
  <1>15. AtMostOneHome'
    <2>1. \A i, j \in 1 .. Len(queue') :
            (IsAdd(i) /\ IsAdd(j) /\ queue[i].task = queue[j].task)' => i = j
      BY <1>0, DrainFacts DEF IndInv, AtMostOneHome, IsAdd
    <2>2. \A t \in Tasks :
            /\ InChan(t)' => ~InQueue(t)' /\ ~InWakers(t)' /\ current' # t
            /\ InQueue(t)' => ~InWakers(t)' /\ current' # t
            /\ InWakers(t)' => current' # t
            /\ InChan(t)' \/ InQueue(t)' \/ InWakers(t)' \/ current' = t => task'[t] = "live"
      BY <1>2, <1>4, <1>8, <1>9, <1>10 DEF IndInv, AtMostOneHome
    <2>3. \A g \in IoFds : wakers'[g] # NoTask => fd'[wakers'[g]] = g
      BY <1>1, <1>4, <1>7 DEF IndInv, AtMostOneHome
    <2> QED BY <1>4, <2>1, <2>2, <2>3 DEF IndInv, AtMostOneHome
  <1>16. NoLostTask'
    BY <1>0, <1>1, <1>4, <1>7, <1>8, <1>9, <1>10 DEF IndInv, NoLostTask, SelectorInv
  <1>17. StaleRemoveHarmless'
    <2> SUFFICES ASSUME NEW i \in 1 .. Len(queue'), ~IsAdd(i)'
                 PROVE  /\ wakers'[queue'[i].fd] = NoTask
                        /\ epoll'[queue'[i].fd] # "armed"
                        /\ queue'[i].fd \notin events'
                        /\ \A j \in 1 .. i - 1 : IsAdd(j)' => queue'[j].fd # queue'[i].fd
      BY DEF StaleRemoveHarmless
    <2>1. /\ i + 1 \in 1 .. Len(queue) /\ ~IsAdd(i + 1) /\ queue'[i] = queue[i + 1]
          /\ queue'[i].fd \in IoFds /\ queue'[i].fd # f
      BY <1>0, <1>6, DrainFacts DEF IsAdd
    <2>2. \A j \in 1 .. i - 1 : j + 1 \in 1 .. (i + 1) - 1 /\ queue'[j] = queue[j + 1]
      BY <1>0, DrainFacts
    <2>3. /\ wakers[queue'[i].fd] = NoTask /\ epoll[queue'[i].fd] # "armed"
          /\ queue'[i].fd \notin events
          /\ \A j \in 1 .. (i + 1) - 1 : IsAdd(j) => queue[j].fd # queue'[i].fd
      BY <2>1 DEF IndInv, StaleRemoveHarmless
    <2>4. \A j \in 1 .. i - 1 : IsAdd(j)' => queue'[j].fd # queue'[i].fd
      BY <2>2, <2>3 DEF IsAdd
    <2> QED BY <1>4, <1>7, <2>1, <2>3, <2>4
  <1> QED BY <1>11, <1>12, <1>13, <1>14, <1>15, <1>16, <1>17 DEF IndInv

\* A request to remove meets a descriptor without a waker.
LEMMA RmEventStep == IndInv /\ RmEvent => IndInv'
  <1> SUFFICES ASSUME IndInv, RmEvent PROVE IndInv'
    OBVIOUS
  <1> DEFINE f == Head(queue).fd
  <1>0. /\ queue # <<>> /\ queue' = Tail(queue) /\ Head(queue).op = "remove" /\ spc = "drain"
        /\ epoll' = [epoll EXCEPT ![f] = "none"] /\ wakers' = [wakers EXCEPT ![f] = NoTask]
        /\ UNCHANGED <<peer, backlog, fd, task, chan, current, epc, event, events, spc>>
    BY DEF RmEvent, taskVars
  <1>1. Head(queue) = queue[1] /\ 1 \in 1 .. Len(queue) /\ ~IsAdd(1) /\ f \in IoFds
    <2>1. Head(queue) = queue[1] /\ Head(queue) \in Ops /\ 1 \in 1 .. Len(queue)
      BY <1>0, DrainFacts
    <2> QED BY <1>0, <2>1 DEF Ops, IsAdd
  <1>2. wakers[f] = NoTask /\ epoll[f] # "armed" /\ f \notin events
    BY <1>1 DEF IndInv, StaleRemoveHarmless
  <1>3. /\ wakers' = wakers /\ epoll'[f] # "armed"
        /\ \A g \in IoFds : g # f => epoll'[g] = epoll[g]
    BY <1>0, <1>1, <1>2 DEF IndInv, TypeOK
  <1>4. \A t : InQueue(t)' <=> InQueue(t)
    <2> SUFFICES ASSUME NEW t PROVE InQueue(t)' <=> InQueue(t)
      OBVIOUS
    <2>1. ASSUME NEW i \in 1 .. Len(queue'), IsAdd(i)', queue'[i].task = t
          PROVE  InQueue(t)
      <3>1. i + 1 \in 1 .. Len(queue) /\ IsAdd(i + 1) /\ queue[i + 1].task = t
        BY <1>0, <2>1, DrainFacts DEF IsAdd
      <3> QED BY <3>1 DEF InQueue
    <2>2. ASSUME NEW i \in 1 .. Len(queue), IsAdd(i), queue[i].task = t
          PROVE  InQueue(t)'
      <3>1. i # 1 /\ i - 1 \in 1 .. Len(queue') /\ queue'[i - 1] = queue[i]
        BY <1>0, <1>1, <2>2, DrainFacts
      <3> QED BY <2>2, <3>1 DEF InQueue, IsAdd
    <2> QED BY <2>1, <2>2 DEF InQueue
  <1>5. \A t : (InChan(t)' <=> InChan(t)) /\ (InWakers(t)' <=> InWakers(t))
    BY <1>0, <1>3 DEF InChan, InWakers
  <1> HIDE DEF f
  <1>6. TypeOK'
    <2>1. queue' \in Seq(Ops)
      BY <1>0, DrainFacts
    <2> QED BY <1>0, <1>1, <1>3, <2>1 DEF IndInv, TypeOK, RmEvent
  <1>7. ControlInv' /\ FdInv' /\ BacklogInv' /\ SelectorNeverPanics'
    BY <1>0 DEF IndInv, ControlInv, FdInv, BacklogInv, SelectorNeverPanics
  <1>8. QueueInv'
    BY <1>0, DrainFacts DEF IndInv, QueueInv, IsAdd
  <1>9. SelectorInv'
    BY <1>0, <1>2, <1>3 DEF IndInv, SelectorInv
  <1>10. AtMostOneHome'
    <2>1. \A i, j \in 1 .. Len(queue') :
            (IsAdd(i) /\ IsAdd(j) /\ queue[i].task = queue[j].task)' => i = j
      BY <1>0, DrainFacts DEF IndInv, AtMostOneHome, IsAdd
    <2> QED BY <1>0, <1>3, <1>4, <1>5, <2>1 DEF IndInv, AtMostOneHome
  <1>11. NoLostTask'
    BY <1>0, <1>2, <1>3, <1>4, <1>5 DEF IndInv, NoLostTask, SelectorInv
  <1>12. StaleRemoveHarmless'
    <2> SUFFICES ASSUME NEW i \in 1 .. Len(queue'), ~IsAdd(i)'
                 PROVE  /\ wakers'[queue'[i].fd] = NoTask
                        /\ epoll'[queue'[i].fd] # "armed"
                        /\ queue'[i].fd \notin events'
                        /\ \A j \in 1 .. i - 1 : IsAdd(j)' => queue'[j].fd # queue'[i].fd
      BY DEF StaleRemoveHarmless
    <2>1. /\ i + 1 \in 1 .. Len(queue) /\ ~IsAdd(i + 1) /\ queue'[i] = queue[i + 1]
          /\ queue'[i].fd \in IoFds
      BY <1>0, DrainFacts DEF IsAdd
    <2>2. \A j \in 1 .. i - 1 : j + 1 \in 1 .. (i + 1) - 1 /\ queue'[j] = queue[j + 1]
      BY <1>0, DrainFacts
    <2> QED BY <1>0, <1>3, <2>1, <2>2 DEF IndInv, StaleRemoveHarmless, IsAdd
  <1> QED BY <1>6, <1>7, <1>8, <1>9, <1>10, <1>11, <1>12 DEF IndInv

\* The read of the eventfd finds the queue empty and the counter above zero.
LEMMA DrainEndStep == IndInv /\ DrainEnd => IndInv'
  <1> SUFFICES ASSUME IndInv, DrainEnd PROVE IndInv'
    OBVIOUS
  <1>1. TypeOK' /\ ControlInv' /\ FdInv' /\ BacklogInv' /\ QueueInv' /\ SelectorNeverPanics'
    BY DEF IndInv, DrainEnd, taskVars, TypeOK, ControlInv, FdInv, BacklogInv, QueueInv,
           SelectorNeverPanics, IsAdd
  <1>2. SelectorInv' /\ StaleRemoveHarmless'
    BY DEF IndInv, DrainEnd, SelectorInv, StaleRemoveHarmless, IsAdd
  <1>3. AtMostOneHome'
    BY DEF IndInv, DrainEnd, taskVars, AtMostOneHome, InChan, InQueue, InWakers, IsAdd
  <1>4. NoLostTask'
    BY ConstantsAssumption DEF IndInv, DrainEnd, taskVars, NoLostTask,
       InChan, InQueue, InWakers, IsAdd, IoFds
  <1> QED BY <1>1, <1>2, <1>3, <1>4 DEF IndInv

-----------------------------------------------------------------------------
(* The theorems.                                                           *)

\* The initial states satisfy the invariant.
LEMMA InitIndInv == Init => IndInv
  <1> SUFFICES ASSUME Init PROVE IndInv
    OBVIOUS
  <1>1. /\ chan \in Seq(Tasks) /\ chan = <<Server>> /\ Len(chan) = 1 /\ chan[1] = Server
        /\ queue \in Seq(Ops) /\ Len(queue) = 0 /\ backlog \in Seq(Conns) /\ Len(backlog) = 0
    BY DEF Init, Tasks
  <1>2. TypeOK
    BY <1>1, ConstantsAssumption DEF Init, TypeOK, Tasks
  <1>3. ControlInv /\ FdInv /\ BacklogInv /\ QueueInv /\ SelectorInv
    BY <1>1, ConstantsAssumption
       DEF Init, ControlInv, FdInv, BacklogInv, QueueInv, SelectorInv, Tasks
  <1>4. AtMostOneHome /\ NoLostTask /\ StaleRemoveHarmless /\ SelectorNeverPanics
    BY <1>1, ConstantsAssumption
       DEF Init, AtMostOneHome, NoLostTask, StaleRemoveHarmless, SelectorNeverPanics,
           InChan, InQueue, InWakers, Tasks
  <1> QED BY <1>2, <1>3, <1>4 DEF IndInv

\* Every step keeps it: one case for each action.
LEMMA NextIndInv == IndInv /\ [Next]_vars => IndInv'
  <1> SUFFICES ASSUME IndInv, [Next]_vars PROVE IndInv'
    OBVIOUS
  <1>1. CASE Executor
    BY <1>1, RecvStep, ListenStep, AcceptStep, SpawnStep, AcceptWouldBlockStep, EchoLineStep,
       ReadClosedStep, ReadWouldBlockStep, RegisterStep, UnregisterStep, CloseStep DEF Executor
  <1>2. CASE Selector
    BY <1>2, SelectorStartStep, EpollWaitStep, DispatchFdStep, BeginDrainStep, AddEventStep,
       RmEventStep, DrainEndStep, BatchDoneStep DEF Selector
  <1>3. CASE Clients
    BY <1>3, ConnectStep, SendStep, PeerMoveStep DEF Clients
  <1>4. CASE UNCHANGED vars
    BY <1>4 DEF vars, taskVars, IndInv, TypeOK, ControlInv, FdInv, BacklogInv, QueueInv,
       SelectorInv, AtMostOneHome, NoLostTask, StaleRemoveHarmless, SelectorNeverPanics,
       InChan, InQueue, InWakers, IsAdd
  <1> QED BY <1>1, <1>2, <1>3, <1>4 DEF Next

\* The inductive invariant of the server, for every number of clients and
\* descriptors and every channel capacity: the types, and the agreement of
\* channel, request queue, waker map, interest list and descriptor table.
THEOREM ServerInvariant == Spec => []IndInv
  BY InitIndInv, NextIndInv, PTL DEF Spec

\* The unwrap, the assert and the epoll_ctl of the selector thread never panic.
THEOREM SelectorIsSafe == Spec => []SelectorNeverPanics
  <1>1. IndInv => SelectorNeverPanics
    BY DEF IndInv
  <1> QED BY <1>1, ServerInvariant, PTL

\* A task is in at most one place, so it is never polled for two wake-ups.
THEOREM OneHome == Spec => []AtMostOneHome
  <1>1. IndInv => AtMostOneHome
    BY DEF IndInv
  <1> QED BY <1>1, ServerInvariant, PTL

\* A live task is in at least one place, with somebody due to move it on.
THEOREM NothingIsLost == Spec => []NoLostTask
  <1>1. IndInv => NoLostTask
    BY DEF IndInv
  <1> QED BY <1>1, ServerInvariant, PTL

\* A request to remove a reused descriptor does not touch its new owner.
THEOREM StaleRemovesAreHarmless == Spec => []StaleRemoveHarmless
  <1>1. IndInv => StaleRemoveHarmless
    BY DEF IndInv
  <1> QED BY <1>1, ServerInvariant, PTL

\* The selector never waits for the eventfd while it holds the queue's mutex.
THEOREM DrainsEnd == Spec => []DrainNeverBlocks
  <1>1. IndInv => DrainNeverBlocks
    BY DEF IndInv, SelectorInv, DrainNeverBlocks
  <1> QED BY <1>1, ServerInvariant, PTL

\* A queue without repetition whose elements all have a slot of their own in a
\* finite set is no longer than the set.
LEMMA LengthBound ==
    ASSUME NEW S, IsFiniteSet(S), NEW n \in Nat, NEW slot \in [1 .. n -> S],
           \A i, j \in 1 .. n : slot[i] = slot[j] => i = j
    PROVE  n <= Cardinality(S)
  <1>1. IsFiniteSet(1 .. n) /\ Cardinality(1 .. n) = n
    BY FS_Interval
  <1>2. Cardinality(S) \in Nat
    BY FS_CardinalityType
  <1>3. CASE Cardinality(S) < n
    <2>1. \E i, j \in 1 .. n : i # j /\ slot[i] = slot[j]
      BY <1>1, <1>3, FS_PigeonHole
    <2> QED BY <2>1
  <1> QED BY <1>2, <1>3

\* Whatever the tasks in the channel read from, each reads from a descriptor of
\* its own, and so do the server while it spawns the owner of another one and
\* the task that the selector is about to wake: the channel has room for both.
LEMMA RoomForAll ==
    ASSUME IndInv, IsFiniteSet(Fds), Cap > Cardinality(Fds) PROVE SendsNeverBlock
  <1> DEFINE Slot(t) == IF t = Server THEN ListenFd ELSE fd[t]
             slot == [i \in 1 .. Len(chan) |-> Slot(chan[i])]
  <1>1. Len(chan) \in Nat /\ \A i \in 1 .. Len(chan) : chan[i] \in Tasks /\ task[chan[i]] = "live"
    BY DEF IndInv, TypeOK, AtMostOneHome, InChan
  <1>2. IsFiniteSet(IoFds) /\ Cardinality(IoFds) = Cardinality(Fds) + 1 /\ Cardinality(Fds) \in Nat
    BY FS_AddElement, FS_CardinalityType, ConstantsAssumption DEF IoFds
  <1>3. \A t \in Tasks : task[t] = "live" => Slot(t) \in IoFds
    BY ConstantsAssumption DEF IndInv, FdInv, Tasks, IoFds
  <1>4. \A t, u \in Tasks : task[t] = "live" /\ task[u] = "live" /\ Slot(t) = Slot(u) => t = u
    BY ConstantsAssumption DEF IndInv, FdInv, Tasks
  <1>5. slot \in [1 .. Len(chan) -> IoFds] /\ \A i, j \in 1 .. Len(chan) : slot[i] = slot[j] => i = j
    BY <1>1, <1>3, <1>4 DEF IndInv, AtMostOneHome
  <1>0. \A i \in 1 .. Len(chan) : slot[i] = Slot(chan[i])
    OBVIOUS
  <1> HIDE DEF slot
  <1>6. ASSUME NEW f \in IoFds, \A i \in 1 .. Len(chan) : slot[i] # f
        PROVE  Len(chan) < Cap
    <2>1. slot \in [1 .. Len(chan) -> IoFds \ {f}]
      BY <1>5, <1>6
    <2>2. IsFiniteSet(IoFds \ {f}) /\ Cardinality(IoFds \ {f}) = Cardinality(Fds)
      <3>1. IsFiniteSet(IoFds \ {f}) /\ Cardinality(IoFds \ {f}) = Cardinality(IoFds) - 1
        BY <1>2, FS_RemoveElement
      <3> QED BY <1>2, <3>1
    <2>3. Len(chan) <= Cardinality(Fds)
      BY <1>1, <1>5, <2>1, <2>2, LengthBound
    <2> QED BY <1>1, <1>2, <2>3, ConstantsAssumption
  <1>7. CASE epc = "spawn"
    <2>1. current = Server /\ Server \in Tasks
      BY <1>7 DEF IndInv, ControlInv, Tasks
    <2>2. \A i \in 1 .. Len(chan) : chan[i] # Server
      BY <2>1 DEF IndInv, AtMostOneHome, InChan
    <2>3. \A i \in 1 .. Len(chan) : slot[i] # ListenFd
      <3>1. ASSUME NEW t \in Tasks, task[t] = "live", t # Server PROVE Slot(t) # ListenFd
        BY <3>1, ConstantsAssumption DEF IndInv, FdInv, Tasks
      <3> HIDE DEF Slot
      <3> QED BY <1>0, <1>1, <2>2, <3>1
    <2>4. ListenFd \in IoFds
      BY DEF IoFds
    <2> QED BY <1>6, <2>3, <2>4 DEF SendsNeverBlock
  <1>8. CASE spc = "dispatch" /\ events \ {EventFd} # {}
    <2>1. PICK f \in IoFds : f \in events
      BY <1>8 DEF IndInv, TypeOK
    <2>2. wakers[f] \in Tasks /\ fd[wakers[f]] = f /\ InWakers(wakers[f])
      BY <2>1, ConstantsAssumption DEF IndInv, TypeOK, SelectorInv, AtMostOneHome, InWakers
    <2>3. \A i \in 1 .. Len(chan) : chan[i] # wakers[f]
      BY <2>2 DEF IndInv, AtMostOneHome, InChan
    <2>4. task[wakers[f]] = "live" /\ Slot(wakers[f]) = f
      BY <2>2, ConstantsAssumption DEF IndInv, AtMostOneHome, FdInv, Tasks, IoFds
    <2>5. \A i \in 1 .. Len(chan) : slot[i] # f
      <3> HIDE DEF Slot
      <3> QED BY <1>0, <1>1, <1>4, <2>2, <2>3, <2>4
    <2> QED BY <1>6, <2>5 DEF SendsNeverBlock
  <1> QED BY <1>7, <1>8 DEF SendsNeverBlock

\* Neither thread ever waits for room in the channel, as long as it holds more
\* tasks than the process can open descriptors for connections.
THEOREM ChannelHasRoom ==
    ASSUME IsFiniteSet(Fds), Cap > Cardinality(Fds) PROVE Spec => []SendsNeverBlock
  <1>1. IndInv => SendsNeverBlock
    BY RoomForAll
  <1> QED BY <1>1, ServerInvariant, PTL

-----------------------------------------------------------------------------
(* The clients' view, when every piece ends a line.                        *)

\* Numbers in order, e holds the first and r the next of the n there are.
InOrder(e, r, n) ==
    /\ n = Len(e) + Len(r)
    /\ \A i \in 1 .. Len(e) : e[i] = i
    /\ \A i \in 1 .. Len(r) : r[i] = Len(e) + i

\* The task of c has left its loop and has still to drop its reader and streams.
Ending(c) == current = c /\ epc \in {"unregister", "close"}

\* What came back to a client and what the server has still to read are, one
\* after the other, the lines it sent; and the task ends with nothing left to
\* read and a client that sends no more,
InLine(c) ==
    /\ InOrder(echoed[c], rx[c], nsent[c])
    /\ Ending(c) => peer[c] \in {"fin", "left", "gone"} /\ rx[c] = <<>>

\* unless it met a line that is not UTF-8, and threw away what was left.
GaveUp(c) ==
    /\ Ending(c) \/ task[c] = "done"
    /\ Len(echoed[c]) < nsent[c] /\ <<c, Len(echoed[c]) + 1>> \in Garbled

LineOrder(c) == InLine(c) \/ GaveUp(c)
LinesInv == \A c \in Conns : LineOrder(c)

\* A queue that is not empty has a first element.
LEMMA FirstFacts ==
    ASSUME NEW S, NEW s \in Seq(S), s # <<>>
    PROVE  Len(s) \in Nat /\ Len(s) > 0 /\ 1 \in DOMAIN s /\ 1 \in 1 .. Len(s) /\ s[1] \in S
  <1>1. Len(s) \in Nat /\ Len(s) > 0 /\ DOMAIN s = 1 .. Len(s)
    BY TailFacts
  <1> QED BY <1>1

\* One more line is sent, one comes back.
LEMMA OneMoreSent ==
    ASSUME NEW S, NEW e \in Seq(S), NEW r \in Seq(S), NEW n \in Nat, n + 1 \in S, InOrder(e, r, n)
    PROVE  InOrder(e, Append(r, n + 1), n + 1)
  <1>1. /\ Len(r) \in Nat /\ Len(e) \in Nat /\ Len(Append(r, n + 1)) = Len(r) + 1
        /\ \A i \in 1 .. Len(r) : Append(r, n + 1)[i] = r[i]
        /\ Append(r, n + 1)[Len(r) + 1] = n + 1
    BY AppendFacts
  <1> QED BY <1>1 DEF InOrder

LEMMA OneMoreBack ==
    ASSUME NEW S, NEW e \in Seq(S), NEW r \in Seq(S), NEW n \in Nat, r # <<>>, InOrder(e, r, n)
    PROVE  InOrder(Append(e, Len(e) + 1), Tail(r), n)
  <1>0. Len(e) \in Nat /\ Len(r) \in Nat /\ Len(r) > 0 /\ r[1] \in S /\ r[1] = Len(e) + 1
    <2>1. Len(r) \in Nat /\ Len(r) > 0 /\ 1 \in 1 .. Len(r) /\ r[1] \in S /\ Len(e) \in Nat
      BY FirstFacts
    <2> QED BY <2>1 DEF InOrder
  <1>1. /\ Len(Append(e, Len(e) + 1)) = Len(e) + 1
        /\ \A i \in 1 .. Len(e) : Append(e, Len(e) + 1)[i] = e[i]
        /\ Append(e, Len(e) + 1)[Len(e) + 1] = Len(e) + 1
    BY <1>0, AppendFacts
  <1>2. /\ Len(Tail(r)) = Len(r) - 1
        /\ \A i \in 1 .. Len(r) - 1 : Tail(r)[i] = r[i + 1]
    BY TailFacts
  <1>3. \A i \in 1 .. Len(r) - 1 : i + 1 \in 1 .. Len(r)
    BY <1>0
  <1> QED BY <1>0, <1>1, <1>2, <1>3 DEF InOrder

\* A reader that finds anything finds a line, its first piece.
LEMMA OnePieceLines ==
    ASSUME IndInv, Ends = 1 .. MaxPieces, NEW c \in Conns
    PROVE  /\ rx[c] \in Seq(1 .. MaxPieces) /\ echoed[c] \in Seq(1 .. MaxPieces)
           /\ Len(rx[c]) \in Nat /\ Len(echoed[c]) \in Nat
           /\ LineLength(c) = IF rx[c] = <<>> THEN 0 ELSE 1
  <1>1. /\ rx[c] \in Seq(1 .. MaxPieces) /\ echoed[c] \in Seq(1 .. MaxPieces)
        /\ Len(rx[c]) \in Nat /\ Len(echoed[c]) \in Nat /\ DOMAIN rx[c] = 1 .. Len(rx[c])
    BY DEF IndInv, TypeOK
  <1>2. CASE rx[c] = <<>>
    <2>1. ~HasLine(rx[c]) /\ Len(rx[c]) = 0
      BY <1>1, <1>2 DEF HasLine
    <2> QED BY <1>1, <1>2, <2>1 DEF LineLength
  <1>3. CASE rx[c] # <<>>
    <2>1. 1 \in DOMAIN rx[c] /\ rx[c][1] \in Ends
      BY <1>1, <1>3, FirstFacts
    <2>2. HasLine(rx[c])
      BY <2>1 DEF HasLine
    <2>3. FirstEnd(rx[c]) = 1
      <3>1. /\ FirstEnd(rx[c]) \in 1 .. Len(rx[c])
            /\ \A j \in 1 .. FirstEnd(rx[c]) - 1 : rx[c][j] \notin Ends
        BY <1>1, <2>2, FirstEndFacts
      <3> QED BY <1>1, <2>1, <3>1
    <2> QED BY <1>1, <1>3, <2>2, <2>3 DEF LineLength
  <1> QED BY <1>1, <1>2, <1>3

\* The first piece of a queue, and the others.
LEMMA OneAndRest ==
    ASSUME NEW S, NEW s \in Seq(S), s # <<>>
    PROVE  SubSeq(s, 1, 1) = <<s[1]>> /\ SubSeq(s, 2, Len(s)) = Tail(s)
  <1>1. Len(s) \in Nat /\ Len(s) > 0 /\ s[1] \in S
    BY TailFacts
  <1>2. SubSeq(s, 1, 1) = <<s[1]>> \o SubSeq(s, 2, 1)
    BY <1>1, SubSeqRecursiveFirst
  <1>3. SubSeq(s, 2, 1) = <<>>
    BY SubSeqEmpty
  <1>4. <<s[1]>> \o <<>> = <<s[1]>>
    BY <1>1
  <1> QED BY <1>2, <1>3, <1>4, TailIsSubSeq

\* The line that is echoed is the next one.
LEMMA EchoedLine ==
    ASSUME IndInv, Ends = 1 .. MaxPieces, NEW c \in Conns, InLine(c), rx[c] # <<>>
    PROVE  /\ LineLength(c) = 1 /\ rx[c][1] = Len(echoed[c]) + 1
           /\ echoed[c] \o SubSeq(rx[c], 1, 1) = Append(echoed[c], Len(echoed[c]) + 1)
           /\ AfterLine(c, 1) = Tail(rx[c])
           /\ Len(echoed[c]) < nsent[c]
           /\ LineHas(c, Long) <=> <<c, Len(echoed[c]) + 1>> \in Long
           /\ LineHas(c, Garbled) <=> <<c, Len(echoed[c]) + 1>> \in Garbled
  <1>1. /\ rx[c] \in Seq(1 .. MaxPieces) /\ echoed[c] \in Seq(1 .. MaxPieces)
        /\ LineLength(c) = 1 /\ Len(rx[c]) \in Nat /\ Len(rx[c]) > 0 /\ Len(echoed[c]) \in Nat
    BY OnePieceLines
  <1>2. SubSeq(rx[c], 1, 1) = <<rx[c][1]>> /\ SubSeq(rx[c], 2, Len(rx[c])) = Tail(rx[c])
    BY <1>1, OneAndRest
  <1>3. rx[c][1] = Len(echoed[c]) + 1
    BY <1>1, FirstFacts DEF InLine, InOrder
  <1>4. \A e \in 1 .. MaxPieces : echoed[c] \o <<e>> = Append(echoed[c], e)
    BY <1>1
  <1>5. rx[c][1] \in 1 .. MaxPieces
    BY <1>1, FirstFacts
  <1>6. Len(echoed[c]) < nsent[c]
    <2>1. nsent[c] = Len(echoed[c]) + Len(rx[c])
      BY DEF InLine, InOrder
    <2>2. \A a, b \in Nat : b > 0 => a < a + b
      OBVIOUS
    <2>3. Len(echoed[c]) < Len(echoed[c]) + Len(rx[c])
      BY <1>1, <2>2
    <2> QED BY <2>1, <2>3
  <1>7. /\ LineHas(c, Long) <=> <<c, Len(echoed[c]) + 1>> \in Long
        /\ LineHas(c, Garbled) <=> <<c, Len(echoed[c]) + 1>> \in Garbled
    <2>1. \A i : i \in 1 .. LineLength(c) <=> i = 1
      BY <1>1
    <2>2. <<c, rx[c][1]>> = <<c, Len(echoed[c]) + 1>>
      BY <1>3
    <2> QED BY <2>1, <2>2 DEF LineHas
  <1> QED BY <1>1, <1>2, <1>3, <1>4, <1>5, <1>6, <1>7 DEF AfterLine

\* One more line in front of the reader, one less.
LEMMA OrderKept ==
    ASSUME IndInv, LinesInv,
           UNCHANGED <<nsent, rx, echoed>>,
           \A c \in Conns : Ending(c) \/ task[c] = "done" => Ending(c)' \/ task'[c] = "done",
           \A c \in Conns : InLine(c) /\ Ending(c)' =>
               peer'[c] \in {"fin", "left", "gone"} /\ rx[c] = <<>>
    PROVE  LinesInv'
  <1> SUFFICES ASSUME NEW c \in Conns PROVE LineOrder(c)'
    BY DEF LinesInv
  <1>1. CASE InLine(c)
    <2>1. InLine(c)'
      BY <1>1 DEF InLine, InOrder
    <2> QED BY <2>1 DEF LineOrder
  <1>2. CASE GaveUp(c)
    <2>1. GaveUp(c)'
      BY <1>2 DEF GaveUp
    <2> QED BY <2>1 DEF LineOrder
  <1> QED BY <1>1, <1>2 DEF LinesInv, LineOrder

\* Whoever is polled is a client that connected, and is not done.
LEMMA PolledClient ==
    ASSUME IndInv, current \in Conns
    PROVE  /\ task[current] = "live" /\ peer[current] # "away" /\ fd[current] # NoFd
  BY ConstantsAssumption DEF IndInv, AtMostOneHome, BacklogInv, FdInv, Tasks

\* A client that is read has its lines in order.
LEMMA ReadInOrder ==
    ASSUME IndInv, LinesInv, current \in Conns, epc = "poll"
    PROVE  InLine(current)
  <1>1. LineOrder(current) /\ task[current] = "live" /\ ~Ending(current)
    BY PolledClient DEF LinesInv, Ending
  <1> QED BY <1>1 DEF LineOrder, GaveUp

\* Every step keeps the lines in order.
LEMMA NextLinesInv ==
    ASSUME IndInv, LinesInv, Ends = 1 .. MaxPieces, [Next]_vars PROVE LinesInv'
  <1> TypeOK
    BY DEF IndInv
  <1>1. ASSUME NEW c \in Conns, Send(c) PROVE LinesInv'
    <2>1. /\ peer[c] \in {"open", "stalled"} /\ nsent' = [nsent EXCEPT ![c] = @ + 1]
          /\ rx' = [rx EXCEPT ![c] = Append(@, nsent[c] + 1)] /\ nsent[c] + 1 \in 1 .. MaxPieces
          /\ UNCHANGED <<peer, echoed, current, epc, task>>
      BY <1>1, ConstantsAssumption DEF Send, taskVars, TypeOK
    <2>2. ASSUME NEW d \in Conns, d # c PROVE LineOrder(d)'
      <3>1. nsent'[d] = nsent[d] /\ rx'[d] = rx[d]
        BY <2>1, <2>2 DEF TypeOK
      <3> QED BY <2>1, <3>1 DEF LinesInv, LineOrder, InLine, GaveUp, Ending, InOrder
    <2>3. nsent'[c] = nsent[c] + 1 /\ rx'[c] = Append(rx[c], nsent[c] + 1) /\ echoed'[c] = echoed[c]
      BY <2>1 DEF TypeOK
    <2>4. /\ rx[c] \in Seq(1 .. MaxPieces) /\ echoed[c] \in Seq(1 .. MaxPieces) /\ nsent[c] \in Nat
          /\ Len(echoed[c]) \in Nat
      BY DEF TypeOK
    <2>5. ASSUME InLine(c) PROVE InLine(c)'
      <3>1. InOrder(echoed[c], Append(rx[c], nsent[c] + 1), nsent[c] + 1)
        BY <2>1, <2>4, <2>5, OneMoreSent DEF InLine
      <3>2. InOrder(echoed[c], rx[c], nsent[c])'
        BY <2>3, <3>1
      <3>3. ~Ending(c)'
        BY <2>1, <2>5 DEF InLine, Ending
      <3> QED BY <3>2, <3>3 DEF InLine
    <2>6. ASSUME GaveUp(c) PROVE GaveUp(c)'
      BY <2>1, <2>3, <2>4, <2>6 DEF GaveUp, Ending
    <2> QED BY <2>2, <2>5, <2>6 DEF LinesInv, LineOrder
  <1>2. CASE EchoLine
    <2>1. /\ current \in Conns /\ rx[current] # <<>> /\ epc = "poll" /\ current' = current
          /\ UNCHANGED <<peer, nsent, task>>
      BY <1>2, OnePieceLines DEF EchoLine
    <2>2. CASE UNCHANGED <<echoed, rx>> /\ epc' = "panic"
      BY <2>1, <2>2, OrderKept DEF Ending
    <2>3. ASSUME NEW n \in Written(current), UNCHANGED epc,
                 echoed' = [echoed EXCEPT ![current] = @ \o SubSeq(rx[current], 1, n)],
                 rx' = [rx EXCEPT ![current] = AfterLine(current, LineLength(current))]
          PROVE  LinesInv'
      <3> PICK c \in Conns : c = current
        BY <2>1
      <3>1. InLine(c)
        BY <2>1, ReadInOrder
      <3>2. echoed'[c] = Append(echoed[c], Len(echoed[c]) + 1) /\ rx'[c] = Tail(rx[c])
        <4>0. LineLength(c) = 1
          BY <2>1, <3>1, EchoedLine
        <4>1. n = 1 /\ LineLength(c) = 1
          BY <2>3, <4>0 DEF Written
        <4> QED BY <2>1, <2>3, <3>1, <4>1, EchoedLine DEF TypeOK
      <3>3. /\ rx[c] \in Seq(1 .. MaxPieces) /\ echoed[c] \in Seq(1 .. MaxPieces) /\ nsent[c] \in Nat
            /\ InOrder(echoed[c], rx[c], nsent[c]) /\ rx[c] # <<>>
        BY <2>1, <3>1 DEF TypeOK, InLine
      <3>4. InOrder(Append(echoed[c], Len(echoed[c]) + 1), Tail(rx[c]), nsent[c])
        BY <3>3, OneMoreBack
      <3>5. InOrder(echoed[c], rx[c], nsent[c])'
        BY <2>1, <3>2, <3>4
      <3>6. LineOrder(c)'
        BY <2>1, <2>3, <3>5 DEF LineOrder, InLine, Ending
      <3>7. ASSUME NEW d \in Conns, d # c PROVE LineOrder(d)'
        <4>1. nsent'[d] = nsent[d] /\ rx'[d] = rx[d] /\ echoed'[d] = echoed[d]
          BY <2>1, <2>3, <3>7 DEF TypeOK
        <4> QED BY <2>1, <2>3, <4>1 DEF LinesInv, LineOrder, InLine, GaveUp, Ending, InOrder
      <3> QED BY <3>6, <3>7 DEF LinesInv
    <2> QED BY <1>2, <2>2, <2>3 DEF EchoLine
  <1>3. CASE ReadClosed \/ ReadWouldBlock
    <2>1. /\ current \in Conns /\ rx' = [rx EXCEPT ![current] = <<>>] /\ epc = "poll"
          /\ current' = current /\ UNCHANGED <<peer, nsent, echoed, task>>
      BY <1>3 DEF ReadClosed, ReadWouldBlock, AfterWouldBlock
    <2>2. CASE rx[current] = <<>>
      <3>1. \/ epc' = "register"
            \/ epc' = "unregister" /\ peer[current] \in {"fin", "left", "gone"}
        <4>1. LineLength(current) = 0
          BY <2>1, <2>2, OnePieceLines
        <4> QED BY <1>3, <4>1 DEF ReadClosed, ReadWouldBlock, LineHas
      <3>2. rx' = rx
        BY <2>1, <2>2 DEF TypeOK
      <3> QED BY <2>1, <2>2, <3>1, <3>2, OrderKept DEF Ending
    <2>3. CASE rx[current] # <<>>
      <3> PICK c \in Conns : c = current
        BY <2>1
      <3>1. LineHas(c, Garbled) /\ epc' = "unregister"
        <4>1. LineLength(current) # 0
          BY <2>1, <2>3, OnePieceLines
        <4> QED BY <1>3, <4>1 DEF ReadClosed, ReadWouldBlock
      <3>2. <<c, Len(echoed[c]) + 1>> \in Garbled /\ Len(echoed[c]) < nsent[c]
        BY <2>1, <2>3, <3>1, ReadInOrder, EchoedLine
      <3>3. LineOrder(c)'
        BY <2>1, <3>1, <3>2 DEF LineOrder, GaveUp, Ending
      <3>4. ASSUME NEW d \in Conns, d # c PROVE LineOrder(d)'
        <4>1. nsent'[d] = nsent[d] /\ rx'[d] = rx[d] /\ echoed'[d] = echoed[d]
          BY <2>1, <3>4 DEF TypeOK
        <4> QED BY <2>1, <3>4, <4>1 DEF LinesInv, LineOrder, InLine, GaveUp, Ending, InOrder
      <3> QED BY <3>3, <3>4 DEF LinesInv
    <2> QED BY <2>2, <2>3
  <1>4. CASE Recv \/ Listen \/ Accept \/ Spawn \/ AcceptWouldBlock \/ Register \/ Unregister
    <2>1. /\ UNCHANGED <<peer, nsent, rx, echoed>>
          /\ \/ epc' \notin {"unregister", "close"} /\ epc \notin {"unregister", "close"}
             \/ epc = "unregister" /\ epc' = "close" /\ current' = current
          /\ \A c \in Conns : task[c] = "done" => task'[c] = "done"
      BY <1>4, ConstantsAssumption DEF Recv, Listen, Accept, Spawn, AcceptWouldBlock, Register,
         Unregister, TypeOK, Tasks
    <2>2. \A c \in Conns : Ending(c)' <=> Ending(c)
      BY <2>1 DEF Ending
    <2> QED BY <2>1, <2>2, OrderKept DEF InLine
  <1>5. CASE Close
    <2>1. /\ UNCHANGED <<peer, nsent, rx, echoed>> /\ epc' = "recv"
          /\ task' = [task EXCEPT ![current] = "done"]
      BY <1>5 DEF Close
    <2>2. ASSUME NEW c \in Conns, Ending(c) \/ task[c] = "done" PROVE task'[c] = "done"
      BY <2>1, <2>2 DEF Ending, TypeOK, Tasks
    <2>3. \A c \in Conns : ~Ending(c)'
      BY <2>1 DEF Ending
    <2> QED BY <2>1, <2>2, <2>3, OrderKept
  <1>6. CASE Selector \/ UNCHANGED vars
    <2>1. UNCHANGED <<peer, nsent, rx, echoed, current, epc, task>>
      BY <1>6 DEF vars, taskVars, Selector, SelectorStart, EpollWait, DispatchFd, BeginDrain,
         AddEvent, RmEvent, DrainEnd, BatchDone
    <2> QED BY <2>1, OrderKept DEF Ending, InLine
  <1>7. ASSUME NEW c \in Conns, Connect(c) \/ PeerMove(c) PROVE LinesInv'
    <2>1. /\ peer[c] \in {"away", "open", "stalled"}
          /\ UNCHANGED <<nsent, rx, echoed, current, epc, task>>
          /\ \A d \in Conns \ {c} : peer'[d] = peer[d]
      BY <1>7 DEF Connect, PeerMove, taskVars, TypeOK
    <2> QED BY <2>1, OrderKept DEF Ending, InLine
  <1> QED BY <1>1, <1>2, <1>3, <1>4, <1>5, <1>6, <1>7 DEF Next, Executor, Clients

\* Before anything happens.
LEMMA EchoInit == ASSUME Init PROVE Echo!Init /\ LinesInv
  <1>1. {c \in Conns : task[c] = "done"} = {}
    BY ConstantsAssumption DEF Init, Tasks
  <1>2. ~Crashed
    BY DEF Init, Crashed
  <1>3. LinesInv
    <2>1. \A c \in Conns : nsent[c] = 0 /\ echoed[c] = <<>> /\ rx[c] = <<>> /\ epc = "recv"
      BY DEF Init
    <2>2. InOrder(<<>>, <<>>, 0)
      BY DEF InOrder
    <2> QED BY <2>1, <2>2 DEF LinesInv, LineOrder, InLine, Ending
  <1> QED BY <1>1, <1>2, <1>3 DEF Init, Echo!Init

\* LineEcho counts as everybody does.
LEMMA SameCardinality == ASSUME NEW S PROVE Echo!Cardinality(S) = Cardinality(S)
  BY DEF Echo!Cardinality, Cardinality

\* The server runs out of descriptors only when it serves more clients than
\* there are: each descriptor is held by one of them, and one more is waiting.
LEMMA OutOfDescriptors ==
    ASSUME IndInv, IsFiniteSet(Conns), IsFiniteSet(Fds), backlog # <<>>, FreeFds = {}
    PROVE  Cardinality(Echo!Served) > Cardinality(Fds)
  <1> DEFINE b == Head(backlog)
             Owners == {c \in Conns : fd[c] # NoFd}
  <1>1. b \in Conns /\ task[b] = "none" /\ fd[b] = NoFd
    <2>1. backlog \in Seq(Conns) /\ b = backlog[1] /\ 1 \in 1 .. Len(backlog) /\ b \in Conns
      BY TailFacts, FirstFacts DEF IndInv, TypeOK
    <2> QED BY <2>1 DEF IndInv, BacklogInv
  <1>2. peer[b] # "away"
    <2>1. 1 \in 1 .. Len(backlog) /\ backlog[1] = b
      BY TailFacts, FirstFacts DEF IndInv, TypeOK
    <2> QED BY <1>1, <2>1 DEF IndInv, BacklogInv
  <1>3. Owners \cup {b} \subseteq Echo!Served
    BY <1>1, <1>2 DEF IndInv, BacklogInv, FdInv, Echo!Served
  <1>4. IsFiniteSet(Owners) /\ b \notin Owners /\ IsFiniteSet(Echo!Served)
    BY <1>1, FS_Subset DEF Echo!Served
  <1>5. Cardinality(Fds) <= Cardinality(Owners)
    <2> DEFINE own == [c \in Owners |-> fd[c]]
    <2>1. own \in Surjection(Owners, Fds)
      <3>1. \A c \in Owners : fd[c] \in Fds
        BY DEF IndInv, FdInv
      <3>2. \A f \in Fds : \E c \in Owners : fd[c] = f
        BY ConstantsAssumption DEF IndInv, FdInv, FreeFds, Tasks
      <3> QED BY <3>1, <3>2 DEF Surjection
    <2> HIDE DEF own, Owners
    <2> QED BY <1>4, <2>1, FS_Surjection
  <1>6. Cardinality(Owners \cup {b}) = Cardinality(Owners) + 1
    BY <1>4, FS_AddElement
  <1>7. Cardinality(Owners \cup {b}) <= Cardinality(Echo!Served)
    BY <1>3, <1>4, FS_Subset
  <1>8. Cardinality(Owners) \in Nat /\ Cardinality(Fds) \in Nat /\ Cardinality(Echo!Served) \in Nat
    BY <1>4, FS_CardinalityType
  <1> HIDE DEF Owners, b
  <1> QED BY <1>5, <1>6, <1>7, <1>8

\* A step that neither a client nor the abstract server sees.
LEMMA UnseenStep ==
    ASSUME ~Crashed, ~Crashed', UNCHANGED <<peer, nsent, echoed, cut>>,
           \A c \in Conns : task'[c] = "done" <=> task[c] = "done"
    PROVE  UNCHANGED Echo!evars
  <1>1. {c \in Conns : task'[c] = "done"} = {c \in Conns : task[c] = "done"}
    OBVIOUS
  <1> QED BY <1>1 DEF Echo!evars

\* The step that echoes a line, or meets a client that does not take it.
LEMMA EchoLineRefines ==
    ASSUME IndInv, LinesInv, Ends = 1 .. MaxPieces, ~Crashed, EchoLine
    PROVE  Echo!Next
  <1>1. /\ current \in Conns /\ rx[current] # <<>> /\ epc = "poll" /\ spc' = spc
        /\ UNCHANGED <<peer, nsent, task>>
    BY OnePieceLines DEF EchoLine, selVars
  <1>2. PICK c \in Conns : c = current
    BY <1>1
  <1>3. task[c] = "live" /\ peer[c] # "away" /\ InLine(c)
    BY <1>1, <1>2, PolledClient, ReadInOrder
  <1>4. /\ nsent[c] - Len(echoed[c]) > 0 /\ LineLength(c) = 1
        /\ <<c, Len(echoed[c]) + 1>> \notin Garbled
        /\ LineHas(c, Long) => <<c, Len(echoed[c]) + 1>> \in Long
        /\ rx[c][1] = Len(echoed[c]) + 1
        /\ echoed[c] \o SubSeq(rx[c], 1, 1) = Append(echoed[c], Len(echoed[c]) + 1)
    <2>1. Len(echoed[c]) \in Nat /\ nsent[c] \in Nat /\ ~LineHas(c, Garbled)
      BY <1>2, OnePieceLines DEF IndInv, TypeOK, EchoLine
    <2> QED BY <1>1, <1>2, <1>3, <2>1, EchoedLine
  <1>5. peer[c] \in {"open", "stalled", "fin", "left", "gone"}
    BY <1>3 DEF IndInv, TypeOK
  <1>6. CASE epc' = "panic"
    <2>1. "err" \in WriteResults(c) /\ UNCHANGED <<echoed, cut>>
      BY <1>1, <1>2, <1>6 DEF EchoLine
    <2>2. peer[c] \in {"stalled", "left", "gone"}
      BY <1>5, <2>1 DEF WriteResults
    <2>3. Crashed'
      BY <1>6 DEF Crashed
    <2>4. Echo!Stop
      BY <1>1, <1>3, <1>4, <2>1, <2>2, <2>3 DEF Echo!Stop, Echo!Owed, Echo!NextLine
    <2> QED BY <2>4 DEF Echo!Next
  <1>7. CASE epc' # "panic"
    <2>1. PICK n \in Written(c) :
            /\ "ok" \in WriteResults(c)
            /\ echoed' = [echoed EXCEPT ![c] = @ \o SubSeq(rx[c], 1, n)]
            /\ \/ UNCHANGED cut
               \/ LineHas(c, Long) /\ cut' = [cut EXCEPT ![c] = @ \cup {rx[c][n]}]
            /\ UNCHANGED epc
      BY <1>2, <1>7 DEF EchoLine
    <2>2. peer[c] \in {"open", "fin", "left"}
      BY <1>5, <2>1 DEF WriteResults
    <2>3. n = 1
      BY <1>4, <2>1 DEF Written
    <2>4. echoed' = [echoed EXCEPT ![c] = Append(@, Len(@) + 1)]
      BY <1>4, <2>1, <2>3 DEF IndInv, TypeOK
    <2>5. \/ UNCHANGED cut
          \/ <<c, Len(echoed[c]) + 1>> \in Long /\ cut' = [cut EXCEPT ![c] = @ \cup {Len(echoed[c]) + 1}]
      BY <1>4, <2>1, <2>3
    <2>6. ~Crashed'
      BY <1>1, <2>1 DEF Crashed
    <2>7. Echo!Echo(c)
      BY <1>1, <1>3, <1>4, <2>2, <2>4, <2>5, <2>6 DEF Echo!Echo, Echo!Owed, Echo!NextLine
    <2> QED BY <2>7 DEF Echo!Next
  <1> QED BY <1>6, <1>7

\* Every step of the threads and of the clients is one of LineEcho or unseen.
LEMMA EchoNext ==
    ASSUME IndInv, LinesInv, Ends = 1 .. MaxPieces, IsFiniteSet(Conns), IsFiniteSet(Fds), [Next]_vars
    PROVE  [Echo!Next]_Echo!evars
  <1> TypeOK
    BY DEF IndInv
  <1>a. spc' # "panic"
    BY NextIndInv DEF IndInv, SelectorNeverPanics
  <1>1. ASSUME NEW c \in Conns, Connect(c) \/ Send(c) \/ PeerMove(c), ~Crashed PROVE Echo!Next
    <2>1. UNCHANGED <<echoed, cut, task>> /\ Crashed' = Crashed
      BY <1>1 DEF Connect, Send, PeerMove, taskVars, Crashed
    <2>2. CASE Connect(c)
      <3>1. Echo!Become(c)
        BY <2>1, <2>2 DEF Connect, Echo!Become
      <3> QED BY <1>1, <3>1 DEF Echo!Next
    <2>3. CASE Send(c)
      <3>1. Echo!Send(c)
        BY <2>1, <2>3 DEF Send, Echo!Send
      <3> QED BY <1>1, <3>1 DEF Echo!Next
    <2>4. CASE PeerMove(c)
      <3>1. Echo!Become(c)
        BY <2>1, <2>4, ConstantsAssumption DEF PeerMove, Echo!Become
      <3> QED BY <1>1, <3>1 DEF Echo!Next
    <2> QED BY <1>1, <2>2, <2>3, <2>4
  <1>2. ASSUME Accept, ~Crashed PROVE [Echo!Next]_Echo!evars
    <2>1. UNCHANGED <<peer, nsent, echoed, cut, task, spc>> /\ backlog # <<>>
      BY <1>2 DEF Accept, selVars
    <2>2. CASE FreeFds = {}
      <3>1. Crashed'
        BY <1>2, <2>2 DEF Accept, Crashed
      <3>2. Echo!Stop
        <4>1. Cardinality(Echo!Served) > Cardinality(Fds)
          BY <2>1, <2>2, OutOfDescriptors
        <4> QED BY <2>1, <3>1, <4>1, SameCardinality DEF Echo!Stop
      <3> QED BY <1>2, <3>2 DEF Echo!Next
    <2>3. CASE FreeFds # {}
      <3>1. epc' = "spawn"
        BY <1>2, <2>3 DEF Accept
      <3> QED BY <1>2, <1>a, <2>1, <3>1, UnseenStep DEF Crashed
    <2> QED BY <2>2, <2>3
  <1>3. ASSUME Close, ~Crashed PROVE Echo!Next
    <2>1. /\ current \in Conns /\ task' = [task EXCEPT ![current] = "done"] /\ epc = "close"
          /\ epc' = "recv" /\ UNCHANGED <<peer, nsent, rx, echoed, cut>>
      BY <1>3 DEF Close, IndInv, ControlInv
    <2>2. PICK c \in Conns : c = current
      BY <2>1
    <2>3. \/ peer[c] \in {"fin", "left", "gone"} /\ nsent[c] - Len(echoed[c]) = 0
          \/ nsent[c] - Len(echoed[c]) > 0 /\ <<c, Len(echoed[c]) + 1>> \in Garbled
      <3>1. LineOrder(c) /\ Len(echoed[c]) \in Nat /\ nsent[c] \in Nat /\ Ending(c)
        BY <2>1, <2>2, OnePieceLines DEF LinesInv, TypeOK, Ending
      <3>2. CASE InLine(c)
        BY <3>1, <3>2 DEF InLine, InOrder
      <3>3. CASE GaveUp(c)
        BY <3>1, <3>3 DEF GaveUp
      <3> QED BY <3>1, <3>2, <3>3 DEF LineOrder
    <2>4. task[c] = "live"
      BY <2>1, <2>2, PolledClient
    <2>5. {d \in Conns : task'[d] = "done"} = {d \in Conns : task[d] = "done"} \cup {c}
      BY <2>1, <2>2 DEF TypeOK, Tasks
    <2>6. ~Crashed'
      BY <1>a, <2>1 DEF Crashed
    <2>7. Echo!Close(c)
      BY <1>3, <2>1, <2>3, <2>4, <2>5, <2>6 DEF Echo!Close, Echo!Owed, Echo!NextLine
    <2> QED BY <1>3, <2>7 DEF Echo!Next
  <1>4. ASSUME \/ Recv \/ Listen \/ Spawn \/ AcceptWouldBlock \/ ReadClosed \/ ReadWouldBlock
               \/ Register \/ Unregister \/ Selector, ~Crashed
        PROVE  UNCHANGED Echo!evars
    <2>1. UNCHANGED <<peer, nsent, echoed, cut>> /\ (epc' = epc \/ epc' # "panic")
      BY <1>4 DEF Recv, Listen, Spawn, AcceptWouldBlock, ReadClosed, ReadWouldBlock, Register,
         Unregister, Selector, SelectorStart, EpollWait, DispatchFd, BeginDrain, AddEvent,
         RmEvent, DrainEnd, BatchDone, taskVars
    <2>2. \A c \in Conns : task'[c] = "done" <=> task[c] = "done"
      BY <1>4 DEF Recv, Listen, Spawn, AcceptWouldBlock, ReadClosed, ReadWouldBlock, Register,
         Unregister, Selector, SelectorStart, EpollWait, DispatchFd, BeginDrain, AddEvent,
         RmEvent, DrainEnd, BatchDone, taskVars, TypeOK, Tasks
    <2> QED BY <1>4, <1>a, <2>1, <2>2, UnseenStep DEF Crashed
  <1>5. ASSUME UNCHANGED vars PROVE UNCHANGED Echo!evars
    BY <1>5 DEF vars, taskVars, Crashed, Echo!evars
  <1> QED BY <1>1, <1>2, <1>3, <1>4, <1>5, EchoLineRefines DEF Next, Executor, Clients

\* When every piece is a line, what the clients see is LineEcho without its
\* fairness: lines come back once each and in order, only a long one without its
\* end; a connection is closed after its last line was answered, or at a line
\* that is not UTF-8; and the server stops for no other reason than too many
\* connections or a client that does not take its line.
THEOREM LinesComeBack ==
    ASSUME Ends = 1 .. MaxPieces, IsFiniteSet(Conns), IsFiniteSet(Fds)
    PROVE  Spec => Echo!Steps
  <1>1. Init => LinesInv /\ Echo!Init
    BY EchoInit
  <1>2. IndInv /\ LinesInv /\ [Next]_vars => LinesInv'
    BY NextLinesInv
  <1>3. IndInv /\ LinesInv /\ [Next]_vars => [Echo!Next]_Echo!evars
    BY EchoNext
  <1> QED BY <1>1, <1>2, <1>3, ServerInvariant, PTL DEF Spec, Echo!Steps
=============================================================================
