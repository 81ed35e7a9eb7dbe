------------------------ MODULE ParkingServerProofs -------------------------
(***************************************************************************)
(* Proofs about ParkingServer for every number of workers, connections and  *)
(* pieces: IndInv is inductive, so no worker is deaf, parked workers are    *)
(* idle and what is decoded is a prefix of what was sent.                   *)
(***************************************************************************)
EXTENDS ParkingServer, SequenceLemmas

USE DEF clientVars, acceptorVars, parkVars, taskVars

\* A sequence over a set is one over every larger set.
LEMMA SeqMonotone ==
    ASSUME NEW S, NEW T, S \subseteq T, NEW s \in Seq(S)
    PROVE  s \in Seq(T)
  OBVIOUS

\* Appending to, and taking the head of, sequences over a set stays in the set.
LEMMA AppendIn ==
    ASSUME NEW S, NEW s \in Seq(S), NEW e \in S
    PROVE  Append(s, e) \in Seq(S)
  OBVIOUS

\* Head and tail of a sequence over a set stay in the set.
LEMMA HeadTailIn ==
    ASSUME NEW S, NEW s \in Seq(S), s # <<>>
    PROVE  Head(s) \in S /\ Tail(s) \in Seq(S)
  OBVIOUS

\* try_recv preserves the invariant.
LEMMA TryRecvStep ==
    ASSUME NEW w \in Worker, IndInv, TryRecv(w)
    PROVE  TypeOK' /\ ConnectedOnly' /\ (Hands /\ NoDeafWorker /\ ParkedIsIdle)' /\ DecodedIsPrefix'
  <1> TypeOK /\ ConnectedOnly
    BY DEF IndInv
  <1> DEFINE c == Head(chan[w])
             Dies == /\ wpc' = [wpc EXCEPT ![w] = "dead"]
                     /\ tpc' = Dropped(ToSet(chan[w]) \cup ToSet(polling[w]))
                     /\ chan' = [chan EXCEPT ![w] = <<>>]
                     /\ polling' = [polling EXCEPT ![w] = <<>>]
             Takes == /\ wpc' = [wpc EXCEPT ![w] = "poll"]
                      /\ tpc' = [tpc EXCEPT ![c] = "read"]
                      /\ chan' = [chan EXCEPT ![w] = Tail(@)]
                      /\ polling' = [polling EXCEPT ![w] = Append(@, c)]
  <1>0. Dies \/ Takes
    <2>1. CASE peer[c] = "gone"
      BY <2>1 DEF TryRecv
    <2>2. CASE peer[c] # "gone"
      BY <2>2 DEF TryRecv
    <2> QED BY <2>1, <2>2
  <1>1. /\ wpc[w] = "recv" /\ chan[w] # <<>> /\ c \in Conns
        /\ UNCHANGED <<clientVars, rx, backlog, acceptorVars, parkVars, cur, buf, got, slept>>
        /\ \A v \in Worker \ {w} : polling'[v] = polling[v] /\ wpc'[v] = wpc[v]
        /\ wpc'[w] \in {"dead", "poll"}
    <2>1. wpc[w] = "recv" /\ chan[w] # <<>>
          /\ UNCHANGED <<clientVars, rx, backlog, acceptorVars, parkVars, cur, buf, got, slept>>
      BY DEF TryRecv
    <2>2. c \in Conns
      BY <2>1, HeadTailIn DEF TypeOK
    <2>3. CASE Dies
      BY <2>1, <2>2, <2>3 DEF TypeOK
    <2>4. CASE Takes
      BY <2>1, <2>2, <2>4 DEF TypeOK
    <2> QED BY <1>0, <2>3, <2>4
  <1>2. /\ chan[w] \in Seq(Conns) /\ polling[w] \in Seq(Conns)
        /\ Tail(chan[w]) \in Seq(Conns) /\ Append(polling[w], c) \in Seq(Conns)
        /\ <<>> \in Seq(Conns)
    BY <1>1, HeadTailIn, AppendIn DEF TypeOK
  <1>3. chan' \in [Worker -> Seq(Conns)] /\ polling' \in [Worker -> Seq(Conns)]
    <2>1. CASE Dies
      BY <1>2, <2>1 DEF TypeOK
    <2>2. CASE Takes
      BY <1>2, <2>2 DEF TypeOK
    <2> QED BY <1>0, <2>1, <2>2
  <1>4. tpc' \in [Conns -> {"none", "read", "nap", "wait", "done", "dropped"}]
    <2>1. tpc \in [Conns -> {"none", "read", "nap", "wait", "done", "dropped"}]
      BY DEF TypeOK
    <2>2. CASE Dies
      BY <2>1, <2>2 DEF Dropped
    <2>3. CASE Takes
      <3>1. tpc' = [tpc EXCEPT ![c] = "read"]
        BY <2>3
      <3> QED BY <2>1, <3>1
    <2> QED BY <1>0, <2>2, <2>3
  <1>5. wpc' \in [Worker -> {"recv", "store", "park", "poll", "run", "dead"}]
    BY <1>0 DEF TypeOK
  <1>6. TypeOK'
    BY <1>1, <1>3, <1>4, <1>5 DEF TypeOK
  <1>7. /\ Connected' = Connected /\ Connected \subseteq Conns
        /\ chan[w] \in Seq(Connected) /\ polling[w] \in Seq(Connected)
    BY <1>1 DEF Connected, ConnectedOnly
  <1>8. /\ c \in Connected /\ Tail(chan[w]) \in Seq(Connected)
        /\ Append(polling[w], c) \in Seq(Connected) /\ <<>> \in Seq(Connected)
    BY <1>1, <1>7, HeadTailIn, AppendIn
  <1>9. ToSet(chan[w]) \cup ToSet(polling[w]) \subseteq Connected
    BY <1>7 DEF ToSet
  <1>10. chan' \in [Worker -> Seq(Connected)] /\ polling' \in [Worker -> Seq(Connected)]
    <2>1. CASE Dies
      BY <1>8, <2>1 DEF ConnectedOnly
    <2>2. CASE Takes
      BY <1>8, <2>2 DEF ConnectedOnly
    <2> QED BY <1>0, <2>1, <2>2
  <1>11. ASSUME NEW d \in Conns PROVE tpc'[d] \in {tpc[d], "dropped", "read"}
    <2>1. CASE Dies
      BY <2>1 DEF Dropped
    <2>2. CASE Takes
      <3>1. tpc' = [tpc EXCEPT ![c] = "read"]
        BY <2>2
      <3> QED BY <3>1 DEF TypeOK
    <2> QED BY <1>0, <2>1, <2>2
  <1>12. ASSUME NEW d \in Conns \ Connected PROVE tpc'[d] = tpc[d]
    <2>1. CASE Dies
      <3>1. d \notin ToSet(chan[w]) \cup ToSet(polling[w])
        BY <1>9
      <3>2. tpc' = Dropped(ToSet(chan[w]) \cup ToSet(polling[w]))
        BY <2>1
      <3> QED BY <3>1, <3>2 DEF Dropped
    <2>2. CASE Takes
      <3>1. tpc' = [tpc EXCEPT ![c] = "read"] /\ d # c
        BY <1>8, <2>2
      <3> QED BY <3>1 DEF TypeOK
    <2> QED BY <1>0, <2>1, <2>2
  <1>13. ConnectedOnly'
    BY <1>1, <1>7, <1>10, <1>12 DEF ConnectedOnly
  <1>14. (Hands /\ NoDeafWorker /\ ParkedIsIdle)'
    <2> Hands /\ NoDeafWorker /\ ParkedIsIdle
      BY DEF IndInv
    <2>1. Hands'
      BY <1>1 DEF Hands
    <2>2. NoDeafWorker'
      BY <1>1 DEF NoDeafWorker
    <2>3. ParkedIsIdle'
      BY <1>1 DEF ParkedIsIdle
    <2> QED BY <2>1, <2>2, <2>3
  <1>15. DecodedIsPrefix'
    BY <1>1, <1>11 DEF IndInv, DecodedIsPrefix
  <1> QED BY <1>6, <1>13, <1>14, <1>15

\* Every action preserves the type of the variables.
LEMMA TypeStep == IndInv /\ [Next]_vars => TypeOK'
  <1> SUFFICES ASSUME IndInv, [Next]_vars PROVE TypeOK'
    OBVIOUS
  <1>10. ASSUME NEW w \in Worker, TryRecv(w) PROVE TypeOK'
    BY <1>10, TryRecvStep
  <1>2. ASSUME NEW c \in Conns, Send(c) PROVE TypeOK'
    <2>1. TypeOK /\ DecodedIsPrefix
      BY DEF IndInv
    <2>2. nsent[c] \in Nat /\ rx[c] \in Nat /\ buf[c] \in Nat /\ Pieces \in Nat
      BY <2>1, ServerAssumption DEF TypeOK
    <2>3. buf[c] + rx[c] = nsent[c] /\ nsent[c] < Pieces
      BY <1>2, <2>1 DEF Send, DecodedIsPrefix
    <2>4. nsent[c] + 1 \in 0 .. Pieces /\ rx[c] + 1 \in 0 .. Pieces
      BY <2>2, <2>3
    <2>5. /\ nsent' = [nsent EXCEPT ![c] = nsent[c] + 1]
          /\ rx' = [rx EXCEPT ![c] = rx[c] + 1]
          /\ UNCHANGED <<peer, backlog, acceptorVars, chan, parkVars, wpc, cur, polling, taskVars>>
      BY <1>2 DEF Send
    <2>6. nsent' \in [Conns -> 0 .. Pieces] /\ rx' \in [Conns -> 0 .. Pieces]
      BY <2>1, <2>4, <2>5 DEF TypeOK
    <2> QED BY <2>1, <2>5, <2>6 DEF TypeOK, acceptorVars, parkVars, taskVars
  <1> USE ServerAssumption DEF IndInv, TypeOK
  <1>1. ASSUME NEW c \in Conns, Connect(c) PROVE TypeOK'
    BY <1>1, AppendIn, HeadTailIn DEF Connect
  <1>3. ASSUME NEW c \in Conns, End(c) PROVE TypeOK'
    <2>1. PICK e \in PeerEnds : peer' = [peer EXCEPT ![c] = e]
      BY <1>3 DEF End
    <2>2. e \in {"left", "gone"}
      OBVIOUS
    <2> QED BY <1>3, <2>1, <2>2 DEF End
  <1>4. ASSUME NEW c \in Conns, Tick(c) PROVE TypeOK'
    BY <1>4, AppendIn, HeadTailIn DEF Tick
  <1>5. ASSUME Accept PROVE TypeOK'
    BY <1>5, AppendIn, HeadTailIn DEF Accept
  <1>6. ASSUME SendToWorker PROVE TypeOK'
    <2>1. ahand \in Conns /\ chan[index] \in Seq(Conns)
      BY <1>6 DEF SendToWorker, Hands
    <2>2. Append(chan[index], ahand) \in Seq(Conns)
      BY <2>1, AppendIn
    <2>3. chan' = chan \/ chan' = [chan EXCEPT ![index] = Append(chan[index], ahand)]
      BY <1>6 DEF SendToWorker
    <2>4. tpc' = tpc \/ tpc' = [tpc EXCEPT ![ahand] = "dropped"]
      BY <1>6 DEF SendToWorker
    <2>5. chan' \in [Worker -> Seq(Conns)]
      BY <2>2, <2>3
    <2>6. tpc' \in [Conns -> {"none", "read", "nap", "wait", "done", "dropped"}]
      BY <2>1, <2>4
    <2> QED BY <1>6, <2>5, <2>6 DEF SendToWorker
  <1>7. ASSUME LoadFlag PROVE TypeOK'
    <2>1. NextIndex \in Worker
      BY DEF NextIndex, Worker
    <2> QED BY <1>7, <2>1 DEF LoadFlag
  <1>8. ASSUME ClearFlag PROVE TypeOK'
    BY <1>8, AppendIn, HeadTailIn DEF ClearFlag
  <1>9. ASSUME Unpark PROVE TypeOK'
    <2>1. NextIndex \in Worker
      BY DEF NextIndex, Worker
    <2> QED BY <1>9, <2>1 DEF Unpark
  <1>11. ASSUME NEW w \in Worker, TryRecvEmpty(w) PROVE TypeOK'
    BY <1>11, AppendIn, HeadTailIn DEF TryRecvEmpty
  <1>12. ASSUME NEW w \in Worker, StoreFlag(w) PROVE TypeOK'
    BY <1>12, AppendIn, HeadTailIn DEF StoreFlag
  <1>13. ASSUME NEW w \in Worker, Park(w) PROVE TypeOK'
    BY <1>13, AppendIn, HeadTailIn DEF Park
  <1>14. ASSUME NEW w \in Worker, SpuriousWake(w) PROVE TypeOK'
    BY <1>14, AppendIn, HeadTailIn DEF SpuriousWake
  <1>15. ASSUME NEW w \in Worker, PollEmpty(w) PROVE TypeOK'
    BY <1>15, AppendIn, HeadTailIn DEF PollEmpty
  <1>16. ASSUME NEW w \in Worker, PollTask(w) PROVE TypeOK'
    BY <1>16, AppendIn, HeadTailIn DEF PollTask
  <1>17. ASSUME NEW w \in Worker, ReadSome(w) PROVE TypeOK'
    <2>1. cur[w] \in Conns
      BY <1>17 DEF ReadSome, Running, Hands
    <2>2. buf[cur[w]] + rx[cur[w]] \in Nat /\ 0 \in 0 .. Pieces
      BY <2>1
    <2>3. buf' \in [Conns -> Nat] /\ rx' \in [Conns -> 0 .. Pieces]
      BY <1>17, <2>1, <2>2 DEF ReadSome
    <2> QED BY <1>17, <2>3 DEF ReadSome
  <1>18. ASSUME NEW w \in Worker, ReadNothing(w) PROVE TypeOK'
    <2>1. cur[w] \in Conns
      BY <1>18 DEF ReadNothing, Running, Hands
    <2>2. Append(polling[w], cur[w]) \in Seq(Conns)
      BY <2>1, AppendIn
    <2>3. /\ polling' \in [Worker -> Seq(Conns)] /\ cur' \in [Worker -> Conns \cup {NoConn}]
          /\ wpc' \in [Worker -> {"recv", "store", "park", "poll", "run", "dead"}]
      BY <1>18, <2>2 DEF ReadNothing, Pending
    <2> QED BY <1>18, <2>1, <2>3 DEF ReadNothing
  <1>19. ASSUME NEW w \in Worker, Decode(w) PROVE TypeOK'
    <2>1. cur[w] \in Conns
      BY <1>19 DEF Decode, Running, Hands
    <2>2. Append(polling[w], cur[w]) \in Seq(Conns)
      BY <2>1, AppendIn
    <2>3. /\ polling' \in [Worker -> Seq(Conns)] /\ cur' \in [Worker -> Conns \cup {NoConn}]
          /\ wpc' \in [Worker -> {"recv", "store", "park", "poll", "run", "dead"}]
      BY <1>19, <2>2 DEF Decode, Pending
    <2> QED BY <1>19, <2>1, <2>3 DEF Decode
  <1>20. ASSUME NEW w \in Worker, StillSleeping(w) PROVE TypeOK'
    <2>1. cur[w] \in Conns
      BY <1>20 DEF StillSleeping, Hands
    <2>2. Append(polling[w], cur[w]) \in Seq(Conns)
      BY <2>1, AppendIn
    <2>3. /\ polling' \in [Worker -> Seq(Conns)] /\ cur' \in [Worker -> Conns \cup {NoConn}]
          /\ wpc' \in [Worker -> {"recv", "store", "park", "poll", "run", "dead"}]
      BY <1>20, <2>2 DEF StillSleeping, Pending
    <2> QED BY <1>20, <2>1, <2>3 DEF StillSleeping
  <1>21. ASSUME NEW w \in Worker, NapOver(w) PROVE TypeOK'
    BY <1>21, AppendIn, HeadTailIn DEF NapOver, Running
  <1>22. ASSUME NEW w \in Worker, Reply(w) PROVE TypeOK'
    BY <1>22, AppendIn, HeadTailIn DEF Reply, Running
  <1>23. ASSUME UNCHANGED vars PROVE TypeOK'
    BY <1>23 DEF vars
  <1> QED
    BY <1>1, <1>2, <1>3, <1>4, <1>5, <1>6, <1>7, <1>8, <1>9, <1>10, <1>11, <1>12, <1>13, <1>14, <1>15, <1>16, <1>17, <1>18, <1>19, <1>20, <1>21, <1>22, <1>23
       DEF Next, Acceptor, WorkerStep

\* Only connected clients get into the server.
LEMMA ConnectedStep == IndInv /\ [Next]_vars => ConnectedOnly'
  <1> SUFFICES ASSUME IndInv, [Next]_vars PROVE ConnectedOnly'
    OBVIOUS
  <1>8. ASSUME NEW w \in Worker, TryRecv(w) PROVE ConnectedOnly'
    BY <1>8, TryRecvStep
  <1> USE ServerAssumption DEF IndInv
  <1>1. Connected \subseteq Conns /\ NoConn \notin Connected
    BY DEF Connected
  <1>2. ASSUME UNCHANGED peer PROVE Connected' = Connected
    BY <1>2 DEF Connected
  <1>3. ASSUME UNCHANGED <<peer, backlog, ahand, chan, polling, tpc>> PROVE ConnectedOnly'
    BY <1>2, <1>3 DEF ConnectedOnly
  <1>4. ASSUME NEW c \in Conns, Connect(c) PROVE ConnectedOnly'
    <2>1. Connected \subseteq Connected' /\ c \in Connected'
      BY <1>4 DEF Connect, Connected, TypeOK
    <2>2. \A s : s \in Seq(Connected) => s \in Seq(Connected')
      BY <2>1, SeqMonotone
    <2>3. backlog' \in Seq(Connected')
      BY <1>4, <2>1, <2>2, AppendIn DEF Connect, ConnectedOnly
    <2>4. chan' \in [Worker -> Seq(Connected')] /\ polling' \in [Worker -> Seq(Connected')]
      BY <1>4, <2>2 DEF Connect, ConnectedOnly
    <2> QED BY <1>4, <2>1, <2>3, <2>4 DEF Connect, ConnectedOnly
  <1>5. ASSUME NEW c \in Conns, End(c) PROVE ConnectedOnly'
    <2>1. Connected' = Connected
      BY <1>5 DEF End, Connected, TypeOK
    <2> QED BY <1>5, <2>1 DEF End, ConnectedOnly
  <1>6. CASE Accept
    BY <1>2, <1>6, HeadTailIn DEF Accept, ConnectedOnly
  <1>7. CASE SendToWorker
    <2>1. ahand \in Connected /\ index \in Worker /\ Connected' = Connected
      BY <1>1, <1>2, <1>7 DEF SendToWorker, Hands, ConnectedOnly, TypeOK
    <2>2. Append(chan[index], ahand) \in Seq(Connected)
      BY <2>1, AppendIn DEF ConnectedOnly
    <2>3. chan' \in [Worker -> Seq(Connected)]
      BY <1>7, <2>1, <2>2 DEF SendToWorker, ConnectedOnly
    <2>4. \A d \in Conns \ Connected : tpc'[d] = "none"
      BY <1>7, <2>1 DEF SendToWorker, ConnectedOnly, TypeOK
    <2> QED BY <1>7, <2>1, <2>3, <2>4 DEF SendToWorker, ConnectedOnly
  <1>9. ASSUME NEW w \in Worker, PollTask(w) PROVE ConnectedOnly'
    <2>1. Tail(polling[w]) \in Seq(Connected) /\ Connected' = Connected
      BY <1>2, <1>9, HeadTailIn DEF PollTask, ConnectedOnly
    <2> QED BY <1>9, <2>1 DEF PollTask, ConnectedOnly
  <1>10. ASSUME NEW w \in Worker, ReadNothing(w) \/ Decode(w) \/ StillSleeping(w) \/ NapOver(w) \/ Reply(w)
         PROVE  ConnectedOnly'
    <2>1. /\ cur[w] \in Conns /\ Connected' = Connected /\ tpc[cur[w]] # "none"
          /\ UNCHANGED <<backlog, ahand, chan>>
      BY <1>2, <1>10
         DEF ReadNothing, Decode, StillSleeping, NapOver, Reply, Running, Hands, TypeOK
    <2>2. cur[w] \in Connected
      BY <2>1 DEF ConnectedOnly
    <2>3. Append(polling[w], cur[w]) \in Seq(Connected)
      BY <2>2, AppendIn DEF ConnectedOnly
    <2>4. polling' \in [Worker -> Seq(Connected)]
      BY <1>10, <2>3
         DEF ReadNothing, Decode, StillSleeping, NapOver, Reply, Pending, ConnectedOnly
    <2>5. \A d \in Conns \ Connected : tpc'[d] = "none"
      BY <1>10, <2>2
         DEF ReadNothing, Decode, StillSleeping, NapOver, Reply, ConnectedOnly, TypeOK
    <2> QED BY <2>1, <2>4, <2>5 DEF ConnectedOnly
  <1>11. ASSUME NEW c \in Conns, Send(c) \/ Tick(c) PROVE ConnectedOnly'
    BY <1>3, <1>11 DEF Send, Tick
  <1>12. CASE LoadFlag \/ ClearFlag \/ Unpark \/ UNCHANGED vars
    BY <1>3, <1>12 DEF LoadFlag, ClearFlag, Unpark, vars
  <1>13. ASSUME NEW w \in Worker,
                TryRecvEmpty(w) \/ StoreFlag(w) \/ Park(w) \/ SpuriousWake(w) \/ PollEmpty(w) \/ ReadSome(w)
         PROVE  ConnectedOnly'
    BY <1>3, <1>13 DEF TryRecvEmpty, StoreFlag, Park, SpuriousWake, PollEmpty, ReadSome
  <1> QED
    BY <1>4, <1>5, <1>6, <1>7, <1>8, <1>9, <1>10, <1>11, <1>12, <1>13
       DEF Next, Acceptor, WorkerStep

\* Hands, parking and the flags: what worker and acceptor agree on.
LEMMA ParkStep == IndInv /\ [Next]_vars => (Hands /\ NoDeafWorker /\ ParkedIsIdle)'
  <1> SUFFICES ASSUME IndInv, [Next]_vars PROVE (Hands /\ NoDeafWorker /\ ParkedIsIdle)'
    OBVIOUS
  <1>10. ASSUME NEW w \in Worker, TryRecv(w) PROVE (Hands /\ NoDeafWorker /\ ParkedIsIdle)'
    BY <1>10, TryRecvStep
  <1> USE ServerAssumption DEF IndInv, TypeOK, Hands, NoDeafWorker, ParkedIsIdle
  <1>1. ASSUME NEW c \in Conns, Connect(c) PROVE (Hands /\ NoDeafWorker /\ ParkedIsIdle)'
    BY <1>1, AppendIn, HeadTailIn DEF Connect
  <1>2. ASSUME NEW c \in Conns, Send(c) PROVE (Hands /\ NoDeafWorker /\ ParkedIsIdle)'
    BY <1>2, AppendIn, HeadTailIn DEF Send
  <1>3. ASSUME NEW c \in Conns, End(c) PROVE (Hands /\ NoDeafWorker /\ ParkedIsIdle)'
    BY <1>3, AppendIn, HeadTailIn DEF End
  <1>4. ASSUME NEW c \in Conns, Tick(c) PROVE (Hands /\ NoDeafWorker /\ ParkedIsIdle)'
    BY <1>4, AppendIn, HeadTailIn DEF Tick
  <1>5. ASSUME Accept PROVE (Hands /\ NoDeafWorker /\ ParkedIsIdle)'
    BY <1>5, AppendIn, HeadTailIn DEF Accept
  <1>6. ASSUME SendToWorker PROVE (Hands /\ NoDeafWorker /\ ParkedIsIdle)'
    BY <1>6, AppendIn, HeadTailIn DEF SendToWorker
  <1>7. ASSUME LoadFlag PROVE (Hands /\ NoDeafWorker /\ ParkedIsIdle)'
    BY <1>7, AppendIn, HeadTailIn DEF LoadFlag, NextIndex
  <1>8. ASSUME ClearFlag PROVE (Hands /\ NoDeafWorker /\ ParkedIsIdle)'
    BY <1>8, AppendIn, HeadTailIn DEF ClearFlag
  <1>9. ASSUME Unpark PROVE (Hands /\ NoDeafWorker /\ ParkedIsIdle)'
    BY <1>9, AppendIn, HeadTailIn DEF Unpark, NextIndex
  <1>11. ASSUME NEW w \in Worker, TryRecvEmpty(w) PROVE (Hands /\ NoDeafWorker /\ ParkedIsIdle)'
    BY <1>11, AppendIn, HeadTailIn DEF TryRecvEmpty
  <1>12. ASSUME NEW w \in Worker, StoreFlag(w) PROVE (Hands /\ NoDeafWorker /\ ParkedIsIdle)'
    BY <1>12, AppendIn, HeadTailIn DEF StoreFlag
  <1>13. ASSUME NEW w \in Worker, Park(w) PROVE (Hands /\ NoDeafWorker /\ ParkedIsIdle)'
    BY <1>13, AppendIn, HeadTailIn DEF Park
  <1>14. ASSUME NEW w \in Worker, SpuriousWake(w) PROVE (Hands /\ NoDeafWorker /\ ParkedIsIdle)'
    BY <1>14, AppendIn, HeadTailIn DEF SpuriousWake
  <1>15. ASSUME NEW w \in Worker, PollEmpty(w) PROVE (Hands /\ NoDeafWorker /\ ParkedIsIdle)'
    BY <1>15, AppendIn, HeadTailIn DEF PollEmpty
  <1>16. ASSUME NEW w \in Worker, PollTask(w) PROVE (Hands /\ NoDeafWorker /\ ParkedIsIdle)'
    <2>1. Head(polling[w]) \in Conns
      BY <1>16, HeadTailIn DEF PollTask
    <2>2. Hands'
      BY <1>16, <2>1 DEF PollTask
    <2>3. NoDeafWorker'
      BY <1>16 DEF PollTask
    <2>4. ParkedIsIdle'
      <3>1. /\ \A v \in Worker : v # w => wpc'[v] = wpc[v] /\ polling'[v] = polling[v] /\ cur'[v] = cur[v]
            /\ wpc'[w] = "run"
        BY <1>16 DEF PollTask
      <3> QED BY <3>1
    <2> QED BY <2>2, <2>3, <2>4
  <1>17. ASSUME NEW w \in Worker, ReadSome(w) PROVE (Hands /\ NoDeafWorker /\ ParkedIsIdle)'
    BY <1>17, AppendIn, HeadTailIn DEF ReadSome, Running
  <1>18. ASSUME NEW w \in Worker, ReadNothing(w) PROVE (Hands /\ NoDeafWorker /\ ParkedIsIdle)'
    BY <1>18, AppendIn, HeadTailIn DEF ReadNothing, Running, Pending
  <1>19. ASSUME NEW w \in Worker, Decode(w) PROVE (Hands /\ NoDeafWorker /\ ParkedIsIdle)'
    BY <1>19, AppendIn, HeadTailIn DEF Decode, Running, Pending
  <1>20. ASSUME NEW w \in Worker, StillSleeping(w) PROVE (Hands /\ NoDeafWorker /\ ParkedIsIdle)'
    BY <1>20, AppendIn, HeadTailIn DEF StillSleeping, Pending
  <1>21. ASSUME NEW w \in Worker, NapOver(w) PROVE (Hands /\ NoDeafWorker /\ ParkedIsIdle)'
    BY <1>21, AppendIn, HeadTailIn DEF NapOver, Running
  <1>22. ASSUME NEW w \in Worker, Reply(w) PROVE (Hands /\ NoDeafWorker /\ ParkedIsIdle)'
    BY <1>22, AppendIn, HeadTailIn DEF Reply, Running
  <1>23. ASSUME UNCHANGED vars PROVE (Hands /\ NoDeafWorker /\ ParkedIsIdle)'
    BY <1>23 DEF vars
  <1> QED
    BY <1>1, <1>2, <1>3, <1>4, <1>5, <1>6, <1>7, <1>8, <1>9, <1>10, <1>11, <1>12, <1>13, <1>14, <1>15, <1>16, <1>17, <1>18, <1>19, <1>20, <1>21, <1>22, <1>23
       DEF Next, Acceptor, WorkerStep

\* No piece is lost or counted twice.
LEMMA DecodeStep == IndInv /\ [Next]_vars => DecodedIsPrefix'
  <1> SUFFICES ASSUME IndInv, [Next]_vars PROVE DecodedIsPrefix'
    OBVIOUS
  <1>10. ASSUME NEW w \in Worker, TryRecv(w) PROVE DecodedIsPrefix'
    BY <1>10, TryRecvStep
  <1> USE ServerAssumption DEF IndInv, TypeOK, ConnectedOnly, Connected, DecodedIsPrefix
  <1>1. ASSUME NEW c \in Conns, Connect(c) PROVE DecodedIsPrefix'
    BY <1>1, AppendIn, HeadTailIn DEF Connect, Hands
  <1>2. ASSUME NEW c \in Conns, Send(c) PROVE DecodedIsPrefix'
    <2>1. nsent'[c] = nsent[c] + 1 /\ rx'[c] = rx[c] + 1 /\ peer[c] = "open"
      BY <1>2 DEF Send
    <2>2. \A d \in Conns \ {c} : nsent'[d] = nsent[d] /\ rx'[d] = rx[d]
      BY <1>2 DEF Send
    <2>3. ASSUME NEW d \in Conns PROVE buf'[d] + rx'[d] = nsent'[d]
      BY <1>2, <2>1, <2>2 DEF Send
    <2> QED BY <1>2, <2>3 DEF Send
  <1>3. ASSUME NEW c \in Conns, End(c) PROVE DecodedIsPrefix'
    BY <1>3, AppendIn, HeadTailIn DEF End, Hands
  <1>4. ASSUME NEW c \in Conns, Tick(c) PROVE DecodedIsPrefix'
    BY <1>4, AppendIn, HeadTailIn DEF Tick, Hands
  <1>5. ASSUME Accept PROVE DecodedIsPrefix'
    BY <1>5, AppendIn, HeadTailIn DEF Accept, Hands
  <1>6. ASSUME SendToWorker PROVE DecodedIsPrefix'
    BY <1>6, AppendIn, HeadTailIn DEF SendToWorker, Hands
  <1>7. ASSUME LoadFlag PROVE DecodedIsPrefix'
    BY <1>7, AppendIn, HeadTailIn DEF LoadFlag, NextIndex, Hands
  <1>8. ASSUME ClearFlag PROVE DecodedIsPrefix'
    BY <1>8, AppendIn, HeadTailIn DEF ClearFlag, Hands
  <1>9. ASSUME Unpark PROVE DecodedIsPrefix'
    BY <1>9, AppendIn, HeadTailIn DEF Unpark, NextIndex, Hands
  <1>11. ASSUME NEW w \in Worker, TryRecvEmpty(w) PROVE DecodedIsPrefix'
    BY <1>11, AppendIn, HeadTailIn DEF TryRecvEmpty, Hands
  <1>12. ASSUME NEW w \in Worker, StoreFlag(w) PROVE DecodedIsPrefix'
    BY <1>12, AppendIn, HeadTailIn DEF StoreFlag, Hands
  <1>13. ASSUME NEW w \in Worker, Park(w) PROVE DecodedIsPrefix'
    BY <1>13, AppendIn, HeadTailIn DEF Park, Hands
  <1>14. ASSUME NEW w \in Worker, SpuriousWake(w) PROVE DecodedIsPrefix'
    BY <1>14, AppendIn, HeadTailIn DEF SpuriousWake, Hands
  <1>15. ASSUME NEW w \in Worker, PollEmpty(w) PROVE DecodedIsPrefix'
    BY <1>15, AppendIn, HeadTailIn DEF PollEmpty, Hands
  <1>16. ASSUME NEW w \in Worker, PollTask(w) PROVE DecodedIsPrefix'
    BY <1>16, AppendIn, HeadTailIn DEF PollTask, Hands
  <1>17. ASSUME NEW w \in Worker, ReadSome(w) PROVE DecodedIsPrefix'
    <2>1. cur[w] \in Conns /\ tpc[cur[w]] = "read"
      BY <1>17 DEF ReadSome, Running, Hands
    <2>2. buf'[cur[w]] = buf[cur[w]] + rx[cur[w]] /\ rx'[cur[w]] = 0
      BY <1>17, <2>1 DEF ReadSome
    <2>3. \A d \in Conns \ {cur[w]} : buf'[d] = buf[d] /\ rx'[d] = rx[d]
      BY <1>17 DEF ReadSome
    <2>4. ASSUME NEW d \in Conns PROVE buf'[d] + rx'[d] = nsent'[d]
      BY <1>17, <2>1, <2>2, <2>3 DEF ReadSome
    <2> QED BY <1>17, <2>1, <2>3, <2>4 DEF ReadSome
  <1>18. ASSUME NEW w \in Worker, ReadNothing(w) PROVE DecodedIsPrefix'
    BY <1>18, AppendIn, HeadTailIn DEF ReadNothing, Running, Pending, Hands
  <1>19. ASSUME NEW w \in Worker, Decode(w) PROVE DecodedIsPrefix'
    <2>1. cur[w] \in Conns
      BY <1>19 DEF Decode, Running, Hands
    <2>2. /\ got'[cur[w]] = buf[cur[w]]
          /\ peer[cur[w]] # "open" \/ buf[cur[w]] > 0
      BY <1>19, <2>1 DEF Decode
    <2>3. \A d \in Conns \ {cur[w]} : got'[d] = got[d] /\ tpc'[d] = tpc[d]
      BY <1>19 DEF Decode
    <2> QED BY <1>19, <2>1, <2>2, <2>3 DEF Decode
  <1>20. ASSUME NEW w \in Worker, StillSleeping(w) PROVE DecodedIsPrefix'
    BY <1>20, AppendIn, HeadTailIn DEF StillSleeping, Pending, Hands
  <1>21. ASSUME NEW w \in Worker, NapOver(w) PROVE DecodedIsPrefix'
    BY <1>21, AppendIn, HeadTailIn DEF NapOver, Running, Hands
  <1>22. ASSUME NEW w \in Worker, Reply(w) PROVE DecodedIsPrefix'
    BY <1>22, AppendIn, HeadTailIn DEF Reply, Running, Hands
  <1>23. ASSUME UNCHANGED vars PROVE DecodedIsPrefix'
    BY <1>23 DEF vars, Hands
  <1> QED
    BY <1>1, <1>2, <1>3, <1>4, <1>5, <1>6, <1>7, <1>8, <1>9, <1>10, <1>11, <1>12, <1>13, <1>14, <1>15, <1>16, <1>17, <1>18, <1>19, <1>20, <1>21, <1>22, <1>23
       DEF Next, Acceptor, WorkerStep

\* The invariant of the server: types, who may be where, the agreement on the
\* parking, and the pieces of every request, in every reachable state.
THEOREM ServerInvariant == Spec => []IndInv
  <1>1. ASSUME Init PROVE IndInv
    <2>1. 0 \in Worker /\ 0 \in 0 .. Pieces
      BY ServerAssumption DEF Worker
    <2>2. TypeOK
      BY <1>1, <2>1 DEF Init, TypeOK
    <2>3. ConnectedOnly /\ Hands /\ NoDeafWorker /\ ParkedIsIdle /\ DecodedIsPrefix
      BY <1>1, ServerAssumption
         DEF Init, ConnectedOnly, Hands, NoDeafWorker, ParkedIsIdle, DecodedIsPrefix
    <2> QED BY <2>2, <2>3 DEF IndInv
  <1>2. IndInv /\ [Next]_vars => IndInv'
    BY TypeStep, ConnectedStep, ParkStep, DecodeStep DEF IndInv
  <1> QED BY <1>1, <1>2, PTL DEF Spec

\* The acceptor can wake every parked worker (server/src/main.rs 30-31, 105-107).
THEOREM WorkersCanBeWoken == Spec => []NoDeafWorker
  <1>1. IndInv => NoDeafWorker
    BY DEF IndInv
  <1> QED BY <1>1, ServerInvariant, PTL

\* Only a worker whose executor is empty parks (server/src/main.rs 28-31).
THEOREM OnlyIdleWorkersPark == Spec => []ParkedIsIdle
  <1>1. IndInv => ParkedIsIdle
    BY DEF IndInv
  <1> QED BY <1>1, ServerInvariant, PTL

\* What handle_client decodes is what the client sent so far.
THEOREM PiecesAreKept == Spec => []DecodedIsPrefix
  <1>1. IndInv => DecodedIsPrefix
    BY DEF IndInv
  <1> QED BY <1>1, ServerInvariant, PTL

-----------------------------------------------------------------------------
(* Lines: every connection is in one place.                                *)

\* The lines by name, before and after a step.
LEMMA LineFacts ==
    /\ <<"backlog", 0>> \in Spots /\ Line(<<"backlog", 0>>) = backlog
    /\ <<"hand", 0>> \in Spots /\ Line(<<"hand", 0>>) = InHand(ahand)
    /\ \A w \in Worker : /\ <<"chan", w>> \in Spots /\ Line(<<"chan", w>>) = chan[w]
                         /\ <<"polling", w>> \in Spots /\ Line(<<"polling", w>>) = polling[w]
                         /\ <<"cur", w>> \in Spots /\ Line(<<"cur", w>>) = InHand(cur[w])
    /\ Line(<<"backlog", 0>>)' = backlog' /\ Line(<<"hand", 0>>)' = InHand(ahand)'
    /\ \A w \in Worker : /\ Line(<<"chan", w>>)' = chan'[w]
                         /\ Line(<<"polling", w>>)' = polling'[w]
                         /\ Line(<<"cur", w>>)' = InHand(cur[w])'
    /\ \A p \in Spots : \/ p = <<"backlog", 0>> \/ p = <<"hand", 0>>
                        \/ \E w \in Worker : p \in {<<"chan", w>>, <<"polling", w>>, <<"cur", w>>}
  BY DEF Spots, Line

\* What is in a hand.
LEMMA HandFacts ==
    /\ \A c \in Conns : InHand(c) = <<c>> /\ InHand(c) = Append(<<>>, c)
    /\ \A c \in Conns : InHand(c) # <<>> /\ Head(InHand(c)) = c /\ Tail(InHand(c)) = <<>>
    /\ \A c \in Conns : ToSet(InHand(c)) = {c}
    /\ InHand(NoConn) = <<>>
  <1>1. ASSUME NEW c \in Conns PROVE ToSet(<<c>>) = {c}
    <2>1. DOMAIN <<c>> = {1} /\ <<c>>[1] = c
      OBVIOUS
    <2> QED BY <2>1 DEF ToSet
  <1>2. \A c \in Conns : InHand(c) = <<c>>
    BY ServerAssumption DEF InHand
  <1>3. \A c \in Conns : <<c>> = Append(<<>>, c) /\ <<c>> # <<>> /\ Head(<<c>>) = c /\ Tail(<<c>>) = <<>>
    OBVIOUS
  <1>4. InHand(NoConn) = <<>>
    BY DEF InHand
  <1> QED BY <1>1, <1>2, <1>3, <1>4

LEMMA LineType == ASSUME TypeOK, NEW p \in Spots PROVE Line(p) \in Seq(Conns)
  <1>1. \A c \in Conns \cup {NoConn} : InHand(c) \in Seq(Conns)
    BY DEF InHand
  <1>2. CASE p = <<"backlog", 0>> \/ p = <<"hand", 0>>
    BY <1>1, <1>2, LineFacts DEF TypeOK
  <1>3. ASSUME NEW w \in Worker, p \in {<<"chan", w>>, <<"polling", w>>, <<"cur", w>>}
        PROVE  Line(p) \in Seq(Conns)
    <2>1. chan[w] \in Seq(Conns) /\ polling[w] \in Seq(Conns) /\ InHand(cur[w]) \in Seq(Conns)
      BY <1>1 DEF TypeOK
    <2> QED BY <1>3, <2>1, LineFacts
  <1> QED BY <1>2, <1>3, LineFacts

\* All lines but those of P are as they were.
Still(P) == \A p \in Spots \ P : Line(p)' = Line(p)

\* A step that moves nobody.
LEMMA LinesStay == ASSUME LinesApart, Still({}), Live' = Live PROVE LinesApart'
  <1>1. \A p \in Spots : Line(p)' = Line(p)
    BY DEF Still
  <1>2. UNION {ToSet(Line(p)') : p \in Spots} = Live'
    BY <1>1 DEF LinesApart
  <1>3. \A p \in Spots : (\A i, j \in 1 .. Len(Line(p)) : Line(p)[i] = Line(p)[j] => i = j)'
    BY <1>1 DEF LinesApart
  <1>4. \A p, q \in Spots : (ToSet(Line(p)) \cap ToSet(Line(q)) # {} => p = q)'
    BY <1>1 DEF LinesApart
  <1> QED BY <1>2, <1>3, <1>4 DEF LinesApart, Spots

\* The first of a line goes to the end of another.
LEMMA LinesMove ==
    ASSUME TypeOK, LinesApart, NEW p \in Spots, NEW q \in Spots, p # q, Still({p, q}), Live' = Live,
           Line(p) # <<>>, Line(p)' = Tail(Line(p)), Line(q)' = Append(Line(q), Head(Line(p)))
    PROVE  LinesApart'
  <1> DEFINE c == Head(Line(p))
             In(r) == ToSet(Line(r))
  <1>1. Line(p) \in Seq(Conns) /\ Line(q) \in Seq(Conns)
    BY LineType
  <1>2. c \in Conns /\ In(p) = ToSet(Line(p)') \cup {c} /\ Line(p)' \in Seq(Conns)
    BY <1>1, TailElements
  <1>3. ToSet(Line(q)') = In(q) \cup {c}
    BY <1>1, <1>2, AppendElements
  <1>4. /\ \A i, j \in 1 .. Len(Line(p)') : Line(p)'[i] = Line(p)'[j] => i = j
        /\ c \notin ToSet(Line(p)')
    <2>1. \A i, j \in 1 .. Len(Line(p)) : Line(p)[i] = Line(p)[j] => i = j
      BY DEF LinesApart
    <2> QED BY <1>1, <2>1, PopOnce
  <1>5. c \in In(p) /\ \A r \in Spots : r # p => c \notin In(r)
    BY <1>2 DEF LinesApart
  <1>6. \A i, j \in 1 .. Len(Line(q)') : Line(q)'[i] = Line(q)'[j] => i = j
    <2>1. \A i, j \in 1 .. Len(Line(q)) : Line(q)[i] = Line(q)[j] => i = j
      BY DEF LinesApart
    <2>2. c \notin ToSet(Line(q))
      BY <1>5
    <2> HIDE DEF c
    <2> QED BY <1>1, <1>2, <2>1, <2>2, PushOnce DEF c
  <1>7. \A r \in Spots \ {p, q} : Line(r)' = Line(r)
    BY DEF Still
  <1>8. ToSet(Line(p)') = In(p) \ {c}
    BY <1>2, <1>4
  <1>9. \A r \in Spots : \A i, j \in 1 .. Len(Line(r)') : Line(r)'[i] = Line(r)'[j] => i = j
    BY <1>4, <1>6, <1>7 DEF LinesApart
  <1>10. \A r, s \in Spots : ToSet(Line(r)') \cap ToSet(Line(s)') # {} => r = s
    <2>1. \A r, s \in Spots : In(r) \cap In(s) # {} => r = s
      BY DEF LinesApart
    <2>2. \A r \in Spots \ {p, q} : ToSet(Line(r)') = In(r)
      BY <1>7
    <2> HIDE DEF In, c
    <2>3. \A r \in Spots \ {q} : ToSet(Line(r)') \subseteq In(r) /\ c \notin ToSet(Line(r)')
      BY <1>5, <1>8, <2>2
    <2>4. ASSUME NEW r \in Spots, NEW s \in Spots,
                 NEW x, x \in ToSet(Line(r)'), x \in ToSet(Line(s)')
          PROVE  r = s
      <3>1. CASE r # q /\ s # q
        BY <2>1, <2>3, <2>4, <3>1
      <3>2. CASE r = q /\ s # q
        <4>1. x \in In(s) /\ x # c
          BY <2>3, <2>4, <3>2
        <4>2. x \in In(q)
          BY <1>3, <2>4, <3>2, <4>1
        <4> QED BY <2>1, <3>2, <4>1, <4>2
      <3>3. CASE r # q /\ s = q
        <4>1. x \in In(r) /\ x # c
          BY <2>3, <2>4, <3>3
        <4>2. x \in In(q)
          BY <1>3, <2>4, <3>3, <4>1
        <4> QED BY <2>1, <3>3, <4>1, <4>2
      <3> QED BY <3>1, <3>2, <3>3
    <2> QED BY <2>4
  <1>11. UNION {ToSet(Line(r)') : r \in Spots} = Live'
    <2>1. UNION {In(r) : r \in Spots} = Live
      BY DEF LinesApart
    <2>2. \A r \in Spots \ {p, q} : ToSet(Line(r)') = In(r)
      BY <1>7
    <2> HIDE DEF In, c
    <2>3. ASSUME NEW x PROVE (\E r \in Spots : x \in ToSet(Line(r)')) <=> (\E r \in Spots : x \in In(r))
      BY <1>3, <1>5, <1>8, <2>2
    <2>4. UNION {ToSet(Line(r)') : r \in Spots} = UNION {In(r) : r \in Spots}
      BY <2>3
    <2> QED BY <2>1, <2>4
  <1> QED BY <1>9, <1>10, <1>11 DEF LinesApart, Spots

\* A connection comes to the end of a line.
LEMMA LinesGrow ==
    ASSUME TypeOK, LinesApart, NEW p \in Spots, Still({p}), NEW c \in Conns, c \notin Live,
           Line(p)' = Append(Line(p), c), Live' = Live \cup {c}
    PROVE  LinesApart'
  <1>1. Line(p) \in Seq(Conns) /\ \A r \in Spots : c \notin ToSet(Line(r))
    BY LineType DEF LinesApart
  <1>2. ToSet(Line(p)') = ToSet(Line(p)) \cup {c}
    BY <1>1, AppendElements
  <1>3. \A r \in Spots \ {p} : Line(r)' = Line(r)
    BY DEF Still
  <1>4. \A i, j \in 1 .. Len(Line(p)') : Line(p)'[i] = Line(p)'[j] => i = j
    <2>1. \A i, j \in 1 .. Len(Line(p)) : Line(p)[i] = Line(p)[j] => i = j
      BY DEF LinesApart
    <2> QED BY <1>1, <2>1, PushOnce
  <1>5. \A r \in Spots : \A i, j \in 1 .. Len(Line(r)') : Line(r)'[i] = Line(r)'[j] => i = j
    BY <1>3, <1>4 DEF LinesApart
  <1>8. ASSUME NEW r \in Spots, NEW x, x # c
        PROVE  x \in ToSet(Line(r)') <=> x \in ToSet(Line(r))
    <2>1. CASE r = p
      BY <1>2, <1>8, <2>1
    <2>2. CASE r # p
      <3>1. Line(r)' = Line(r)
        BY <1>3, <2>2
      <3> QED BY <3>1
    <2> QED BY <2>1, <2>2
  <1>6. \A r, s \in Spots : ToSet(Line(r)') \cap ToSet(Line(s)') # {} => r = s
    <2>1. ASSUME NEW r \in Spots, NEW s \in Spots,
                 NEW x, x \in ToSet(Line(r)'), x \in ToSet(Line(s)')
          PROVE  r = s
      <3>1. CASE x = c
        BY <1>1, <1>3, <2>1, <3>1
      <3>2. CASE x # c
        <4>1. x \in ToSet(Line(r)) /\ x \in ToSet(Line(s))
          BY <1>8, <2>1, <3>2
        <4> QED BY <4>1 DEF LinesApart
      <3> QED BY <3>1, <3>2
    <2> QED BY <2>1
  <1>7. UNION {ToSet(Line(r)') : r \in Spots} = Live'
    <2>1. UNION {ToSet(Line(r)) : r \in Spots} = Live
      BY DEF LinesApart
    <2>2. c \in ToSet(Line(p)')
      BY <1>2
    <2>3. ASSUME NEW x
          PROVE (\E r \in Spots : x \in ToSet(Line(r)')) <=> x \in Live \/ x = c
      <3>1. x \in Live <=> \E r \in Spots : x \in ToSet(Line(r))
        BY <2>1
      <3> QED BY <1>8, <2>2, <3>1
    <2>4. \A x : x \in UNION {ToSet(Line(r)') : r \in Spots} <=> x \in Live \cup {c}
      BY <2>3
    <2> QED BY <2>4
  <1> QED BY <1>5, <1>6, <1>7 DEF LinesApart, Spots

\* Some lines are cleared.
LEMMA LinesClear ==
    ASSUME LinesApart, NEW P \in SUBSET Spots, Still(P), \A p \in P : Line(p)' = <<>>,
           Live' = Live \ UNION {ToSet(Line(p)) : p \in P}
    PROVE  LinesApart'
  <1>1. \A r \in Spots \ P : Line(r)' = Line(r)
    BY DEF Still
  <1>2. \A r \in P : ToSet(Line(r)') = {} /\ Len(Line(r)') = 0
    BY EmptyToSet
  <1>3. \A r \in Spots : \A i, j \in 1 .. Len(Line(r)') : Line(r)'[i] = Line(r)'[j] => i = j
    BY <1>1, <1>2 DEF LinesApart
  <1>4. \A r, s \in Spots : ToSet(Line(r)') \cap ToSet(Line(s)') # {} => r = s
    BY <1>1, <1>2 DEF LinesApart
  <1>5. UNION {ToSet(Line(r)') : r \in Spots} = Live'
    <2>1. UNION {ToSet(Line(r)) : r \in Spots} = Live
      BY DEF LinesApart
    <2>2. \A r \in Spots, p \in P : r \notin P => ToSet(Line(r)) \cap ToSet(Line(p)) = {}
      BY DEF LinesApart
    <2>3. ASSUME NEW x
          PROVE (\E r \in Spots : x \in ToSet(Line(r)')) <=>
                  (\E r \in Spots : x \in ToSet(Line(r))) /\ ~ \E p \in P : x \in ToSet(Line(p))
      BY <1>1, <1>2, <2>2
    <2> QED BY <2>1, <2>3
  <1> QED BY <1>3, <1>4, <1>5 DEF LinesApart, Spots

\* A line is as it was when its variable is.
LEMMA StillFacts ==
    ASSUME NEW P,
           backlog' = backlog \/ <<"backlog", 0>> \in P,
           ahand' = ahand \/ <<"hand", 0>> \in P,
           \A w \in Worker : /\ chan'[w] = chan[w] \/ <<"chan", w>> \in P
                             /\ polling'[w] = polling[w] \/ <<"polling", w>> \in P
                             /\ cur'[w] = cur[w] \/ <<"cur", w>> \in P
    PROVE  Still(P)
  <1>1. SUFFICES ASSUME NEW p \in Spots, p \notin P PROVE Line(p)' = Line(p)
    BY DEF Still
  <1>2. CASE p = <<"backlog", 0>>
    BY <1>1, <1>2, LineFacts
  <1>3. CASE p = <<"hand", 0>>
    <2>1. ahand' = ahand
      BY <1>1, <1>3
    <2>2. InHand(ahand)' = InHand(ahand)
      BY <2>1 DEF InHand
    <2> QED BY <1>3, <2>2, LineFacts
  <1>4. ASSUME NEW w \in Worker, p \in {<<"chan", w>>, <<"polling", w>>, <<"cur", w>>}
        PROVE  Line(p)' = Line(p)
    <2>1. CASE p = <<"chan", w>>
      BY <1>1, <2>1, LineFacts
    <2>2. CASE p = <<"polling", w>>
      BY <1>1, <2>2, LineFacts
    <2>3. CASE p = <<"cur", w>>
      <3>1. cur'[w] = cur[w]
        BY <1>1, <2>3
      <3>2. InHand(cur[w])' = InHand(cur[w])
        BY <3>1 DEF InHand
      <3> QED BY <2>3, <3>2, LineFacts
    <2> QED BY <1>4, <2>1, <2>2, <2>3
  <1> QED BY <1>2, <1>3, <1>4, LineFacts

\* Steps that hand nobody over.
LEMMA QuietLines ==
    ASSUME LinesApart, UNCHANGED <<backlog, ahand, chan, polling, cur>>, Live' = Live
    PROVE  LinesApart'
  <1>1. Still({})
    BY StillFacts
  <1> QED BY <1>1, LinesStay

\* A connection waits in the backlog.
LEMMA ConnectLines == ASSUME IndInv, LinesApart, NEW c \in Conns, Connect(c) PROVE LinesApart'
  <1> TypeOK /\ ConnectedOnly
    BY DEF IndInv
  <1>1. /\ peer[c] = "away" /\ peer' = [peer EXCEPT ![c] = "open"] /\ backlog' = Append(backlog, c)
        /\ UNCHANGED <<ahand, chan, polling, cur, tpc>>
    BY DEF Connect
  <1>2. Still({<<"backlog", 0>>}) /\ Line(<<"backlog", 0>>)' = Append(Line(<<"backlog", 0>>), c)
    BY <1>1, StillFacts, LineFacts
  <1>3. c \notin Live /\ Live' = Live \cup {c}
    <2>1. tpc[c] = "none"
      BY <1>1 DEF ConnectedOnly, Connected
    <2> QED BY <1>1, <2>1 DEF Live, TypeOK
  <1> QED BY <1>2, <1>3, LinesGrow, LineFacts

\* The acceptor takes it from there.
LEMMA AcceptLines == ASSUME IndInv, LinesApart, Accept PROVE LinesApart'
  <1> TypeOK /\ Hands
    BY DEF IndInv
  <1> DEFINE p == <<"backlog", 0>>
             q == <<"hand", 0>>
  <1>1. /\ backlog # <<>> /\ ahand' = Head(backlog) /\ backlog' = Tail(backlog) /\ ahand = NoConn
        /\ UNCHANGED <<chan, polling, cur, peer, tpc>>
    BY DEF Accept, Hands
  <1>2. Head(backlog) \in Conns
    BY <1>1, HeadTailIn DEF TypeOK
  <1>3. Still({p, q}) /\ Live' = Live
    BY <1>1, StillFacts DEF Live
  <1>4. Line(p) = backlog /\ Line(p)' = Tail(Line(p))
    BY <1>1, LineFacts
  <1>5. Line(q)' = Append(Line(q), Head(Line(p)))
    <2>1. Line(q) = <<>>
      BY <1>1, LineFacts, HandFacts
    <2>2. Line(q)' = InHand(Head(backlog))
      BY <1>1, LineFacts DEF InHand
    <2> QED BY <1>2, <1>4, <2>1, <2>2, HandFacts
  <1>6. p \in Spots /\ q \in Spots /\ p # q /\ Line(p) # <<>>
    BY <1>1, <1>4, LineFacts
  <1> HIDE DEF p, q
  <1> QED BY <1>3, <1>4, <1>5, <1>6, LinesMove

\* And gives it to a worker, or drops it when the worker is dead.
LEMMA SendLines == ASSUME IndInv, LinesApart, SendToWorker PROVE LinesApart'
  <1> TypeOK /\ Hands
    BY DEF IndInv
  <1>1. PICK w \in Worker : w = index
    BY DEF TypeOK
  <1>2. ahand \in Conns /\ ahand' = NoConn /\ UNCHANGED <<backlog, polling, cur, peer>>
    BY DEF SendToWorker, Hands, TypeOK
  <1> DEFINE p == <<"hand", 0>>
             q == <<"chan", w>>
  <1>3. /\ p \in Spots /\ q \in Spots /\ p # q /\ Line(p) = InHand(ahand) /\ Line(q) = chan[w]
        /\ Line(q)' = chan'[w] /\ Line(p)' = <<>>
    <2>1. Line(p)' = InHand(NoConn)
      BY <1>2, LineFacts DEF InHand
    <2> QED BY <2>1, LineFacts, HandFacts
  <1>4. Line(p) # <<>> /\ Head(Line(p)) = ahand /\ Tail(Line(p)) = <<>> /\ ToSet(Line(p)) = {ahand}
    <2> HIDE DEF p
    <2>1. Line(p) = InHand(ahand)
      BY <1>3
    <2>2. /\ InHand(ahand) # <<>> /\ Head(InHand(ahand)) = ahand /\ Tail(InHand(ahand)) = <<>>
          /\ ToSet(InHand(ahand)) = {ahand}
      BY <1>2, HandFacts
    <2> QED BY <2>1, <2>2
  <1>5. CASE wpc[w] = "dead"
    <2>1. tpc' = [tpc EXCEPT ![ahand] = "dropped"] /\ UNCHANGED chan
      BY <1>1, <1>5 DEF SendToWorker
    <2>2. Still({p})
      BY <1>2, <2>1, StillFacts
    <2>3. Live' = Live \ {ahand}
      BY <1>2, <2>1 DEF Live, TypeOK
    <2>4. {p} \in SUBSET Spots /\ UNION {ToSet(Line(r)) : r \in {p}} = {ahand}
      BY <1>3, <1>4
    <2> HIDE DEF p
    <2> QED BY <1>3, <2>2, <2>3, <2>4, LinesClear
  <1>6. CASE wpc[w] # "dead"
    <2>1. chan' = [chan EXCEPT ![w] = Append(@, ahand)] /\ UNCHANGED tpc
      BY <1>1, <1>6 DEF SendToWorker
    <2>2. Still({p, q}) /\ Live' = Live
      BY <1>2, <2>1, StillFacts DEF Live, TypeOK
    <2>3. Line(q)' = Append(Line(q), Head(Line(p))) /\ Line(p)' = Tail(Line(p))
      BY <1>3, <1>4, <2>1 DEF TypeOK
    <2> HIDE DEF p, q
    <2> QED BY <1>3, <1>4, <2>2, <2>3, LinesMove
  <1> QED BY <1>5, <1>6

\* The worker takes it into its executor, or dies of it with all it has.
LEMMA TryRecvLines == ASSUME IndInv, LinesApart, NEW w \in Worker, TryRecv(w) PROVE LinesApart'
  <1> TypeOK /\ Hands
    BY DEF IndInv
  <1> DEFINE p == <<"chan", w>>
             q == <<"polling", w>>
             c == Head(chan[w])
  <1>1. chan[w] # <<>> /\ UNCHANGED <<backlog, ahand, cur, peer>> /\ chan[w] \in Seq(Conns)
    BY DEF TryRecv, TypeOK
  <1>2. /\ p \in Spots /\ q \in Spots /\ p # q /\ Line(p) = chan[w] /\ Line(q) = polling[w]
        /\ Line(p)' = chan'[w] /\ Line(q)' = polling'[w]
    BY LineFacts
  <1>3. c \in Conns /\ c \in ToSet(chan[w])
    BY <1>1, TailElements
  <1>4. CASE peer[c] = "gone"
    <2>1. /\ tpc' = Dropped(ToSet(chan[w]) \cup ToSet(polling[w]))
          /\ chan' = [chan EXCEPT ![w] = <<>>] /\ polling' = [polling EXCEPT ![w] = <<>>]
      BY <1>4 DEF TryRecv
    <2>2. Still({p, q})
      BY <1>1, <2>1, StillFacts DEF TypeOK
    <2>3. Line(p)' = <<>> /\ Line(q)' = <<>>
      BY <1>2, <2>1 DEF TypeOK
    <2>4. Live' = Live \ (ToSet(chan[w]) \cup ToSet(polling[w]))
      <3>1. \A d \in Conns : tpc'[d] = IF d \in ToSet(chan[w]) \cup ToSet(polling[w])
                                       THEN "dropped" ELSE tpc[d]
        BY <2>1 DEF Dropped
      <3> QED BY <1>1, <3>1 DEF Live
    <2>5. /\ {p, q} \in SUBSET Spots
          /\ UNION {ToSet(Line(r)) : r \in {p, q}} = ToSet(chan[w]) \cup ToSet(polling[w])
      BY <1>2
    <2> HIDE DEF p, q
    <2> QED BY <2>2, <2>3, <2>4, <2>5, LinesClear
  <1>5. CASE peer[c] # "gone"
    <2>1. /\ tpc' = [tpc EXCEPT ![c] = "read"]
          /\ chan' = [chan EXCEPT ![w] = Tail(@)] /\ polling' = [polling EXCEPT ![w] = Append(@, c)]
      BY <1>5 DEF TryRecv
    <2>2. Still({p, q})
      BY <1>1, <2>1, StillFacts DEF TypeOK
    <2>3. Line(p)' = Tail(Line(p)) /\ Line(q)' = Append(Line(q), Head(Line(p)))
      BY <1>2, <2>1 DEF TypeOK
    <2>4. c \in Live
      BY <1>2, <1>3 DEF LinesApart
    <2> HIDE DEF c
    <2>5. Live' = Live
      BY <1>1, <1>3, <2>1, <2>4 DEF Live, TypeOK
    <2> HIDE DEF p, q
    <2> QED BY <1>1, <1>2, <2>2, <2>3, <2>5, LinesMove
  <1> QED BY <1>4, <1>5

\* The executor polls the first task of its queue.
LEMMA PollLines == ASSUME IndInv, LinesApart, NEW w \in Worker, PollTask(w) PROVE LinesApart'
  <1> TypeOK /\ Hands
    BY DEF IndInv
  <1> DEFINE p == <<"polling", w>>
             q == <<"cur", w>>
             c == Head(polling[w])
  <1>1. /\ polling[w] # <<>> /\ cur[w] = NoConn
        /\ cur' = [cur EXCEPT ![w] = c] /\ polling' = [polling EXCEPT ![w] = Tail(@)]
        /\ UNCHANGED <<backlog, ahand, chan, peer, tpc>>
    BY DEF PollTask, Hands
  <1>2. c \in Conns
    BY <1>1, HeadTailIn DEF TypeOK
  <1>3. Still({p, q}) /\ Live' = Live
    BY <1>1, StillFacts DEF Live, TypeOK
  <1>4. Line(p) = polling[w] /\ Line(p)' = Tail(Line(p))
    BY <1>1, LineFacts DEF TypeOK
  <1>5. Line(q)' = Append(Line(q), Head(Line(p)))
    <2>1. Line(q) = <<>>
      BY <1>1, LineFacts, HandFacts
    <2>2. Line(q)' = InHand(c)
      <3>1. cur'[w] = c
        BY <1>1 DEF TypeOK
      <3> QED BY <3>1, LineFacts DEF InHand
    <2> QED BY <1>2, <1>4, <2>1, <2>2, HandFacts
  <1>6. p \in Spots /\ q \in Spots /\ p # q /\ Line(p) # <<>>
    BY <1>1, <1>4, LineFacts
  <1> HIDE DEF p, q
  <1> QED BY <1>3, <1>4, <1>5, <1>6, LinesMove

\* The polled task, and its line.
LEMMA CurFacts ==
    ASSUME IndInv, LinesApart, NEW w \in Worker, wpc[w] = "run"
    PROVE  /\ cur[w] \in Conns /\ cur[w] \in Live
           /\ Line(<<"cur", w>>) = <<cur[w]>> /\ ToSet(Line(<<"cur", w>>)) = {cur[w]}
  <1>1. cur[w] \in Conns
    BY DEF IndInv, Hands, TypeOK
  <1>2. Line(<<"cur", w>>) = <<cur[w]>> /\ <<"cur", w>> \in Spots
    BY <1>1, LineFacts, HandFacts
  <1>3. ToSet(Line(<<"cur", w>>)) = {cur[w]}
    BY <1>2 DEF ToSet
  <1> QED BY <1>1, <1>2, <1>3 DEF LinesApart

\* A pending task goes to the end of the queue.
LEMMA PendingLines ==
    ASSUME IndInv, LinesApart, NEW w \in Worker, ReadNothing(w) \/ Decode(w) \/ StillSleeping(w)
    PROVE  LinesApart'
  <1> TypeOK
    BY DEF IndInv
  <1> DEFINE p == <<"cur", w>>
             q == <<"polling", w>>
             c == cur[w]
  <1>1. wpc[w] = "run" /\ Pending(w) /\ UNCHANGED <<backlog, ahand, chan, peer>>
    BY DEF ReadNothing, Decode, StillSleeping, Running
  <1>2. c \in Conns /\ c \in Live /\ Line(p) = <<c>>
    BY <1>1, CurFacts
  <1>3. Live' = Live
    <2>1. tpc' = tpc \/ tpc' = [tpc EXCEPT ![c] = "nap"] \/ tpc' = [tpc EXCEPT ![c] = "wait"]
      BY DEF ReadNothing, Decode, StillSleeping
    <2> HIDE DEF c
    <2>2. tpc' = tpc \/ /\ \A d \in Conns \ {c} : tpc'[d] = tpc[d]
                        /\ tpc'[c] \in {"nap", "wait"}
      BY <1>2, <2>1 DEF TypeOK
    <2> QED BY <1>1, <1>2, <2>2 DEF Live
  <1>4. Still({p, q})
    BY <1>1, StillFacts DEF Pending, TypeOK
  <1>5. Line(q)' = Append(Line(q), c)
    BY <1>1, LineFacts DEF Pending, TypeOK
  <1>6. Line(p)' = <<>>
    <2>1. cur'[w] = NoConn
      BY <1>1 DEF Pending, TypeOK
    <2>2. Line(p)' = InHand(NoConn)
      BY <2>1, LineFacts DEF InHand
    <2> QED BY <2>2, HandFacts
  <1>7. p \in Spots /\ q \in Spots /\ p # q
    BY LineFacts
  <1> HIDE DEF p, q, c
  <1>8. Line(p) # <<>> /\ Head(Line(p)) = c /\ Tail(Line(p)) = <<>>
    <2>1. <<c>> # <<>> /\ Head(<<c>>) = c /\ Tail(<<c>>) = <<>>
      OBVIOUS
    <2> QED BY <1>2, <2>1
  <1> QED BY <1>3, <1>4, <1>5, <1>6, <1>7, <1>8, LinesMove

\* A task that is ready leaves the executor.
LEMMA ReplyLines == ASSUME IndInv, LinesApart, NEW w \in Worker, Reply(w) PROVE LinesApart'
  <1> TypeOK
    BY DEF IndInv
  <1> DEFINE p == <<"cur", w>>
             c == cur[w]
  <1>1. /\ wpc[w] = "run" /\ tpc' = [tpc EXCEPT ![c] = "done"] /\ cur' = [cur EXCEPT ![w] = NoConn]
        /\ UNCHANGED <<backlog, ahand, chan, polling, peer>>
    BY DEF Reply, Running
  <1>2. c \in Conns /\ ToSet(Line(p)) = {c} /\ p \in Spots
    BY <1>1, CurFacts, LineFacts
  <1>3. Line(p)' = <<>>
    <2>1. cur'[w] = NoConn
      BY <1>1 DEF TypeOK
    <2>2. Line(p)' = InHand(NoConn)
      BY <2>1, LineFacts DEF InHand
    <2> QED BY <2>2, HandFacts
  <1>4. Still({p})
    BY <1>1, StillFacts DEF TypeOK
  <1> HIDE DEF c
  <1>5. Live' = Live \ {c}
    BY <1>1, <1>2 DEF Live, TypeOK
  <1>6. {p} \in SUBSET Spots /\ UNION {ToSet(Line(r)) : r \in {p}} = {c}
    BY <1>2
  <1> HIDE DEF p
  <1> QED BY <1>3, <1>4, <1>5, <1>6, LinesClear

LEMMA LinesStep == ASSUME IndInv, LinesApart, [Next]_vars PROVE LinesApart'
  <1> TypeOK
    BY DEF IndInv
  <1>1. CASE UNCHANGED <<backlog, ahand, chan, polling, cur, peer, tpc>>
    BY <1>1, QuietLines DEF Live
  <1>2. ASSUME NEW c \in Conns, Send(c) \/ End(c) \/ Tick(c) PROVE LinesApart'
    <2>1. UNCHANGED <<backlog, ahand, chan, polling, cur, tpc>>
      BY <1>2 DEF Send, End, Tick
    <2>2. \A d \in Conns : peer'[d] = "away" <=> peer[d] = "away"
      <3>1. CASE peer' = peer
        BY <3>1
      <3>2. CASE End(c)
        <4>1. PICK e \in {"left", "gone"} : peer' = [peer EXCEPT ![c] = e]
          BY <3>2, ServerAssumption DEF End
        <4> QED BY <3>2, <4>1 DEF End, TypeOK
      <3> QED BY <1>2, <3>1, <3>2 DEF Send, Tick
    <2> QED BY <2>1, <2>2, QuietLines DEF Live
  <1>3. CASE LoadFlag \/ ClearFlag \/ Unpark \/ UNCHANGED vars
    BY <1>1, <1>3 DEF LoadFlag, ClearFlag, Unpark, vars
  <1>4. ASSUME NEW w \in Worker,
               TryRecvEmpty(w) \/ StoreFlag(w) \/ Park(w) \/ SpuriousWake(w) \/ PollEmpty(w) \/ ReadSome(w)
        PROVE  LinesApart'
    BY <1>1, <1>4 DEF TryRecvEmpty, StoreFlag, Park, SpuriousWake, PollEmpty, ReadSome
  <1>5. ASSUME NEW w \in Worker, NapOver(w) PROVE LinesApart'
    <2> DEFINE c == cur[w]
    <2>1. /\ wpc[w] = "run" /\ tpc' = [tpc EXCEPT ![c] = "read"]
          /\ UNCHANGED <<backlog, ahand, chan, polling, cur, peer>>
      BY <1>5 DEF NapOver, Running
    <2>2. c \in Conns /\ c \in Live
      BY <2>1, CurFacts
    <2> HIDE DEF c
    <2>3. Live' = Live
      BY <2>1, <2>2 DEF Live, TypeOK
    <2> QED BY <2>1, <2>3, QuietLines
  <1> QED
    BY <1>2, <1>3, <1>4, <1>5, ConnectLines, AcceptLines, SendLines, TryRecvLines, PollLines,
       PendingLines, ReplyLines DEF Next, Acceptor, WorkerStep

LEMMA LinesInit == ASSUME Init PROVE LinesApart
  <1>1. \A p \in Spots : Line(p) = <<>>
    <2>1. \A w \in Worker : chan[w] = <<>> /\ polling[w] = <<>> /\ cur[w] = NoConn
      BY DEF Init
    <2>2. backlog = <<>> /\ ahand = NoConn
      BY DEF Init
    <2>3. InHand(ahand) = <<>> /\ \A w \in Worker : InHand(cur[w]) = <<>>
      BY <2>1, <2>2, HandFacts
    <2>4. ASSUME NEW p \in Spots PROVE Line(p) = <<>>
      <3>1. CASE p = <<"backlog", 0>> \/ p = <<"hand", 0>>
        BY <2>2, <2>3, <3>1, LineFacts
      <3>2. CASE \E w \in Worker : p \in {<<"chan", w>>, <<"polling", w>>, <<"cur", w>>}
        <4>1. PICK w \in Worker : p \in {<<"chan", w>>, <<"polling", w>>, <<"cur", w>>}
          BY <3>2
        <4> QED BY <2>1, <2>3, <4>1, LineFacts
      <3> QED BY <3>1, <3>2, LineFacts
    <2> QED BY <2>4
  <1>2. \A p \in Spots : ToSet(Line(p)) = {} /\ Len(Line(p)) = 0
    BY <1>1, EmptyToSet
  <1>3. Live = {}
    BY DEF Init, Live
  <1> QED BY <1>2, <1>3 DEF LinesApart

\* In lines that are apart everybody has one place.
LEMMA LinesCount == ASSUME TypeOK, LinesApart PROVE OnePlace
  <1>1. SUFFICES ASSUME NEW c \in Conns
                 PROVE  Cardinality(Places(c)) = IF c \in Live THEN 1 ELSE 0
    BY DEF OnePlace
  <1>2. \A p \in Spots : DOMAIN Line(p) = 1 .. Len(Line(p))
    BY LineType
  <1>3. \A x : x \in Places(c) <=>
                 \E p \in Spots : \E i \in 1 .. Len(Line(p)) : Line(p)[i] = c /\ x = <<p, i>>
    BY <1>2 DEF Places
  <1>4. \A p \in Spots : c \in ToSet(Line(p)) <=> \E i \in 1 .. Len(Line(p)) : Line(p)[i] = c
    BY <1>2 DEF ToSet
  <1>5. c \in Live <=> \E p \in Spots : c \in ToSet(Line(p))
    BY DEF LinesApart
  <1>6. CASE c \notin Live
    <2>1. Places(c) = {}
      BY <1>3, <1>4, <1>5, <1>6
    <2> QED BY <1>6, <2>1, FS_EmptySet
  <1>7. CASE c \in Live
    <2>1. PICK p \in Spots : c \in ToSet(Line(p))
      BY <1>5, <1>7
    <2>2. PICK i \in 1 .. Len(Line(p)) : Line(p)[i] = c
      BY <1>4, <2>1
    <2>3. ASSUME NEW q \in Spots, NEW j \in 1 .. Len(Line(q)), Line(q)[j] = c
          PROVE  q = p /\ j = i
      <3>1. q = p
        BY <1>4, <2>1, <2>3 DEF LinesApart
      <3> QED BY <2>2, <2>3, <3>1 DEF LinesApart
    <2>4. Places(c) = {<<p, i>>}
      BY <1>3, <2>2, <2>3
    <2> QED BY <1>7, <2>4, FS_Singleton
  <1> QED BY <1>6, <1>7

\* From accept to the answer, or to the panic of a worker, a connection is in one
\* place: backlog, acceptor, channel, executor or poll (server/src/main.rs).
THEOREM NobodyIsLost == Spec => []OnePlace
  <1>1. Init => LinesApart
    BY LinesInit
  <1>2. IndInv /\ LinesApart /\ [Next]_vars => LinesApart'
    BY LinesStep
  <1>3. IndInv /\ LinesApart => OnePlace
    BY LinesCount DEF IndInv
  <1> QED BY <1>1, <1>2, <1>3, ServerInvariant, PTL DEF Spec
=============================================================================
