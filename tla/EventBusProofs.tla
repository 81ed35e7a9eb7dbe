--------------------------- MODULE EventBusProofs ----------------------------
(***************************************************************************)
(* Proofs about EventBus for every set of consumers, number of events and    *)
(* set of events to stop at: IndInv is inductive, so that nothing is missed   *)
(* and the collector takes only the queues of dropped handles.               *)
(***************************************************************************)
EXTENDS EventBus, TLAPS

USE BusAssumption
USE DEF busVars

\* What Append does to a queue that ends with the event sent last.
LEMMA AppendNext ==
    ASSUME NEW S, NEW s \in Seq(S), NEW e \in S
    PROVE  /\ Append(s, e) \in Seq(S) /\ Len(s) \in Nat /\ Len(Append(s, e)) = Len(s) + 1
           /\ \A i \in 1 .. Len(s) : Append(s, e)[i] = s[i]
           /\ Append(s, e)[Len(s) + 1] = e
  OBVIOUS

\* What Head and Tail are of one that is not empty.
LEMMA HeadAndTail ==
    ASSUME NEW S, NEW s \in Seq(S), s # <<>>
    PROVE  /\ Head(s) \in S /\ Head(s) = s[1] /\ Tail(s) \in Seq(S)
           /\ Len(s) \in Nat /\ Len(s) > 0 /\ Len(Tail(s)) = Len(s) - 1
           /\ \A i \in 1 .. Len(s) - 1 : Tail(s)[i] = s[i + 1]
  OBVIOUS

-----------------------------------------------------------------------------
LEMMA InitHolds == Init => IndInv
  BY DEF Init, IndInv, TypeOK, LiveIsSubscribed, NothingMissed, OnlyDeadAreCollected

LEMMA SubscribeKeeps ==
    ASSUME IndInv, NEW c \in Subs, Subscribe(c) PROVE IndInv'
  <1> USE DEF IndInv, Subscribe
  <1>1. TypeOK'
    BY DEF TypeOK
  <1>2. LiveIsSubscribed'
    BY DEF TypeOK, LiveIsSubscribed
  <1>3. NothingMissed'
    <2> SUFFICES ASSUME NEW d \in chamber'
                 PROVE  /\ from'[d] <= last'[d] /\ last'[d] + Len(queue'[d]) = sent'
                        /\ \A i \in 1 .. Len(queue'[d]) : queue'[d][i] = last'[d] + i
      BY DEF NothingMissed
    <2>1. CASE d = c
      <3>1. from'[d] = sent /\ last'[d] = sent /\ queue'[d] = <<>> /\ sent \in Nat
        BY <2>1 DEF TypeOK
      <3> QED BY <3>1
    <2>2. CASE d # c
      BY <2>2 DEF TypeOK, NothingMissed
    <2> QED BY <2>1, <2>2
  <1>4. OnlyDeadAreCollected'
    BY DEF TypeOK, OnlyDeadAreCollected
  <1> QED BY <1>1, <1>2, <1>3, <1>4

LEMMA SendKeeps ==
    ASSUME IndInv, Send PROVE IndInv'
  <1> USE DEF IndInv, Send
  <1>1. sent + 1 \in 1 .. Events /\ sent \in Nat
    BY DEF TypeOK
  <1>2. TypeOK'
    <2>1. ASSUME NEW d \in Subs
          PROVE  (IF d \in chamber THEN Append(queue[d], sent + 1) ELSE queue[d]) \in Seq(1 .. Events)
      BY <1>1, AppendNext DEF TypeOK
    <2>2. queue' \in [Subs -> Seq(1 .. Events)]
      BY <2>1
    <2> QED BY <1>1, <2>2 DEF TypeOK
  <1>3. LiveIsSubscribed'
    BY DEF LiveIsSubscribed
  <1>4. NothingMissed'
    <2> SUFFICES ASSUME NEW d \in chamber'
                 PROVE  /\ from'[d] <= last'[d] /\ last'[d] + Len(queue'[d]) = sent'
                        /\ \A i \in 1 .. Len(queue'[d]) : queue'[d][i] = last'[d] + i
      BY DEF NothingMissed
    <2> DEFINE s == queue[d]
               t == queue'[d]
               l == last[d]
    <2>1. /\ d \in chamber /\ s \in Seq(1 .. Events) /\ l \in Nat
          /\ from'[d] = from[d] /\ last'[d] = l /\ sent' = sent + 1
          /\ t = Append(s, sent + 1)
      BY DEF TypeOK
    <2>2. /\ from[d] <= l /\ l + Len(s) = sent
          /\ \A i \in 1 .. Len(s) : s[i] = l + i
      BY <2>1 DEF NothingMissed
    <2> HIDE DEF s, t, l, Send, IndInv
    <2>3. /\ Len(t) = Len(s) + 1 /\ Len(s) \in Nat
          /\ \A i \in 1 .. Len(s) : t[i] = s[i]
          /\ t[Len(s) + 1] = sent + 1
      BY <1>1, <2>1, AppendNext
    <2>4. ASSUME NEW i \in 1 .. Len(t) PROVE t[i] = l + i
      <3>1. CASE i \in 1 .. Len(s)
        BY <2>2, <2>3, <3>1
      <3>2. CASE i = Len(s) + 1
        BY <1>1, <2>1, <2>2, <2>3, <3>2
      <3> QED BY <2>3, <3>1, <3>2
    <2>5. from'[d] <= last'[d] /\ last'[d] + Len(t) = sent'
      BY <1>1, <2>1, <2>2, <2>3
    <2>6. \A i \in 1 .. Len(t) : t[i] = last'[d] + i
      BY <2>1, <2>4
    <2> QED BY <2>5, <2>6 DEF t
  <1>5. OnlyDeadAreCollected'
    BY DEF OnlyDeadAreCollected
  <1> QED BY <1>2, <1>3, <1>4, <1>5

LEMMA PollKeeps ==
    ASSUME IndInv, NEW c \in Subs, Poll(c) PROVE IndInv'
  <1> USE DEF IndInv, Poll
  <1>1. /\ queue[c] \in Seq(1 .. Events) /\ queue[c] # <<>> /\ c \in chamber
        /\ queue' = [queue EXCEPT ![c] = Tail(@)] /\ last' = [last EXCEPT ![c] = Head(queue[c])]
    BY DEF TypeOK, LiveIsSubscribed
  <1>2. /\ Head(queue[c]) \in 1 .. Events /\ Head(queue[c]) = queue[c][1] /\ Tail(queue[c]) \in Seq(1 .. Events)
        /\ Len(queue[c]) \in Nat /\ Len(queue[c]) > 0 /\ Len(Tail(queue[c])) = Len(queue[c]) - 1
        /\ \A i \in 1 .. Len(queue[c]) - 1 : Tail(queue[c])[i] = queue[c][i + 1]
    BY <1>1, HeadAndTail
  <1>3. TypeOK'
    BY <1>1, <1>2 DEF TypeOK
  <1>4. LiveIsSubscribed'
    BY DEF TypeOK, LiveIsSubscribed
  <1>5. NothingMissed'
    <2> SUFFICES ASSUME NEW d \in chamber'
                 PROVE  /\ from'[d] <= last'[d] /\ last'[d] + Len(queue'[d]) = sent'
                        /\ \A i \in 1 .. Len(queue'[d]) : queue'[d][i] = last'[d] + i
      BY DEF NothingMissed
    <2>1. CASE d = c
      <3> DEFINE s == queue[c]
                 t == queue'[c]
                 l == last[c]
      <3>1. /\ from[c] <= l /\ l + Len(s) = sent
            /\ \A i \in 1 .. Len(s) : s[i] = l + i
            /\ from[c] \in Nat /\ l \in Nat /\ sent \in Nat
        BY <1>1 DEF TypeOK, NothingMissed
      <3>2. /\ from'[c] = from[c] /\ sent' = sent /\ last'[c] = s[1] /\ t = Tail(s)
            /\ Len(s) \in Nat /\ Len(s) > 0 /\ Len(t) = Len(s) - 1
            /\ \A i \in 1 .. Len(s) - 1 : t[i] = s[i + 1]
        <4>1. from'[c] = from[c] /\ sent' = sent
          OBVIOUS
        <4>2. last'[c] = Head(s) /\ t = Tail(s)
          BY <1>1 DEF TypeOK
        <4> QED BY <1>2, <4>1, <4>2
      <3> HIDE DEF s, t, l, Poll, IndInv
      <3>3. last'[c] = l + 1
        BY <3>1, <3>2
      <3>4. ASSUME NEW i \in 1 .. Len(t) PROVE t[i] = last'[c] + i
        <4>1. i \in 1 .. Len(s) - 1 /\ i + 1 \in 1 .. Len(s)
          BY <3>2
        <4>2. t[i] = l + (i + 1)
          BY <3>1, <3>2, <4>1
        <4> QED BY <3>1, <3>3, <4>2
      <3>5. from'[c] <= last'[c] /\ last'[c] + Len(t) = sent'
        <4>1. /\ from[c] \in Nat /\ l \in Nat /\ Len(s) \in Nat
              /\ from[c] <= l /\ l + Len(s) = sent /\ Len(t) = Len(s) - 1
          BY <3>1, <3>2
        <4>2. from[c] <= l + 1 /\ l + 1 + Len(t) = sent
          BY <4>1
        <4> QED BY <3>2, <3>3, <4>2
      <3>6. \A i \in 1 .. Len(t) : t[i] = last'[c] + i
        BY <3>4
      <3>7. /\ from'[c] <= last'[c] /\ last'[c] + Len(queue'[c]) = sent'
            /\ \A i \in 1 .. Len(queue'[c]) : queue'[c][i] = last'[c] + i
        BY <3>5, <3>6 DEF t
      <3> QED BY <2>1, <3>7
    <2>2. CASE d # c
      BY <1>1, <2>2 DEF TypeOK, NothingMissed
    <2> QED BY <2>1, <2>2
  <1>6. OnlyDeadAreCollected'
    BY DEF TypeOK, OnlyDeadAreCollected
  <1> QED BY <1>3, <1>4, <1>5, <1>6

LEMMA UnsubscribeKeeps ==
    ASSUME IndInv, NEW c \in Subs, Unsubscribe(c) PROVE IndInv'
  BY DEF IndInv, Unsubscribe, TypeOK, LiveIsSubscribed, NothingMissed, OnlyDeadAreCollected

LEMMA CollectorKeeps ==
    ASSUME IndInv, Collector PROVE IndInv'
  <1> USE DEF IndInv, TypeOK, LiveIsSubscribed, NothingMissed, OnlyDeadAreCollected
  <1>1. CASE GcLock
    BY <1>1 DEF GcLock
  <1>2. CASE GcClone
    BY <1>2 DEF GcClone
  <1>3. CASE GcClear
    BY <1>3 DEF GcClear
  <1>4. CASE GcRemove
    BY <1>4 DEF GcRemove
  <1> QED BY <1>1, <1>2, <1>3, <1>4 DEF Collector

LEMMA StutterKeeps == IndInv /\ UNCHANGED vars => IndInv'
  BY DEF vars, IndInv, TypeOK, LiveIsSubscribed, NothingMissed, OnlyDeadAreCollected

\* The inductive invariant of the event bus.
THEOREM BusInvariant == Spec => []IndInv
  <1>1. ASSUME IndInv, [Next]_vars PROVE IndInv'
    BY <1>1, SubscribeKeeps, SendKeeps, PollKeeps, UnsubscribeKeeps, CollectorKeeps, StutterKeeps
       DEF Next, Consumer
  <1> QED BY InitHolds, <1>1, PTL DEF Spec

\* EventBus::send, poll and subscribe: every subscriber gets every event sent since
\* it subscribed, once and in order.
THEOREM NoEventIsMissed == Spec => []NothingMissed
  <1>1. IndInv => NothingMissed
    BY DEF IndInv
  <1> QED BY BusInvariant, <1>1, PTL

\* garbage_collector against subscribe and poll: the queue of a handle that is not
\* dropped stays, so the unwrap in poll never panics.
THEOREM LiveQueuesStay == Spec => []LiveIsSubscribed
  <1>1. IndInv => LiveIsSubscribed
    BY DEF IndInv
  <1> QED BY BusInvariant, <1>1, PTL
=============================================================================
