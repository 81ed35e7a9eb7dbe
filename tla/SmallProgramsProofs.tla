------------------------ MODULE SmallProgramsProofs -------------------------
(***************************************************************************)
(* Proofs about SmallPrograms for every value of its constants: coroutines   *)
(* take turns, both echo servers keep pieces in order, exchanges are honest,  *)
(* tasks behind a mutex lose no update, tear no line and wait for a guard     *)
(* that somebody has or may take, the tasks of an await script lose no update *)
(* either and its readers miss nothing, and the room stays near its           *)
(* temperature.                                                             *)
(***************************************************************************)
EXTENDS SmallPrograms, SequenceLemmas

-----------------------------------------------------------------------------
(* Coroutines.                                                             *)

\* Every ring has its coroutines once each.
OnceEach(s) ==
    /\ s \in Seq(ToSet(s)) /\ Len(s) \in Nat /\ DOMAIN s = 1 .. Len(s)
    /\ \A i, j \in 1 .. Len(s) : s[i] = s[j] => i = j

LEMMA OneOrder == ASSUME NEW a PROVE OnceEach(<<a>>)
  <1>1. <<a>> \in Seq({a}) /\ Len(<<a>>) = 1 /\ DOMAIN <<a>> = 1 .. 1 /\ <<a>>[1] = a
    OBVIOUS
  <1>2. ToSet(<<a>>) = {a}
    BY <1>1 DEF ToSet
  <1> QED BY <1>1, <1>2 DEF OnceEach

LEMMA TwoOrder == ASSUME NEW a, NEW b, a # b PROVE OnceEach(<<a, b>>)
  <1>1. /\ <<a, b>> \in Seq({a, b}) /\ Len(<<a, b>>) = 2 /\ DOMAIN <<a, b>> = 1 .. 2
        /\ <<a, b>>[1] = a /\ <<a, b>>[2] = b
    OBVIOUS
  <1>2. \A i \in 1 .. 2 : i = 1 \/ i = 2
    OBVIOUS
  <1>3. ToSet(<<a, b>>) = {a, b}
    BY <1>1, <1>2 DEF ToSet
  <1> QED BY <1>1, <1>2, <1>3 DEF OnceEach

LEMMA ThreeOrder == ASSUME NEW a, NEW b, NEW c, a # b, b # c, a # c PROVE OnceEach(<<a, b, c>>)
  <1>1. /\ <<a, b, c>> \in Seq({a, b, c}) /\ Len(<<a, b, c>>) = 3 /\ DOMAIN <<a, b, c>> = 1 .. 3
        /\ <<a, b, c>>[1] = a /\ <<a, b, c>>[2] = b /\ <<a, b, c>>[3] = c
    OBVIOUS
  <1>2. \A i \in 1 .. 3 : i = 1 \/ i = 2 \/ i = 3
    OBVIOUS
  <1>3. ToSet(<<a, b, c>>) = {a, b, c}
    BY <1>1, <1>2 DEF ToSet
  <1> QED BY <1>1, <1>2, <1>3 DEF OnceEach

LEMMA RingFacts == ASSUME NEW r \in Turns!Rings PROVE OnceEach(r.order)
  <1>1. CASE r = Turns!SleepCoroutines
    <2>1. r.order = <<"sleep1", "sleep2", "sleep3">>
      BY <1>1 DEF Turns!SleepCoroutines, Turns!Each, Turns!Ring
    <2>2. OnceEach(<<"sleep1", "sleep2", "sleep3">>)
      BY ThreeOrder
    <2> QED BY <2>1, <2>2
  <1>2. CASE r = Turns!RandCoroutines
    <2>1. r.order = <<"rand1", "rand2", "rand3">>
      BY <1>2 DEF Turns!RandCoroutines, Turns!Each, Turns!Ring
    <2>2. OnceEach(<<"rand1", "rand2", "rand3">>)
      BY ThreeOrder
    <2> QED BY <2>1, <2>2
  <1>3. CASE r = Turns!Hello
    <2>1. r.order = <<"hello">>
      BY <1>3 DEF Turns!Hello, Turns!Each, Turns!Ring
    <2>2. OnceEach(<<"hello">>)
      BY OneOrder
    <2> QED BY <2>1, <2>2
  <1>4. CASE r = Turns!CountingFutures
    <2>1. r.order = <<"counter", "counter_2">>
      BY <1>4 DEF Turns!CountingFutures, Turns!Each, Turns!Ring
    <2>2. OnceEach(<<"counter", "counter_2">>)
      BY TwoOrder
    <2> QED BY <2>1, <2>2
  <1>5. CASE r = Turns!ReadCoroutine
    <2>1. r.order = <<"reader">>
      BY <1>5 DEF Turns!ReadCoroutine, Turns!Each, Turns!Ring
    <2>2. OnceEach(<<"reader">>)
      BY OneOrder
    <2> QED BY <2>1, <2>2
  <1>6. CASE r = Turns!WriteCoroutine
    <2>1. r.order = <<"writer">>
      BY <1>6 DEF Turns!WriteCoroutine, Turns!Each, Turns!Ring
    <2>2. OnceEach(<<"writer">>)
      BY OneOrder
    <2> QED BY <2>1, <2>2
  <1>7. CASE r = Turns!Manager
    <2>1. r.order = <<"reader", "writer">>
      BY <1>7 DEF Turns!Manager, Turns!Each, Turns!Ring
    <2>2. OnceEach(<<"reader", "writer">>)
      BY TwoOrder
    <2> QED BY <2>1, <2>2
  <1> QED BY <1>1, <1>2, <1>3, <1>4, <1>5, <1>6, <1>7 DEF Turns!Rings

\* The turn of c comes before that of d: they are in the same round and c was
\* added first, or d, added first, is one round ahead.
Precedes(c, d) ==
    \A i, j \in DOMAIN ring.order : ring.order[i] = c /\ ring.order[j] = d =>
        \/ resumed[c] = resumed[d] /\ i < j
        \/ resumed[d] = resumed[c] + 1 /\ j < i

RingType ==
    /\ ring \in Turns!Rings /\ need \in [Turns!Members -> Nat] /\ resumed \in [Turns!Members -> Nat]
    /\ queue \in Seq(Turns!Members) /\ outcome \in {"running", "over", "panicked"}

\* The queue is in the order of turns, and nobody who needs one is out of it.
RingOrder ==
    /\ \A p, q \in 1 .. Len(queue) : p < q => Precedes(queue[p], queue[q])
    /\ \A c \in Turns!Members : resumed[c] < need[c] => \E p \in 1 .. Len(queue) : queue[p] = c

\* A coroutine that panics has had its turn and is still in the queue.
RingInv == RingType /\ (outcome # "panicked" => RingOrder) /\ Turns!TurnsAreFair

\* Who is a member.
LEMMA MemberFacts ==
    ASSUME RingType
    PROVE  /\ \A i \in DOMAIN ring.order : ring.order[i] \in Turns!Members
           /\ \A c \in Turns!Members : \E i \in DOMAIN ring.order : ring.order[i] = c
           /\ DOMAIN ring.order = 1 .. Len(ring.order) /\ Len(ring.order) \in Nat
           /\ \A i, j \in DOMAIN ring.order : ring.order[i] = ring.order[j] => i = j
  BY RingFacts DEF OnceEach, RingType, Turns!Members, Turns!ToSet

LEMMA TurnsInit == ASSUME Turns!Init PROVE RingInv
  <1>1. /\ ring \in Turns!Rings /\ queue = ring.order /\ outcome = "running"
        /\ need \in [Turns!Members -> 1 .. MaxTurns] /\ resumed = [c \in Turns!Members |-> 0]
    BY DEF Turns!Init
  <1>2. queue \in Seq(ToSet(queue)) /\ Len(queue) \in Nat /\ DOMAIN queue = 1 .. Len(queue)
    BY <1>1, RingFacts DEF OnceEach
  <1>3. \A i \in 1 .. Len(queue) : queue[i] \in Turns!Members
    BY <1>1, <1>2 DEF Turns!Members, Turns!ToSet
  <1>4. queue \in Seq(Turns!Members)
    BY <1>2, <1>3
  <1>5. RingType
    BY <1>1, <1>4, ProgramsAssumption DEF RingType
  <1>6. RingOrder
    <2>1. \A p, q \in 1 .. Len(queue) : p < q => Precedes(queue[p], queue[q])
      BY <1>1, <1>3, <1>5, MemberFacts DEF Precedes
    <2>2. \A c \in Turns!Members : \E p \in 1 .. Len(queue) : queue[p] = c
      BY <1>1, <1>5, MemberFacts
    <2> QED BY <2>1, <2>2 DEF RingOrder
  <1>7. Turns!TurnsAreFair
    BY <1>1, <1>5, MemberFacts DEF Turns!TurnsAreFair
  <1> QED BY <1>5, <1>6, <1>7 DEF RingInv

\* The order of the queue makes the turns fair.
LEMMA OrderIsFair == ASSUME RingType, RingOrder PROVE Turns!TurnsAreFair
  <1> SUFFICES ASSUME NEW i \in DOMAIN ring.order, NEW j \in DOMAIN ring.order, i < j,
                      resumed[ring.order[i]] < need[ring.order[i]],
                      resumed[ring.order[j]] < need[ring.order[j]]
               PROVE  resumed[ring.order[i]] - resumed[ring.order[j]] \in {0, 1}
    BY DEF Turns!TurnsAreFair
  <1> DEFINE c == ring.order[i]
             d == ring.order[j]
  <1>1. c \in Turns!Members /\ d \in Turns!Members /\ resumed[c] \in Nat /\ resumed[d] \in Nat
        /\ i \in Nat /\ j \in Nat /\ c # d
    BY MemberFacts DEF RingType
  <1>2. PICK p, q \in 1 .. Len(queue) : queue[p] = c /\ queue[q] = d
    BY <1>1 DEF RingOrder
  <1>3. p < q \/ q < p
    BY <1>1, <1>2 DEF RingType
  <1>4. CASE p < q
    <2>1. Precedes(c, d)
      BY <1>2, <1>4 DEF RingOrder
    <2> QED BY <1>1, <2>1 DEF Precedes
  <1>5. CASE q < p
    <2>1. Precedes(d, c)
      BY <1>2, <1>5 DEF RingOrder
    <2> QED BY <1>1, <2>1 DEF Precedes
  <1> QED BY <1>3, <1>4, <1>5

\* Every step keeps it.
LEMMA TurnsNext == ASSUME RingInv, Turns!Next PROVE RingInv'
  <1>1. PICK c \in Turns!Everyone : Turns!Turn(c)
    BY DEF Turns!Next
  <1>2. /\ outcome = "running" /\ queue # <<>> /\ Head(queue) = c
        /\ resumed' = [resumed EXCEPT ![c] = @ + 1] /\ UNCHANGED <<ring, need>>
    BY <1>1 DEF Turns!Turn, Turns!Yielded, Turns!Complete, Turns!Panics, Turns!Resume
  <1>3. RingType /\ RingOrder /\ Turns!TurnsAreFair
    BY <1>2 DEF RingInv
  <1>4. /\ c \in Turns!Members /\ queue[1] = c /\ Len(queue) \in Nat /\ Len(queue) > 0
        /\ Tail(queue) \in Seq(Turns!Members) /\ Len(Tail(queue)) = Len(queue) - 1
        /\ \A p \in 1 .. Len(queue) - 1 : Tail(queue)[p] = queue[p + 1]
    BY <1>2, <1>3, TailShape DEF RingType
  <1>5. /\ Turns!Members' = Turns!Members /\ \A d \in Turns!Members : resumed[d] \in Nat
        /\ resumed' \in [Turns!Members -> Nat] /\ resumed'[c] = resumed[c] + 1
        /\ \A d \in Turns!Members \ {c} : resumed'[d] = resumed[d]
    BY <1>2, <1>3, <1>4 DEF Turns!Members, RingType
  <1>6. \A p \in 1 .. Len(queue) : queue[p] \in Turns!Members /\ (p > 1 => queue[p] # c /\ Precedes(c, queue[p]))
    <2>1. ~Precedes(c, c)
      <3>1. PICK i \in DOMAIN ring.order : ring.order[i] = c
        BY <1>3, <1>4, MemberFacts
      <3>2. i \in Nat /\ resumed[c] \in Nat
        BY <1>3, <1>4, <1>5, MemberFacts
      <3> QED BY <3>1, <3>2 DEF Precedes
    <2>2. \A p \in 2 .. Len(queue) : Precedes(c, queue[p])
      BY <1>3, <1>4 DEF RingOrder
    <2>3. \A p \in 1 .. Len(queue) : queue[p] \in Turns!Members
      BY <1>3 DEF RingType
    <2> QED BY <1>4, <2>1, <2>2, <2>3
  <1>7. \A d, e \in Turns!Members \ {c} : Precedes(d, e) => Precedes(d, e)'
    BY <1>2, <1>5 DEF Precedes
  <1>8. CASE Turns!Yielded(c)
    <2>1. queue' = Append(Tail(queue), c) /\ outcome' = outcome /\ resumed[c] + 1 < need[c]
      BY <1>8 DEF Turns!Yielded, Turns!BackInQueue
    <2>2. /\ queue' \in Seq(Turns!Members) /\ Len(queue') = Len(queue) /\ queue'[Len(queue)] = c
          /\ \A p \in 1 .. Len(queue) - 1 : queue'[p] = queue[p + 1]
      BY <1>4, <2>1, AppendShape
    <2>3. RingType'
      BY <1>2, <1>3, <1>5, <2>1, <2>2 DEF RingType
    <2>4. ASSUME NEW p \in 1 .. Len(queue'), NEW q \in 1 .. Len(queue'), p < q
          PROVE  Precedes(queue[p], queue[q])'
      <3>1. CASE q < Len(queue)
        <4>1. /\ p + 1 \in 1 .. Len(queue) /\ q + 1 \in 1 .. Len(queue) /\ p + 1 > 1 /\ q + 1 > 1
              /\ p + 1 < q + 1 /\ queue'[p] = queue[p + 1] /\ queue'[q] = queue[q + 1]
          BY <1>4, <2>2, <2>4, <3>1
        <4> QED BY <1>3, <1>6, <1>7, <4>1 DEF RingOrder
      <3>2. CASE q = Len(queue)
        <4>1. /\ p + 1 \in 1 .. Len(queue) /\ p + 1 > 1 /\ queue'[p] = queue[p + 1] /\ queue'[q] = c
          BY <1>4, <2>2, <2>4, <3>2
        <4>2. /\ queue'[p] \in Turns!Members \ {c} /\ Precedes(c, queue'[p])
          BY <1>6, <4>1
        <4>3. \A i \in DOMAIN ring.order : i \in Nat
          BY <1>3, MemberFacts
        <4> PICK d \in Turns!Members \ {c} : d = queue'[p]
          BY <4>2
        <4>4. resumed'[d] = resumed[d] /\ resumed'[c] = resumed[c] + 1 /\ resumed[d] \in Nat /\ resumed[c] \in Nat
          BY <1>4, <1>5
        <4>5. ASSUME NEW i \in DOMAIN ring.order, NEW j \in DOMAIN ring.order,
                     ring.order[i] = d, ring.order[j] = c
              PROVE  \/ resumed'[d] = resumed'[c] /\ i < j
                     \/ resumed'[c] = resumed'[d] + 1 /\ j < i
          BY <4>2, <4>3, <4>4, <4>5 DEF Precedes
        <4>6. ring' = ring /\ queue'[p] = d /\ queue'[q] = c
          BY <1>2, <4>1
        <4> HIDE DEF RingType
        <4>7. \A i, j \in DOMAIN ring'.order : ring'.order[i] = queue'[p] /\ ring'.order[j] = queue'[q] =>
                \/ resumed'[queue'[p]] = resumed'[queue'[q]] /\ i < j
                \/ resumed'[queue'[q]] = resumed'[queue'[p]] + 1 /\ j < i
          BY <4>5, <4>6, Zenon
        <4> QED BY <4>7 DEF Precedes
      <3>3. q < Len(queue) \/ q = Len(queue)
        <4>1. Len(queue') = Len(queue) /\ Len(queue) \in Nat
          BY <1>4, <2>2
        <4>2. q \in 1 .. Len(queue)
          BY <4>1
        <4> QED BY <4>1, <4>2
      <3> QED BY <3>1, <3>2, <3>3
    <2>5. ASSUME NEW d \in Turns!Members PROVE (\E p \in 1 .. Len(queue) : queue[p] = d)
                    => \E p \in 1 .. Len(queue') : queue'[p] = d
      <3>1. CASE d = c
        BY <1>4, <2>2, <3>1
      <3>2. ASSUME d # c, NEW p \in 1 .. Len(queue), queue[p] = d PROVE \E q \in 1 .. Len(queue') : queue'[q] = d
        <4>1. p - 1 \in 1 .. Len(queue) - 1 /\ queue'[p - 1] = d
          BY <1>4, <2>2, <3>2
        <4> QED BY <1>4, <2>2, <4>1
      <3> QED BY <3>1, <3>2
    <2>6. RingOrder'
      <3>1. ASSUME NEW d \in Turns!Members, resumed'[d] < need'[d]
            PROVE  \E p \in 1 .. Len(queue') : queue'[p] = d
        <4>1. resumed[d] < need[d]
          BY <1>2, <1>3, <1>4, <1>5, <3>1 DEF RingType
        <4> QED BY <1>3, <2>5, <4>1 DEF RingOrder
      <3> QED BY <1>5, <2>4, <3>1 DEF RingOrder
    <2>7. Turns!TurnsAreFair'
      BY <2>3, <2>6, OrderIsFair, PTL
    <2> QED BY <2>3, <2>6, <2>7 DEF RingInv
  <1>9. CASE Turns!Complete(c)
    <2>1. queue' = Tail(queue) /\ outcome' \in {outcome, "over"} /\ resumed'[c] = need'[c]
      BY <1>2, <1>5, <1>9 DEF Turns!Complete
    <2>3. RingType'
      BY <1>2, <1>3, <1>4, <1>5, <2>1 DEF RingType
    <2>4. ASSUME NEW p \in 1 .. Len(queue'), NEW q \in 1 .. Len(queue'), p < q
          PROVE  Precedes(queue[p], queue[q])'
      <3>1. /\ p + 1 \in 1 .. Len(queue) /\ q + 1 \in 1 .. Len(queue) /\ p + 1 > 1 /\ q + 1 > 1
            /\ p + 1 < q + 1 /\ queue'[p] = queue[p + 1] /\ queue'[q] = queue[q + 1]
        BY <1>4, <2>1, <2>4
      <3> QED BY <1>3, <1>6, <1>7, <3>1 DEF RingOrder
    <2>5. ASSUME NEW d \in Turns!Members, resumed'[d] < need'[d]
          PROVE  \E p \in 1 .. Len(queue') : queue'[p] = d
      <3>1. d # c
        BY <1>2, <1>4, <1>5, <2>1, <2>5 DEF RingType
      <3>2. PICK p \in 1 .. Len(queue) : queue[p] = d
        BY <1>2, <1>3, <1>5, <2>5, <3>1 DEF RingOrder
      <3>3. p - 1 \in 1 .. Len(queue) - 1 /\ queue'[p - 1] = d
        BY <1>4, <2>1, <3>1, <3>2
      <3> QED BY <1>4, <2>1, <3>3
    <2>6. RingOrder'
      BY <1>5, <2>4, <2>5 DEF RingOrder
    <2>7. Turns!TurnsAreFair'
      BY <2>3, <2>6, OrderIsFair, PTL
    <2> QED BY <2>3, <2>6, <2>7 DEF RingInv
  <1>10. CASE Turns!Panics(c)
    <2>1. queue' = queue /\ outcome' = "panicked"
      BY <1>10 DEF Turns!Panics
    <2>2. RingType'
      BY <1>2, <1>3, <1>5, <2>1 DEF RingType
    <2>3. ASSUME NEW i \in DOMAIN ring.order, NEW j \in DOMAIN ring.order, i < j,
                 resumed'[ring.order[i]] < need[ring.order[i]],
                 resumed'[ring.order[j]] < need[ring.order[j]]
          PROVE  resumed'[ring.order[i]] - resumed'[ring.order[j]] \in {0, 1}
      <3> DEFINE d == ring.order[i]
                 e == ring.order[j]
      <3>1. d \in Turns!Members /\ e \in Turns!Members /\ d # e /\ i \in Nat /\ j \in Nat
        BY <1>3, <2>3, MemberFacts
      <3>2. resumed[d] < need[d] /\ resumed[e] < need[e]
        <4>1. \A f \in Turns!Members : need[f] \in Nat /\ resumed[f] \in Nat
          BY <1>3 DEF RingType
        <4>2. \A f \in Turns!Members : resumed'[f] = resumed[f] \/ resumed'[f] = resumed[f] + 1
          BY <1>5
        <4>3. resumed'[d] < need[d] /\ resumed'[e] < need[e]
          BY <2>3
        <4> QED BY <3>1, <4>1, <4>2, <4>3
      <3>3. resumed[d] - resumed[e] \in {0, 1}
        BY <1>3, <2>3, <3>2 DEF Turns!TurnsAreFair
      <3>4. \A f \in Turns!Members \ {c} : resumed[f] < need[f] => Precedes(c, f)
        <4>1. ASSUME NEW f \in Turns!Members \ {c}, resumed[f] < need[f] PROVE Precedes(c, f)
          <5>1. PICK p \in 1 .. Len(queue) : queue[p] = f
            BY <1>3, <4>1 DEF RingOrder
          <5> QED BY <1>4, <1>6, <5>1
        <4> QED BY <4>1
      <3>5. CASE d = c
        <4>1. Precedes(c, e)
          BY <3>1, <3>2, <3>4, <3>5
        <4>2. resumed[c] = resumed[e]
          BY <2>3, <3>1, <3>5, <4>1 DEF Precedes
        <4> QED BY <1>5, <3>1, <3>5, <4>2
      <3>6. CASE e = c
        <4>1. Precedes(c, d)
          BY <3>1, <3>2, <3>4, <3>6
        <4>2. resumed[d] = resumed[c] + 1
          BY <2>3, <3>1, <3>6, <4>1 DEF Precedes
        <4> QED BY <1>5, <3>1, <3>6, <4>2
      <3>7. CASE d # c /\ e # c
        BY <1>5, <3>1, <3>3, <3>7
      <3> QED BY <3>5, <3>6, <3>7
    <2>4. Turns!TurnsAreFair'
      BY <1>2, <2>3 DEF Turns!TurnsAreFair
    <2> QED BY <2>1, <2>2, <2>4 DEF RingInv
  <1> QED BY <1>1, <1>8, <1>9, <1>10 DEF Turns!Turn

\* Coroutines that have turns to come take them in rounds, in every loop of the
\* repository, for any number of turns.
THEOREM CoroutinesTakeTurns == Spec => []TurnsAreFair
  <1>1. Init => RingInv
    BY TurnsInit DEF Init
  <1>2. RingInv /\ [Next]_vars => RingInv'
    <2> SUFFICES ASSUME RingInv, [Next]_vars PROVE RingInv'
      OBVIOUS
    <2>1. CASE UNCHANGED ringVars
      BY <2>1 DEF ringVars, RingInv, RingType, RingOrder, Precedes, Turns!TurnsAreFair, Turns!Members
    <2>2. CASE TurnStep
      BY <2>2, TurnsNext DEF TurnStep
    <2> QED BY <2>1, <2>2 DEF Next, LockStep, AsyncStep, Others, vars
  <1>3. RingInv => TurnsAreFair
    BY DEF RingInv, TurnsAreFair
  <1> QED BY <1>1, <1>2, <1>3, PTL DEF Spec
-----------------------------------------------------------------------------
(* Echo servers.                                                           *)

\* The first end of a line in a sequence that has one.
LEMMA EchoFirstEnd ==
    ASSUME NEW s \in Seq(Nat), Echo!HasLine(s)
    PROVE  Echo!FirstEnd(s) \in 1 .. Len(s)
  <1> DEFINE T == {i \in 1 .. Len(s) : s[i] \in Ends}
             R == {p \in Nat \X Nat : p[1] < p[2]}
  <1>1. T \subseteq Nat /\ T # {} /\ DOMAIN s = 1 .. Len(s) /\ Len(s) \in Nat
    BY DEF Echo!HasLine
  <1>2. IsWellFoundedOn(R, Nat)
    BY NatLessThanWellFounded DEF OpToRel
  <1>3. PICK m \in T : \A y \in T : ~ (<<y, m>> \in R)
    <2> HIDE DEF T, R
    <2> QED BY <1>1, <1>2, WFMin
  <1>4. \A y \in T : ~ (y < m)
    BY <1>1, <1>3
  <1>5. \A j \in 1 .. m - 1 : s[j] \notin Ends
    BY <1>1, <1>4
  <1>6. m \in DOMAIN s /\ s[m] \in Ends
    BY <1>1
  <1> QED BY <1>1, <1>5, <1>6 DEF Echo!FirstEnd

\* The numbers up to m and those from there to n.
LEMMA NumbersGoOn ==
    ASSUME NEW m \in Nat, NEW n \in Nat, m <= n
    PROVE  /\ [i \in 1 .. n - m |-> m + i] \in Seq(Nat)
           /\ Cat([i \in 1 .. m |-> i], [i \in 1 .. n - m |-> m + i]) = [i \in 1 .. n |-> i]
  <1> DEFINE a == [i \in 1 .. m |-> i]
             b == [i \in 1 .. n - m |-> m + i]
             c == [i \in 1 .. n |-> i]
  <1>1. /\ a \in Seq(Nat) /\ Len(a) = m /\ \A i \in 1 .. m : a[i] = i
        /\ c \in Seq(Nat) /\ Len(c) = n /\ \A i \in 1 .. n : c[i] = i
    OBVIOUS
  <1>2. b \in Seq(Nat) /\ Len(b) = n - m /\ \A i \in 1 .. n - m : b[i] = m + i
    <2>1. n - m \in Nat
      OBVIOUS
    <2> QED BY <2>1
  <1> HIDE DEF a, b, c
  <1> DEFINE d == a \o b
  <1>3. /\ d \in Seq(Nat) /\ Len(d) = Len(a) + Len(b)
        /\ \A i \in 1 .. Len(a) + Len(b) : d[i] = IF i <= Len(a) THEN a[i] ELSE b[i - Len(a)]
    <2>1. a \in Seq(Nat) /\ b \in Seq(Nat)
      BY <1>1, <1>2
    <2> QED BY <2>1, ConcatProperties
  <1> HIDE DEF d
  <1>4. Len(d) = n /\ \A i \in 1 .. n : d[i] = i
    <2>1. Len(d) = n /\ Len(a) = m /\ Len(b) = n - m
      BY <1>1, <1>2, <1>3
    <2>2. ASSUME NEW i \in 1 .. n PROVE d[i] = i
      <3>1. CASE i <= m
        BY <1>1, <1>3, <2>1, <3>1
      <3>2. CASE i > m
        <4>1. i - m \in 1 .. n - m /\ i \in 1 .. Len(a) + Len(b) /\ ~ (i <= Len(a))
          BY <2>1, <3>2
        <4>2. d[i] = b[i - m]
          BY <1>3, <2>1, <4>1
        <4>3. b[i - m] = m + (i - m)
          BY <1>2, <4>1
        <4> QED BY <4>2, <4>3
      <3> QED BY <3>1, <3>2
    <2> QED BY <2>1, <2>2
  <1>5. d = c
    BY <1>1, <1>3, <1>4, SeqEqual
  <1> QED BY <1>2, <1>5 DEF a, b, c, d, Cat

\* The laws of concatenation for sequences of pieces.
LEMMA PieceLaws ==
    /\ \A s, t \in Seq(Nat) : Cat(s, t) \in Seq(Nat)
    /\ \A s, t, u \in Seq(Nat) : Cat(Cat(s, t), u) = Cat(s, Cat(t, u))
    /\ \A s \in Seq(Nat) : Cat(s, <<>>) = s /\ Cat(<<>>, s) = s
    /\ <<>> \in Seq(Nat)
  BY CatLaws

\* One law alone, for steps that need it three or four times over.
LEMMA PieceAssoc ==
    ASSUME NEW s \in Seq(Nat), NEW t \in Seq(Nat), NEW u \in Seq(Nat)
    PROVE  Cat(Cat(s, t), u) = Cat(s, Cat(t, u))
  BY PieceLaws

EchoType ==
    /\ sent \in [Peers -> Nat]
    /\ net \in [Peers -> Seq(Nat)] /\ inBuf \in [Peers -> Seq(Nat)]
    /\ outBuf \in [Peers -> Seq(Nat)] /\ echoed \in [Peers -> Seq(Nat)]
    /\ ended \in [Peers -> {"open", "eof", "reset"}]

\* EchoedInOrder with its concatenations as applications of Cat.
InOrder(p) == ended[p] # "reset" =>
    Cat(Cat(Cat(echoed[p], outBuf[p]), inBuf[p]), net[p]) = [i \in 1 .. sent[p] |-> i]

LEMMA InOrderIsInOrder == Echo!EchoedInOrder <=> \A p \in Peers : InOrder(p)
  BY DEF Echo!EchoedInOrder, InOrder, Cat

\* The server of epoll_server.rs keeps nothing back.
EchoInv ==
    /\ EchoType /\ \A p \in Peers : InOrder(p)
    /\ server = "epoll" => \A p \in Peers : outBuf[p] = <<>>

\* What read_line takes and what it leaves is what there was.
LEMMA TakenLine ==
    ASSUME EchoType, NEW p \in Peers, Echo!TakeLine(p)
    PROVE  /\ Echo!Line(p) \in Seq(Nat)
           /\ inBuf' \in [Peers -> Seq(Nat)] /\ net' \in [Peers -> Seq(Nat)]
           /\ Cat(Echo!Line(p), Cat(inBuf'[p], net'[p])) = Cat(inBuf[p], net[p])
           /\ \A q \in Peers \ {p} : inBuf'[q] = inBuf[q] /\ net'[q] = net[q]
  <1> DEFINE b == Echo!Buffered(p)
             k == Echo!LineLength(b)
             rest == SubSeq(b, k + 1, Len(b))
  <1>1. inBuf[p] \in Seq(Nat) /\ net[p] \in Seq(Nat) /\ Cat(inBuf[p], net[p]) \in Seq(Nat)
    BY PieceLaws DEF EchoType
  <1>2. /\ b = IF Echo!HasLine(inBuf[p]) THEN inBuf[p] ELSE Cat(inBuf[p], net[p])
        /\ b \in Seq(Nat)
    BY <1>1 DEF Echo!Buffered, Cat
  <1>3. k \in 0 .. Len(b)
    <2> HIDE DEF b
    <2>1. Len(b) \in Nat
      BY <1>2
    <2> QED BY <1>2, <2>1, EchoFirstEnd DEF Echo!LineLength
  <1>4. /\ SubSeq(b, 1, k) \in Seq(Nat) /\ Len(SubSeq(b, 1, k)) = k
        /\ rest \in Seq(Nat) /\ Cat(SubSeq(b, 1, k), rest) = b
    <2> HIDE DEF b, k
    <2> QED BY <1>2, <1>3, CutInTwo
  <1>5. Echo!Line(p) = SubSeq(b, 1, k)
    BY DEF Echo!Line
  <1>6. inBuf' = [inBuf EXCEPT ![p] = rest]
    BY <1>4, <1>5 DEF Echo!TakeLine
  <1>7. net' = IF Echo!HasLine(inBuf[p]) THEN net ELSE [net EXCEPT ![p] = <<>>]
    BY DEF Echo!TakeLine
  <1> HIDE DEF b, k, rest
  <1>8. /\ inBuf' \in [Peers -> Seq(Nat)] /\ net' \in [Peers -> Seq(Nat)]
        /\ inBuf'[p] = rest /\ \A q \in Peers \ {p} : inBuf'[q] = inBuf[q] /\ net'[q] = net[q]
        /\ net'[p] = IF Echo!HasLine(inBuf[p]) THEN net[p] ELSE <<>>
    BY <1>4, <1>6, <1>7 DEF EchoType
  <1>9. Cat(Echo!Line(p), Cat(rest, net'[p])) = Cat(b, net'[p])
    <2>1. net'[p] \in Seq(Nat) /\ Echo!Line(p) \in Seq(Nat)
      BY <1>4, <1>5, <1>8
    <2>2. Cat(Cat(Echo!Line(p), rest), net'[p]) = Cat(Echo!Line(p), Cat(rest, net'[p]))
      <3> DEFINE l == Echo!Line(p)
                 n == net'[p]
      <3>1. l \in Seq(Nat) /\ rest \in Seq(Nat) /\ n \in Seq(Nat)
        BY <1>4, <2>1
      <3> HIDE DEF l, n
      <3>2. Cat(Cat(l, rest), n) = Cat(l, Cat(rest, n))
        BY <3>1, PieceAssoc
      <3> QED BY <3>2 DEF l, n
    <2> QED BY <1>4, <1>5, <2>2
  <1>10. Cat(b, net'[p]) = Cat(inBuf[p], net[p])
    BY <1>1, <1>2, <1>8, PieceLaws
  <1> QED BY <1>4, <1>5, <1>8, <1>9, <1>10

\* A line that goes from the reader to what is sent back, or to the writer behind
\* it, stays where it is in the order of the pieces.
LEMMA LineMovesOn ==
    ASSUME EchoInv, NEW p \in Peers, Echo!TakeLine(p), UNCHANGED <<sent, ended>>,
           echoed' \in [Peers -> Seq(Nat)], outBuf' \in [Peers -> Seq(Nat)],
           Cat(echoed'[p], outBuf'[p]) = Cat(Cat(echoed[p], outBuf[p]), Echo!Line(p)),
           \A q \in Peers \ {p} : echoed'[q] = echoed[q] /\ outBuf'[q] = outBuf[q]
    PROVE  EchoType' /\ \A q \in Peers : InOrder(q)'
  <1>1. EchoType /\ \A q \in Peers : InOrder(q)
    BY DEF EchoInv
  <1>2. /\ Echo!Line(p) \in Seq(Nat)
        /\ inBuf' \in [Peers -> Seq(Nat)] /\ net' \in [Peers -> Seq(Nat)]
        /\ Cat(Echo!Line(p), Cat(inBuf'[p], net'[p])) = Cat(inBuf[p], net[p])
        /\ \A q \in Peers \ {p} : inBuf'[q] = inBuf[q] /\ net'[q] = net[q]
    BY <1>1, TakenLine
  <1>3. EchoType'
    BY <1>1, <1>2 DEF EchoType
  <1>4. InOrder(p)'
    <2> DEFINE x == Cat(echoed[p], outBuf[p])
               l == Echo!Line(p)
               i == inBuf'[p]
               n == net'[p]
    <2>1. x \in Seq(Nat) /\ l \in Seq(Nat) /\ i \in Seq(Nat) /\ n \in Seq(Nat)
          /\ inBuf[p] \in Seq(Nat) /\ net[p] \in Seq(Nat)
      BY <1>1, <1>2, PieceLaws DEF EchoType
    <2>2. ended[p] # "reset" => Cat(Cat(x, inBuf[p]), net[p]) = [j \in 1 .. sent[p] |-> j]
      BY <1>1 DEF InOrder
    <2>3. Cat(Cat(Cat(x, l), i), n) = Cat(Cat(x, inBuf[p]), net[p])
      <3> DEFINE a == inBuf[p]
                 b == net[p]
      <3>1. Cat(l, Cat(i, n)) = Cat(a, b)
        BY <1>2
      <3>2. a \in Seq(Nat) /\ b \in Seq(Nat)
        BY <2>1
      <3> HIDE DEF x, l, i, n, a, b
      <3>3. Cat(x, l) \in Seq(Nat) /\ Cat(i, n) \in Seq(Nat)
        BY <2>1, PieceLaws
      <3>4. Cat(Cat(Cat(x, l), i), n) = Cat(Cat(x, l), Cat(i, n))
        BY <2>1, <3>3, PieceAssoc
      <3>5. Cat(Cat(x, l), Cat(i, n)) = Cat(x, Cat(l, Cat(i, n)))
        BY <2>1, <3>3, PieceAssoc
      <3>6. Cat(Cat(x, a), b) = Cat(x, Cat(a, b))
        BY <2>1, <3>2, PieceAssoc
      <3> QED BY <3>1, <3>4, <3>5, <3>6 DEF a, b
    <2>4. Cat(echoed'[p], outBuf'[p]) = Cat(x, l)
      OBVIOUS
    <2> QED BY <2>2, <2>3, <2>4 DEF InOrder
  <1>5. ASSUME NEW q \in Peers \ {p} PROVE InOrder(q)'
    BY <1>1, <1>2 DEF InOrder
  <1> QED BY <1>3, <1>4, <1>5

\* Every step keeps it.
LEMMA EchoNext == ASSUME EchoInv, Echo!Next PROVE EchoInv'
  <1>1. EchoType /\ \A q \in Peers : InOrder(q)
    BY DEF EchoInv
  <1>2. ASSUME NEW p \in Peers, Echo!PeerSends(p) PROVE EchoInv'
    <2>1. PICK k \in sent[p] + 1 .. Pieces :
            /\ sent' = [sent EXCEPT ![p] = k]
            /\ net' = [net EXCEPT ![p] = Cat(net[p], [i \in 1 .. k - sent[p] |-> sent[p] + i])]
      BY <1>2 DEF Echo!PeerSends, Cat
    <2>2. UNCHANGED <<server, inBuf, outBuf, echoed, ended>> /\ ended[p] = "open"
      BY <1>2 DEF Echo!PeerSends
    <2> DEFINE d == [i \in 1 .. k - sent[p] |-> sent[p] + i]
               x == Cat(Cat(echoed[p], outBuf[p]), inBuf[p])
    <2>3. sent[p] \in Nat /\ k \in Nat /\ sent[p] <= k
      BY <1>1, ProgramsAssumption DEF EchoType
    <2>4. d \in Seq(Nat) /\ Cat([i \in 1 .. sent[p] |-> i], d) = [i \in 1 .. k |-> i]
      BY <2>3, NumbersGoOn
    <2>5. x \in Seq(Nat) /\ net[p] \in Seq(Nat) /\ Cat(net[p], d) \in Seq(Nat)
      <3> HIDE DEF d
      <3>1. echoed[p] \in Seq(Nat) /\ outBuf[p] \in Seq(Nat) /\ inBuf[p] \in Seq(Nat) /\ net[p] \in Seq(Nat)
        BY <1>1 DEF EchoType
      <3> QED BY <2>4, <3>1, PieceLaws
    <2>6. Cat(x, net[p]) = [i \in 1 .. sent[p] |-> i]
      BY <1>1, <2>2 DEF InOrder
    <2> HIDE DEF x, d
    <2>7. Cat(x, Cat(net[p], d)) = Cat(Cat(x, net[p]), d)
      <3> DEFINE a == net[p]
      <3>1. x \in Seq(Nat) /\ a \in Seq(Nat) /\ d \in Seq(Nat)
        BY <2>4, <2>5
      <3> HIDE DEF a
      <3>2. Cat(Cat(x, a), d) = Cat(x, Cat(a, d))
        BY <3>1, PieceAssoc
      <3> QED BY <3>2 DEF a
    <2>8. net'[p] = Cat(net[p], d) /\ sent'[p] = k
      BY <1>1, <2>1 DEF EchoType, d
    <2>9. EchoType'
      BY <1>1, <2>1, <2>2, <2>3, <2>5 DEF EchoType, d
    <2>10. InOrder(p)'
      BY <2>2, <2>4, <2>6, <2>7, <2>8 DEF InOrder, x
    <2>11. ASSUME NEW q \in Peers \ {p} PROVE InOrder(q)'
      <3>1. sent'[q] = sent[q] /\ net'[q] = net[q]
        BY <1>1, <2>1 DEF EchoType
      <3> QED BY <1>1, <2>2, <3>1 DEF InOrder
    <2> QED BY <2>2, <2>9, <2>10, <2>11 DEF EchoInv
  <1>3. ASSUME NEW p \in Peers, Echo!EpollEcho(p) PROVE EchoInv'
    <2> DEFINE l == Echo!Line(p)
               e == echoed[p]
    <2>1. /\ Echo!TakeLine(p) /\ UNCHANGED <<server, sent, outBuf>>
          /\ server = "epoll" /\ outBuf[p] = <<>>
          /\ \/ echoed' = [echoed EXCEPT ![p] = Cat(e, l)] /\ ended' = ended
             \/ /\ \E n \in 1 .. Len(l) - 1 : echoed' = [echoed EXCEPT ![p] = Cat(e, SubSeq(l, 1, n))]
                /\ ended' = [ended EXCEPT ![p] = "reset"]
      BY <1>3 DEF Echo!EpollEcho, Echo!Event, EchoInv, Cat
    <2>2. e \in Seq(Nat) /\ l \in Seq(Nat)
      BY <1>1, <2>1, TakenLine DEF EchoType
    <2>3. Cat(e, l) \in Seq(Nat) /\ \A n \in 1 .. Len(l) - 1 : Cat(e, SubSeq(l, 1, n)) \in Seq(Nat)
      <3> HIDE DEF l, e
      <3>1. \A n \in 1 .. Len(l) - 1 : SubSeq(l, 1, n) \in Seq(Nat)
        BY <2>2
      <3> QED BY <2>2, <3>1, PieceLaws
    <2>4. CASE echoed' = [echoed EXCEPT ![p] = Cat(e, l)] /\ ended' = ended
      <3>1. echoed' \in [Peers -> Seq(Nat)] /\ outBuf' \in [Peers -> Seq(Nat)]
            /\ echoed'[p] = Cat(e, l) /\ \A q \in Peers \ {p} : echoed'[q] = echoed[q]
        <4> HIDE DEF l
        <4> QED BY <1>1, <2>1, <2>3, <2>4 DEF EchoType
      <3>2. Cat(echoed'[p], outBuf'[p]) = Cat(Cat(e, outBuf[p]), l)
        <4> HIDE DEF l
        <4> QED BY <2>1, <2>2, <2>3, <3>1, PieceLaws
      <3>3. EchoType' /\ \A q \in Peers : InOrder(q)'
        BY <2>1, <2>4, <3>1, <3>2, LineMovesOn
      <3> QED BY <2>1, <3>3 DEF EchoInv
    <2>5. ASSUME NEW n \in 1 .. Len(l) - 1, echoed' = [echoed EXCEPT ![p] = Cat(e, SubSeq(l, 1, n))],
                 ended' = [ended EXCEPT ![p] = "reset"]
          PROVE  EchoInv'
      <3>1. /\ inBuf' \in [Peers -> Seq(Nat)] /\ net' \in [Peers -> Seq(Nat)]
            /\ \A q \in Peers \ {p} : inBuf'[q] = inBuf[q] /\ net'[q] = net[q]
        BY <1>1, <2>1, TakenLine
      <3>2. /\ echoed' \in [Peers -> Seq(Nat)] /\ \A q \in Peers \ {p} : echoed'[q] = echoed[q]
            /\ ended' \in [Peers -> {"open", "eof", "reset"}] /\ ended'[p] = "reset"
            /\ \A q \in Peers \ {p} : ended'[q] = ended[q]
        <4> HIDE DEF l
        <4> QED BY <1>1, <2>3, <2>5 DEF EchoType
      <3>3. EchoType'
        BY <1>1, <2>1, <3>1, <3>2 DEF EchoType
      <3>4. \A q \in Peers : InOrder(q)'
        BY <1>1, <2>1, <3>1, <3>2 DEF InOrder
      <3> QED BY <2>1, <3>3, <3>4 DEF EchoInv
    <2> QED BY <2>1, <2>4, <2>5
  <1>4. ASSUME NEW p \in Peers, Echo!TokioEcho(p) PROVE EchoInv'
    <2>1. /\ Echo!TakeLine(p) /\ Echo!WriteAll(p, Echo!Line(p)) /\ sent' = sent
          /\ ended' = ended /\ server = "tokio" /\ server' = "tokio"
      BY <1>4 DEF Echo!TokioEcho, Echo!Task
    <2> DEFINE e == echoed[p]
               o == outBuf[p]
               l == Echo!Line(p)
    <2>2. e \in Seq(Nat) /\ o \in Seq(Nat) /\ l \in Seq(Nat)
      BY <1>1, <2>1, TakenLine DEF EchoType
    <2>3. \/ outBuf' = [outBuf EXCEPT ![p] = Cat(o, l)] /\ echoed' = echoed
          \/ outBuf' = [outBuf EXCEPT ![p] = <<>>] /\ echoed' = [echoed EXCEPT ![p] = Cat(Cat(e, o), l)]
          \/ outBuf' = [outBuf EXCEPT ![p] = l] /\ echoed' = [echoed EXCEPT ![p] = Cat(e, o)]
      BY <2>1, Zenon DEF Echo!WriteAll, Cat
    <2>4. /\ Cat(o, l) \in Seq(Nat) /\ Cat(Cat(e, o), l) \in Seq(Nat) /\ Cat(e, o) \in Seq(Nat)
          /\ <<>> \in Seq(Nat) /\ Cat(Cat(Cat(e, o), l), <<>>) = Cat(Cat(e, o), l)
          /\ Cat(e, Cat(o, l)) = Cat(Cat(e, o), l)
      <3> HIDE DEF e, o, l
      <3> QED BY <2>2, PieceLaws
    <2>5. /\ echoed' \in [Peers -> Seq(Nat)] /\ outBuf' \in [Peers -> Seq(Nat)]
          /\ Cat(echoed'[p], outBuf'[p]) = Cat(Cat(e, o), l)
          /\ \A r \in Peers \ {p} : echoed'[r] = echoed[r] /\ outBuf'[r] = outBuf[r]
      <3>1. /\ echoed \in [Peers -> Seq(Nat)] /\ outBuf \in [Peers -> Seq(Nat)]
            /\ echoed[p] = e /\ outBuf[p] = o
        BY <1>1 DEF EchoType
      <3> HIDE DEF e, o, l
      <3>2. CASE outBuf' = [outBuf EXCEPT ![p] = Cat(o, l)] /\ echoed' = echoed
        BY <2>4, <3>1, <3>2
      <3>3. CASE outBuf' = [outBuf EXCEPT ![p] = <<>>] /\ echoed' = [echoed EXCEPT ![p] = Cat(Cat(e, o), l)]
        <4>1. Cat(Cat(e, o), l) \in Seq(Nat) /\ Cat(Cat(Cat(e, o), l), <<>>) = Cat(Cat(e, o), l)
          BY <2>4
        <4> DEFINE x == Cat(Cat(e, o), l)
        <4> HIDE DEF x
        <4>2. echoed' = [echoed EXCEPT ![p] = x] /\ x \in Seq(Nat)
          BY <3>3, <4>1 DEF x
        <4>3. /\ echoed' \in [Peers -> Seq(Nat)] /\ outBuf' \in [Peers -> Seq(Nat)]
              /\ echoed'[p] = x /\ outBuf'[p] = <<>>
              /\ \A r \in Peers \ {p} : echoed'[r] = echoed[r] /\ outBuf'[r] = outBuf[r]
          BY <3>1, <3>3, <4>2
        <4> QED BY <4>1, <4>3 DEF x
      <3>4. CASE outBuf' = [outBuf EXCEPT ![p] = l] /\ echoed' = [echoed EXCEPT ![p] = Cat(e, o)]
        BY <2>2, <2>4, <3>1, <3>4
      <3> QED BY <2>3, <3>2, <3>3, <3>4
    <2>6. EchoType' /\ \A q \in Peers : InOrder(q)'
      BY <2>1, <2>5, LineMovesOn
    <2> QED BY <2>1, <2>6 DEF EchoInv
  <1>5. ASSUME UNCHANGED <<sent, ended, net, inBuf, outBuf, echoed>>, server' \in {server, "down"}
        PROVE  EchoInv'
    BY <1>5 DEF EchoInv, EchoType, InOrder
  <1>6. CASE Echo!EpollWait \/ Echo!EpollAccept
    BY <1>5, <1>6 DEF Echo!EpollWait, Echo!EpollAccept
  <1>7. ASSUME NEW p \in Peers,
               \/ Echo!EpollClose(p) \/ Echo!EpollPanics(p)
               \/ Echo!TokioAccept(p) \/ Echo!TokioClose(p)
        PROVE  EchoInv'
    BY <1>5, <1>7 DEF Echo!EpollClose, Echo!EpollPanics, Echo!TokioAccept, Echo!TokioClose
  <1>8. ASSUME NEW p \in Peers, Echo!PeerLeaves(p) \/ Echo!PeerIsGone(p) PROVE EchoInv'
    <2>1. /\ UNCHANGED <<sent, net, inBuf, outBuf, echoed, server>> /\ ended[p] # "reset"
          /\ \E how \in {"eof", "reset"} : ended' = [ended EXCEPT ![p] = how]
      BY <1>8 DEF Echo!PeerLeaves, Echo!PeerIsGone
    <2>2. ended' \in [Peers -> {"open", "eof", "reset"}] /\ \A q \in Peers : ended'[q] # "reset" => ended[q] # "reset"
      BY <1>1, <2>1 DEF EchoType
    <2>3. EchoType'
      BY <1>1, <2>1, <2>2 DEF EchoType
    <2>4. \A q \in Peers : InOrder(q)'
      BY <1>1, <2>1, <2>2 DEF InOrder
    <2> QED BY <2>1, <2>3, <2>4 DEF EchoInv
  <1> QED BY <1>2, <1>3, <1>4, <1>6, <1>7, <1>8 DEF Echo!Next, Echo!Serve

\* No piece is lost, doubled or overtaken on its way through either server, for
\* any number of peers and pieces, wherever the lines end and however much the
\* BufWriter holds.
THEOREM PiecesStayInOrder == Spec => []EchoedInOrder
  <1>1. Init => EchoInv
    <2> SUFFICES ASSUME Echo!Init PROVE EchoInv
      BY DEF Init
    <2>1. EchoType
      BY DEF Echo!Init, Echo!Empty, EchoType
    <2>2. Cat(Cat(Cat(<<>>, <<>>), <<>>), <<>>) = [i \in 1 .. 0 |-> i]
      <3>1. Cat(<<>>, <<>>) = <<>>
        BY PieceLaws
      <3>2. [i \in 1 .. 0 |-> i] = <<>>
        OBVIOUS
      <3> QED BY <3>1, <3>2
    <2>3. \A p \in Peers : sent[p] = 0 /\ echoed[p] = <<>> /\ outBuf[p] = <<>> /\ inBuf[p] = <<>> /\ net[p] = <<>>
      BY DEF Echo!Init, Echo!Empty
    <2> QED BY <2>1, <2>2, <2>3 DEF Echo!Init, Echo!Empty, EchoInv, InOrder
  <1>2. EchoInv /\ [Next]_vars => EchoInv'
    <2> SUFFICES ASSUME EchoInv, [Next]_vars PROVE EchoInv'
      OBVIOUS
    <2>1. CASE UNCHANGED echoVars
      BY <2>1 DEF echoVars, EchoInv, EchoType, InOrder
    <2>2. CASE Echo!Next
      BY <2>2, EchoNext
    <2>3. EchoServe => Echo!Next
      BY DEF EchoServe, Echo!Next
    <2> QED BY <2>1, <2>2, <2>3 DEF Next, LockStep, AsyncStep, TurnStep, Others, vars
  <1>3. EchoInv => EchoedInOrder
    BY InOrderIsInOrder DEF EchoInv, EchoedInOrder
  <1> QED BY <1>1, <1>2, <1>3, PTL DEF Spec
-----------------------------------------------------------------------------
(* The exchange.                                                           *)

TcpType ==
    /\ pos \in 0 .. Size /\ retries \in Nat
    /\ toServer \in Seq(Int) /\ buffer \in Seq(Int)
    /\ toClient \in Seq(Int) /\ got \in Seq(Int)

\* As long as no poll was blocked, what was read and what is on the way are what
\* was written; once the server has answered, what was received and what is on the
\* way are the answer.
ExchangeInv ==
    /\ TcpType
    /\ retries = 0 => Cat(buffer, toServer) = SubSeq(Tcp!Frame, 1, pos)
    /\ spc # "closed" => toClient = <<>> /\ got = <<>>
    /\ spc = "closed" => Cat(got, toClient) = Tcp!Reply
    /\ result = "ok" => cpc = "done"
    /\ Tcp!GarbledOnlyByRetry /\ Tcp!OkIsWholeReply

\* The laws of concatenation for sequences of units.
LEMMA UnitLaws ==
    /\ \A s, t \in Seq(Int) : Cat(s, t) \in Seq(Int)
    /\ \A s, t, u \in Seq(Int) : Cat(Cat(s, t), u) = Cat(s, Cat(t, u))
    /\ \A s \in Seq(Int) : Cat(s, <<>>) = s /\ Cat(<<>>, s) = s
    /\ <<>> \in Seq(Int)
  BY CatLaws

LEMMA FrameAndReply ==
    /\ Tcp!Frame \in Seq(Int) /\ Len(Tcp!Frame) = Size
    /\ Tcp!Reply \in Seq(Int)
  BY ProgramsAssumption DEF Tcp!Frame, Tcp!Reply

\* The first part of the frame, and what a write adds to it.
LEMMA FrameParts ==
    ASSUME NEW i \in 0 .. Size, NEW n \in Nat, i + n <= Size
    PROVE  /\ SubSeq(Tcp!Frame, 1, i) \in Seq(Int) /\ Len(SubSeq(Tcp!Frame, 1, i)) = i
           /\ SubSeq(Tcp!Frame, i + 1, i + n) \in Seq(Int)
           /\ Cat(SubSeq(Tcp!Frame, 1, i), SubSeq(Tcp!Frame, i + 1, i + n)) = SubSeq(Tcp!Frame, 1, i + n)
  <1>1. Size \in Nat /\ Tcp!Frame \in Seq(Int) /\ Len(Tcp!Frame) = Size
    BY FrameAndReply, ProgramsAssumption
  <1> DEFINE f == Tcp!Frame
  <1> HIDE DEF f
  <1>2. /\ \A j \in 1 .. i : f[j] \in Int
        /\ \A j \in i + 1 .. i + n : f[j] \in Int
    BY <1>1 DEF f
  <1>3. SubSeq(f, 1, i) \in Seq(Int) /\ Len(SubSeq(f, 1, i)) = IF 1 <= i THEN i - 1 + 1 ELSE 0
    <2>1. 1 \in Int /\ i \in Int
      BY <1>1
    <2> QED BY <1>2, <2>1, SubSeqProperties
  <1>4. SubSeq(f, i + 1, i + n) \in Seq(Int)
    <2>1. i + 1 \in Int /\ i + n \in Int
      BY <1>1
    <2> QED BY <1>2, <2>1, SubSeqProperties
  <1>5. \A m \in 1 .. Len(f) + 1 : \A j \in m - 1 .. Len(f) : \A k \in j .. Len(f) :
          Cat(SubSeq(f, m, j), SubSeq(f, j + 1, k)) = SubSeq(f, m, k)
    BY <1>1, ConcatAdjacentSubSeq DEF Cat, f
  <1>6. 1 \in 1 .. Len(f) + 1 /\ i \in 1 - 1 .. Len(f) /\ i + n \in i .. Len(f)
    BY <1>1 DEF f
  <1>7. Cat(SubSeq(f, 1, i), SubSeq(f, i + 1, i + n)) = SubSeq(f, 1, i + n)
    BY <1>5, <1>6
  <1>8. Len(SubSeq(f, 1, i)) = i
    BY <1>1, <1>3
  <1> QED BY <1>3, <1>4, <1>7, <1>8 DEF f

\* What comes first in a part of the frame is a prefix of the frame.
LEMMA FirstIsPrefix ==
    ASSUME NEW s \in Seq(Int), NEW t \in Seq(Int), NEW i \in 0 .. Size,
           Cat(s, t) = SubSeq(Tcp!Frame, 1, i)
    PROVE  Tcp!IsPrefix(s, Tcp!Frame)
  <1> DEFINE f == Tcp!Frame
             c == Cat(s, t)
  <1>1. f \in Seq(Int) /\ Len(f) = Size /\ Size \in Nat
    BY FrameAndReply, ProgramsAssumption
  <1>2. /\ c \in Seq(Int) /\ Len(c) = Len(s) + Len(t) /\ Len(s) \in Nat /\ Len(t) \in Nat
        /\ \A j \in 1 .. Len(s) : c[j] = s[j]
    <2>1. s \o t \in Seq(Int) /\ Len(s \o t) = Len(s) + Len(t) /\ Len(s) \in Nat /\ Len(t) \in Nat
      OBVIOUS
    <2>2. \A j \in 1 .. Len(s) : (s \o t)[j] = s[j]
      BY <2>1
    <2> QED BY <2>1, <2>2 DEF Cat
  <1>3. Len(SubSeq(f, 1, i)) = i
    <2>1. i + 0 <= Size /\ 0 \in Nat
      BY <1>1
    <2> QED BY <2>1, FrameParts
  <1>4. Len(s) <= i /\ Len(s) <= Len(f)
    BY <1>1, <1>2, <1>3
  <1>5. \A j \in 1 .. i : c[j] = f[j]
    <2>1. \A j \in 1 .. i : f[j] \in Int
      BY <1>1
    <2>2. \A j \in 1 .. i - 1 + 1 : SubSeq(f, 1, i)[j] = f[1 + j - 1]
      <3>1. 1 \in Int /\ i \in Int
        OBVIOUS
      <3> HIDE DEF f
      <3> QED BY <2>1, <3>1, SubSeqProperties
    <2>3. \A j \in 1 .. i : j \in 1 .. i - 1 + 1 /\ 1 + j - 1 = j
      OBVIOUS
    <2> HIDE DEF f, c
    <2> QED BY <2>2, <2>3 DEF f, c
  <1>6. \A j \in 1 .. Len(s) : s[j] = f[j]
    BY <1>1, <1>2, <1>4, <1>5
  <1>7. SubSeq(s, 1, Len(s)) = SubSeq(f, 1, Len(s))
    BY <1>1, <1>2, <1>4, <1>6
  <1> QED BY <1>4, <1>7 DEF Tcp!IsPrefix

LEMMA ExchangeInit == ASSUME Tcp!Init PROVE ExchangeInv
  <1>1. TcpType
    BY ProgramsAssumption DEF Tcp!Init, TcpType
  <1>2. Cat(<<>>, <<>>) = <<>>
    BY UnitLaws
  <1>3. SubSeq(Tcp!Frame, 1, 0) = <<>>
    <2>1. 1 \in Int /\ 0 \in Int /\ 0 < 1
      OBVIOUS
    <2> QED BY <2>1, SubSeqEmpty
  <1> QED BY <1>1, <1>2, <1>3 DEF Tcp!Init, ExchangeInv, Tcp!GarbledOnlyByRetry, Tcp!OkIsWholeReply

\* A read takes the first n units, and what is left comes after them.
LEMMA UnitsMoveOn ==
    ASSUME NEW s \in Seq(Int), NEW t \in Seq(Int), NEW n \in 1 .. Len(t)
    PROVE  /\ Cat(s, SubSeq(t, 1, n)) \in Seq(Int) /\ SubSeq(t, n + 1, Len(t)) \in Seq(Int)
           /\ Cat(Cat(s, SubSeq(t, 1, n)), SubSeq(t, n + 1, Len(t))) = Cat(s, t)
  <1>1. n \in 0 .. Len(t)
    OBVIOUS
  <1>2. /\ SubSeq(t, 1, n) \in Seq(Int) /\ SubSeq(t, n + 1, Len(t)) \in Seq(Int)
        /\ Cat(SubSeq(t, 1, n), SubSeq(t, n + 1, Len(t))) = t
    BY <1>1, CutInTwo
  <1> DEFINE a == SubSeq(t, 1, n)
             b == SubSeq(t, n + 1, Len(t))
  <1> HIDE DEF a, b
  <1>3. a \in Seq(Int) /\ b \in Seq(Int) /\ Cat(a, b) = t
    BY <1>2 DEF a, b
  <1>4. Cat(s, a) \in Seq(Int) /\ Cat(Cat(s, a), b) = Cat(s, t)
    BY <1>3, UnitLaws
  <1> QED BY <1>3, <1>4 DEF a, b

LEMMA ExchangeNext == ASSUME ExchangeInv, Tcp!Next PROVE ExchangeInv'
  <1>1. TcpType /\ Size \in Nat /\ SendRoom \in Nat /\ MaxRetries \in Nat
    BY ProgramsAssumption DEF ExchangeInv
  <1> USE DEF Tcp!GarbledOnlyByRetry, Tcp!OkIsWholeReply
  <1>2. CASE Tcp!Write
    <2> DEFINE n == Tcp!Least(Size - pos, Tcp!SpaceLeft)
               a == SubSeq(Tcp!Frame, pos + 1, pos + n)
    <2>1. /\ toServer' = Cat(toServer, a) /\ pos' = pos + n /\ cpc = "send" /\ Tcp!SpaceLeft > 0
          /\ UNCHANGED <<retries, toClient, spc, buffer, decoded, reset, got, result>>
      BY <1>2 DEF Tcp!Write, Cat
    <2>2. Len(toServer) \in Nat /\ Tcp!SpaceLeft \in Int
      BY <1>1 DEF TcpType, Tcp!SpaceLeft
    <2>3. n \in Nat /\ pos + n <= Size /\ pos + n \in 0 .. Size /\ pos \in 0 .. Size
      BY <1>1, <2>1, <2>2 DEF TcpType, Tcp!Least
    <2> HIDE DEF n
    <2>4. a \in Seq(Int) /\ Cat(SubSeq(Tcp!Frame, 1, pos), a) = SubSeq(Tcp!Frame, 1, pos + n)
      BY <2>3, FrameParts
    <2> HIDE DEF a
    <2>5. toServer \in Seq(Int) /\ buffer \in Seq(Int) /\ Cat(toServer, a) \in Seq(Int)
      BY <1>1, <2>4, UnitLaws DEF TcpType
    <2>6. Cat(buffer, Cat(toServer, a)) = Cat(Cat(buffer, toServer), a)
      BY <2>4, <2>5, UnitLaws
    <2>7. TcpType'
      BY <1>1, <2>1, <2>3, <2>5 DEF TcpType
    <2>8. retries' = 0 => Cat(buffer, toServer)' = SubSeq(Tcp!Frame, 1, pos)'
      <3> SUFFICES ASSUME retries = 0 PROVE Cat(buffer, toServer') = SubSeq(Tcp!Frame, 1, pos')
        BY <2>1 DEF Tcp!Frame
      <3>1. Cat(buffer, toServer) = SubSeq(Tcp!Frame, 1, pos)
        BY DEF ExchangeInv
      <3> QED BY <2>1, <2>4, <2>6, <3>1
    <2> QED BY <2>1, <2>7, <2>8 DEF ExchangeInv, Tcp!Reply
  <1>3. CASE Tcp!WriteWouldBlock
    <2>1. retries' = retries + 1 /\ retries' \in Nat /\ retries' # 0 /\ retries' > 0 /\ pos' = 0
      BY <1>1, <1>3 DEF Tcp!WriteWouldBlock, TcpType
    <2>2. TcpType'
      BY <1>1, <1>3, <2>1 DEF Tcp!WriteWouldBlock, TcpType
    <2> QED BY <1>3, <2>1, <2>2 DEF Tcp!WriteWouldBlock, ExchangeInv, Tcp!Reply
  <1>4. CASE Tcp!WriteToClosed
    BY <1>1, <1>4 DEF Tcp!WriteToClosed, Tcp!Finish, ExchangeInv, TcpType, Tcp!Reply, Tcp!Frame
  <1>5. CASE Tcp!Receive
    <2>1. PICK n \in 1 .. Len(toClient) :
            /\ got' = Cat(got, SubSeq(toClient, 1, n))
            /\ toClient' = SubSeq(toClient, n + 1, Len(toClient))
      BY <1>5 DEF Tcp!Receive, Cat
    <2>2. /\ UNCHANGED <<cpc, pos, retries, toServer, spc, buffer, decoded, reset, result>>
          /\ cpc = "receive" /\ toClient # <<>>
      BY <1>5 DEF Tcp!Receive
    <2>3. got \in Seq(Int) /\ toClient \in Seq(Int)
      BY <1>1 DEF TcpType
    <2>4. got' \in Seq(Int) /\ toClient' \in Seq(Int) /\ Cat(got', toClient') = Cat(got, toClient)
      BY <2>1, <2>3, UnitsMoveOn
    <2>5. spc = "closed" /\ result # "ok" /\ Cat(got, toClient) = Tcp!Reply
      BY <2>2 DEF ExchangeInv
    <2>6. TcpType'
      BY <1>1, <2>2, <2>4 DEF TcpType
    <2> QED BY <2>2, <2>4, <2>5, <2>6 DEF ExchangeInv, Tcp!Reply, Tcp!Frame
  <1>6. CASE Tcp!ReceiveEnd
    <2>1. /\ UNCHANGED <<pos, retries, toServer, toClient, spc, buffer, decoded, reset, got>>
          /\ spc = "closed" /\ cpc' = "done"
          /\ (toClient = <<>> /\ result' = "ok") \/ result' = "error"
      BY <1>6 DEF Tcp!ReceiveEnd, Tcp!Finish
    <2>2. toClient = <<>> => got = Tcp!Reply
      <3>1. got \in Seq(Int) /\ Cat(got, toClient) = Tcp!Reply
        BY <2>1 DEF ExchangeInv, TcpType
      <3> QED BY <3>1, UnitLaws
    <2> QED BY <2>1, <2>2 DEF ExchangeInv, TcpType, Tcp!Reply, Tcp!Frame
  <1>7. CASE Tcp!Read
    <2>1. PICK n \in 1 .. Len(toServer) :
            /\ buffer' = Cat(buffer, SubSeq(toServer, 1, n))
            /\ toServer' = SubSeq(toServer, n + 1, Len(toServer))
      BY <1>7 DEF Tcp!Read, Cat
    <2>2. UNCHANGED <<cpc, pos, retries, toClient, spc, decoded, reset, got, result>>
      BY <1>7 DEF Tcp!Read
    <2>3. buffer \in Seq(Int) /\ toServer \in Seq(Int)
      BY <1>1 DEF TcpType
    <2>4. buffer' \in Seq(Int) /\ toServer' \in Seq(Int) /\ Cat(buffer', toServer') = Cat(buffer, toServer)
      BY <2>1, <2>3, UnitsMoveOn
    <2>5. TcpType'
      BY <1>1, <2>2, <2>4 DEF TcpType
    <2> QED BY <2>2, <2>4, <2>5 DEF ExchangeInv, Tcp!Reply, Tcp!Frame
  <1>8. CASE Tcp!Decode
    <2>1. /\ UNCHANGED <<cpc, pos, retries, toServer, toClient, buffer, reset, got, result>>
          /\ spc # "closed" /\ spc' # "closed" /\ decoded' \in Tcp!Deserialize(buffer)
      BY <1>8 DEF Tcp!Decode
    <2>2. retries = 0 => decoded' # "garbled"
      <3> SUFFICES ASSUME retries = 0 PROVE decoded' # "garbled"
        OBVIOUS
      <3>1. Tcp!IsPrefix(buffer, Tcp!Frame)
        BY <1>1, FirstIsPrefix DEF ExchangeInv, TcpType
      <3> QED BY <2>1, <3>1 DEF Tcp!Deserialize
    <2>3. decoded' = "garbled" => retries' > 0
      BY <1>1, <2>1, <2>2 DEF TcpType
    <2> QED BY <2>1, <2>3 DEF ExchangeInv, TcpType, Tcp!Reply, Tcp!Frame
  <1>9. CASE Tcp!Answer
    <2>1. /\ UNCHANGED <<cpc, pos, retries, toServer, buffer, decoded, got, result>>
          /\ toClient' = Tcp!Reply /\ spc' = "closed" /\ spc # "closed" /\ got = <<>>
      BY <1>9 DEF Tcp!Answer, ExchangeInv
    <2>2. Cat(<<>>, Tcp!Reply) = Tcp!Reply /\ Tcp!Reply \in Seq(Int)
      BY FrameAndReply, UnitLaws
    <2>3. result = "ok" => got = Tcp!Reply
      BY DEF ExchangeInv
    <2> QED BY <2>1, <2>2, <2>3 DEF ExchangeInv, TcpType, Tcp!Reply, Tcp!Frame
  <1> QED BY <1>2, <1>3, <1>4, <1>5, <1>6, <1>7, <1>8, <1>9 DEF Tcp!Next, Tcp!Client, Tcp!Server

\* Whatever the sizes, the room on the way and the pieces: only a blocked and
\* repeated write makes the server decode what was not sent, and Ok is the whole
\* answer.
THEOREM ExchangesAreHonest == Spec => []ExchangeIsHonest
  <1>1. Init => ExchangeInv
    BY ExchangeInit DEF Init
  <1>2. ExchangeInv /\ [Next]_vars => ExchangeInv'
    <2> SUFFICES ASSUME ExchangeInv, [Next]_vars PROVE ExchangeInv'
      OBVIOUS
    <2>1. CASE UNCHANGED tcpVars
      BY <2>1 DEF tcpVars, ExchangeInv, TcpType, Tcp!GarbledOnlyByRetry, Tcp!OkIsWholeReply,
         Tcp!Reply, Tcp!Frame
    <2>2. CASE Tcp!Next
      BY <2>2, ExchangeNext
    <2> QED BY <2>1, <2>2 DEF Next, LockStep, AsyncStep, EchoServe, TurnStep, Others, vars
  <1>3. ExchangeInv => ExchangeIsHonest
    BY DEF ExchangeInv, ExchangeIsHonest
  <1> QED BY <1>1, <1>2, <1>3, PTL DEF Spec
-----------------------------------------------------------------------------
(* Tasks that share data behind a mutex.                                   *)

LockType ==
    /\ pc \in [LockTasks -> {"poll", "wait", "update", "more", "done"}]
    /\ left \in [LockTasks -> Int] /\ read \in [LockTasks -> Int]
    /\ owner \in [Lock!Mutexes -> LockTasks \cup {"nobody"}]
    /\ value \in [Lock!Mutexes -> Int]
    /\ file \in Seq(LockTasks \X {1, 2})
    /\ \A t \in LockTasks : LockKind[t] # "write" => left[t] <= LockTimes[t]

\* Who updates has the mutex, and what it read is what the data still is.
GuardInv ==
    /\ \A t \in LockTasks : pc[t] \in {"update", "more"} => owner[LockKind[t]] = t
    /\ \A t \in LockTasks : pc[t] = "update" => read[t] = value[LockKind[t]]

\* Only a writer that has begun is in the log, with the rest of its line only if it
\* has ended; one in the middle of its line is the last there.
LogInv ==
    /\ \A i \in DOMAIN file :
         /\ LockKind[file[i][1]] = "write" /\ pc[file[i][1]] \in {"more", "done"}
         /\ file[i][2] = 2 => pc[file[i][1]] = "done"
    /\ \A t \in LockTasks : pc[t] = "more" =>
         LockKind[t] = "write" /\ file # <<>> /\ file[Len(file)] = <<t, 1>>
    /\ Lock!LinesAreWhole

LockInv == LockType /\ GuardInv /\ LogInv /\ Lock!EveryUpdateCounts

\* The tasks' mutexes.
LEMMA MutexFacts ==
    /\ Lock!Tasks = LockTasks /\ "nobody" \notin LockTasks
    /\ \A t \in LockTasks : LockKind[t] \in Lock!Mutexes
    /\ \A t \in LockTasks : LockTimes[t] \in 1 .. MostTimes /\ LockDelta[t] \in {1, -1}
  BY ProgramsAssumption DEF Lock!Tasks, LockTasks, Lock!Mutexes

LEMMA LockInit == ASSUME Lock!Init PROVE LockInv
  <1>1. LockType
    BY MutexFacts, ProgramsAssumption DEF Lock!Init, LockType
  <1>2. GuardInv
    BY MutexFacts DEF Lock!Init, GuardInv
  <1>3. LogInv
    BY MutexFacts DEF Lock!Init, LogInv, Lock!LinesAreWhole
  <1>4. Lock!EveryUpdateCounts
    <2>1. ASSUME NEW m \in Lock!Mutexes, NEW d PROVE Lock!Updates(m, d) = {}
      BY MutexFacts DEF Lock!Updates, Lock!Init
    <2>2. \A m \in Lock!Mutexes : value[m] = 0
      BY DEF Lock!Init
    <2>3. Lock!Cardinality({}) = 0
      BY FS_EmptySet DEF Lock!Cardinality, Cardinality
    <2> QED BY <2>1, <2>2, <2>3 DEF Lock!EveryUpdateCounts
  <1> QED BY <1>1, <1>2, <1>3, <1>4 DEF LockInv

\* A step that neither updates the data nor counts down a task that does leaves
\* the count of updates alone.
LEMMA CountStays ==
    ASSUME LockType, Lock!EveryUpdateCounts, value' = value,
           \A t \in LockTasks : LockKind[t] # "write" => left'[t] = left[t]
    PROVE  Lock!EveryUpdateCounts'
  <1>1. \A m \in Lock!Mutexes, d \in {1, -1} : Lock!Updates(m, d)' = Lock!Updates(m, d)
    BY MutexFacts DEF Lock!Updates
  <1> QED BY <1>1 DEF Lock!EveryUpdateCounts

\* A step that writes nothing and begins no line leaves the log in order.
LEMMA LogStays ==
    ASSUME LockType, LogInv, NEW t \in LockTasks, NEW x, pc' = [pc EXCEPT ![t] = x], file' = file,
           (pc[t] \notin {"more", "done"} /\ x # "more") \/ x = "done"
    PROVE  LogInv'
  <1>1. \A u \in LockTasks : pc'[u] = IF u = t THEN x ELSE pc[u]
    BY DEF LockType
  <1>2. \A i \in DOMAIN file : file[i][1] \in LockTasks
    BY DEF LockType
  <1>3. \A i \in DOMAIN file :
          /\ LockKind[file[i][1]] = "write" /\ pc'[file[i][1]] \in {"more", "done"}
          /\ file[i][2] = 2 => pc'[file[i][1]] = "done"
    BY <1>1, <1>2 DEF LogInv
  <1>4. \A u \in LockTasks : pc'[u] = "more" =>
          LockKind[u] = "write" /\ file # <<>> /\ file[Len(file)] = <<u, 1>>
    BY <1>1 DEF LogInv
  <1> QED BY <1>3, <1>4 DEF LogInv, Lock!LinesAreWhole

\* A step by which t takes the mutex it finds free, and reads the data.
LEMMA MutexTaken ==
    ASSUME LockInv, NEW t \in LockTasks, pc[t] \in {"poll", "wait"},
           owner[LockKind[t]] = "nobody",
           owner' = [owner EXCEPT ![LockKind[t]] = t],
           read' = [read EXCEPT ![t] = value[LockKind[t]]],
           pc' = [pc EXCEPT ![t] = "update"], UNCHANGED <<left, value, file>>
    PROVE  LockInv'
  <1>1. LockType /\ GuardInv /\ LogInv /\ Lock!EveryUpdateCounts /\ LockKind[t] \in Lock!Mutexes
    BY MutexFacts DEF LockInv
  <1>2. LockType'
    BY <1>1 DEF LockType
  <1>3. GuardInv'
    <2>1. \A u \in LockTasks : u # t /\ pc'[u] \in {"update", "more"} => LockKind[u] # LockKind[t]
      BY <1>1, MutexFacts DEF GuardInv, LockType
    <2> QED BY <1>1, <2>1, MutexFacts DEF GuardInv, LockType
  <1>4. LogInv'
    BY <1>1, LogStays
  <1> QED BY <1>1, <1>2, <1>3, <1>4, CountStays DEF LockInv

\* A step by which t gives the mutex back, the data unchanged.
LEMMA MutexGiven ==
    ASSUME LockInv, NEW t \in LockTasks, pc[t] \in {"update", "more"},
           owner' = [owner EXCEPT ![LockKind[t]] = "nobody"],
           pc' = [pc EXCEPT ![t] = "done"],
           UNCHANGED <<read, value>>
    PROVE  GuardInv'
  <1>1. LockType /\ GuardInv /\ LockKind[t] \in Lock!Mutexes
    BY MutexFacts DEF LockInv
  <1>2. \A u \in LockTasks : u # t /\ pc[u] \in {"update", "more"} => LockKind[u] # LockKind[t]
    BY <1>1 DEF GuardInv
  <1> QED BY <1>1, <1>2, MutexFacts DEF GuardInv, LockType

\* An update counts once.
LEMMA UpdateCounts ==
    ASSUME LockInv, NEW t \in LockTasks, Lock!Update(t)
    PROVE  Lock!EveryUpdateCounts'
  <1> DEFINE k == LockKind[t]
             new == <<t, left[t]>>
  <1>1. /\ LockType /\ Lock!EveryUpdateCounts /\ k \in Lock!Mutexes /\ k # "write"
        /\ left[t] \in Int /\ left[t] > 0 /\ left[t] <= LockTimes[t] /\ value[k] \in Int
        /\ MostTimes \in Nat /\ LockTimes[t] \in 1 .. MostTimes
    BY MutexFacts, ProgramsAssumption DEF LockInv, LockType, Lock!Update
  <1>2. value' = [value EXCEPT ![k] = value[k] + LockDelta[t]] /\ left' = [left EXCEPT ![t] = left[t] - 1]
    BY DEF LockInv, GuardInv, Lock!Update
  <1>3. value'[k] = value[k] + LockDelta[t] /\ \A m \in Lock!Mutexes \ {k} : value'[m] = value[m]
    BY <1>1, <1>2 DEF LockType
  <1>4. new \in LockTasks \X (1 .. MostTimes)
    BY <1>1
  <1>5. Lock!Updates(k, LockDelta[t])' = Lock!Updates(k, LockDelta[t]) \cup {new}
        /\ new \notin Lock!Updates(k, LockDelta[t])
    <2>1. \A u \in LockTasks \X (1 .. MostTimes) :
            left'[u[1]] < u[2] /\ u[2] <= LockTimes[u[1]]
              <=> (left[u[1]] < u[2] /\ u[2] <= LockTimes[u[1]]) \/ u = new
      <3> TAKE u \in LockTasks \X (1 .. MostTimes)
      <3>1. PICK v \in LockTasks, n \in 1 .. MostTimes : u = <<v, n>>
        OBVIOUS
      <3>2. left'[v] = (IF v = t THEN left[t] - 1 ELSE left[v]) /\ left[v] \in Int /\ LockTimes[v] \in Int /\ n \in Int
        BY <1>1, <1>2, MutexFacts DEF LockType
      <3>3. u[1] = v /\ u[2] = n /\ (u = new <=> v = t /\ n = left[t])
        BY <3>1
      <3> QED BY <1>1, <3>2, <3>3
    <2>2. new[1] = t /\ new[2] = left[t] /\ ~(left[t] < left[t])
      BY <1>1
    <2> HIDE DEF new
    <2> QED BY <1>1, <1>4, <2>1, <2>2, MutexFacts DEF Lock!Updates
  <1>6. ASSUME NEW m \in Lock!Mutexes, NEW d \in {1, -1}, m # k \/ d # LockDelta[t]
        PROVE  Lock!Updates(m, d)' = Lock!Updates(m, d)
    <2>1. \A u \in LockTasks \X (1 .. MostTimes) :
            LockKind[u[1]] = m /\ LockDelta[u[1]] = d => left'[u[1]] = left[u[1]]
      BY <1>1, <1>2, <1>6 DEF LockType
    <2> QED BY <2>1, MutexFacts DEF Lock!Updates
  <1>7. ASSUME NEW m, NEW d PROVE IsFiniteSet(Lock!Updates(m, d))
    <2>1. IsFiniteSet(LockTasks \X (1 .. MostTimes))
      <3>1. 1 \in Int /\ MostTimes \in Int
        BY <1>1
      <3>2. IsFiniteSet(1 .. MostTimes)
        BY <3>1, FS_Interval
      <3>3. IsFiniteSet(LockTasks)
        BY ProgramsAssumption
      <3> QED BY <3>2, <3>3, FS_Product
    <2> QED BY <2>1, MutexFacts, FS_Subset DEF Lock!Updates
  <1>8. \A s : Lock!Cardinality(s) = Cardinality(s)
    BY DEF Lock!Cardinality, Cardinality
  <1>9. Cardinality(Lock!Updates(k, LockDelta[t]))' = Cardinality(Lock!Updates(k, LockDelta[t])) + 1
    BY <1>5, <1>7, FS_AddElement
  <1>10. \A m \in Lock!Mutexes, d \in {1, -1} : Cardinality(Lock!Updates(m, d)) \in Nat
    BY <1>7, FS_CardinalityType
  <1>11. ASSUME NEW m \in Lock!Mutexes
         PROVE  value'[m] = Cardinality(Lock!Updates(m, 1))' - Cardinality(Lock!Updates(m, -1))'
    <2>1. value[m] = Cardinality(Lock!Updates(m, 1)) - Cardinality(Lock!Updates(m, -1))
      BY <1>1, <1>8 DEF Lock!EveryUpdateCounts
    <2>2. CASE m # k
      BY <1>3, <1>6, <2>1, <2>2
    <2>3. CASE m = k /\ LockDelta[t] = 1
      BY <1>1, <1>3, <1>6, <1>9, <1>10, <2>1, <2>3
    <2>4. CASE m = k /\ LockDelta[t] = -1
      BY <1>1, <1>3, <1>6, <1>9, <1>10, <2>1, <2>4
    <2> QED BY <2>2, <2>3, <2>4, MutexFacts
  <1> QED BY <1>8, <1>11 DEF Lock!EveryUpdateCounts

\* An update gives the mutex back, and leaves the log alone.
LEMMA UpdateStep == ASSUME LockInv, NEW t \in LockTasks, Lock!Update(t) PROVE LockInv'
  <1>1. LockType /\ GuardInv /\ LogInv /\ LockKind[t] \in Lock!Mutexes
    BY MutexFacts DEF LockInv
  <1>2. PICK x \in {"done", "poll"} : pc' = [pc EXCEPT ![t] = x]
    BY DEF Lock!Update
  <1>3. /\ value' = [value EXCEPT ![LockKind[t]] = read[t] + LockDelta[t]]
        /\ owner' = [owner EXCEPT ![LockKind[t]] = "nobody"] /\ left' = [left EXCEPT ![t] = @ - 1]
        /\ pc[t] = "update" /\ UNCHANGED <<read, file>>
    BY DEF Lock!Update
  <1>4. LockType'
    <2>1. read[t] + LockDelta[t] \in Int
      <3>1. LockDelta[t] \in {1, -1}
        BY MutexFacts
      <3>2. read[t] \in Int
        BY <1>1 DEF LockType
      <3> QED BY <3>1, <3>2
    <2>2. left[t] \in Int /\ left[t] - 1 \in Int /\ LockTimes[t] \in Int /\ left[t] - 1 < left[t]
      BY <1>1, MutexFacts DEF LockType
    <2>3. \A u \in LockTasks : LockKind[u] # "write" => left'[u] <= LockTimes[u]
      BY <1>1, <1>3, <2>2 DEF LockType
    <2> QED BY <1>1, <1>2, <1>3, <2>1, <2>2, <2>3 DEF LockType
  <1>5. \A u \in LockTasks : u # t /\ pc[u] \in {"update", "more"} => LockKind[u] # LockKind[t]
    BY <1>1, <1>3 DEF GuardInv
  <1>6. GuardInv'
    BY <1>1, <1>2, <1>3, <1>5, MutexFacts DEF GuardInv, LockType
  <1>7. LogInv'
    BY <1>1, <1>2, <1>3, LogStays
  <1> QED BY <1>4, <1>6, <1>7, UpdateCounts DEF LockInv

\* The first half of a line: its writer is not in the log, and no other is in the
\* middle of a line.
LEMMA WriteHalfStep == ASSUME LockInv, NEW t \in LockTasks, Lock!WriteHalf(t) PROVE LockInv'
  <1>1. LockType /\ GuardInv /\ LogInv /\ LockKind[t] = "write" /\ pc[t] = "update"
    BY DEF LockInv, Lock!WriteHalf
  <1>2. /\ file' = Append(file, <<t, 1>>) /\ pc' = [pc EXCEPT ![t] = "more"]
        /\ UNCHANGED <<left, read, owner, value>>
    BY DEF Lock!WriteHalf
  <1>3. /\ file' \in Seq(LockTasks \X {1, 2}) /\ Len(file) \in Nat /\ Len(file') = Len(file) + 1
        /\ DOMAIN file = 1 .. Len(file) /\ DOMAIN file' = 1 .. Len(file) + 1
        /\ \A i \in 1 .. Len(file) : file'[i] = file[i]
        /\ file'[Len(file) + 1] = <<t, 1>> /\ file' # <<>>
    BY <1>1, <1>2, AppendShape DEF LockType
  <1>4. LockType'
    BY <1>1, <1>2, <1>3 DEF LockType
  <1>5. GuardInv'
    BY <1>1, <1>2 DEF GuardInv, LockType
  <1>6. \A i \in 1 .. Len(file) : file[i][1] \in LockTasks /\ file[i][1] # t
    <2>1. \A i \in 1 .. Len(file) : file[i] \in LockTasks \X {1, 2}
      BY <1>1, <1>3 DEF LockType
    <2>2. \A i \in 1 .. Len(file) : pc[file[i][1]] # "update"
      BY <1>1, <1>3 DEF LogInv
    <2> QED BY <1>1, <2>1, <2>2
  <1>7. \A u \in LockTasks : u # t => pc'[u] = pc[u] /\ pc[u] # "more"
    BY <1>1, <1>2 DEF GuardInv, LogInv, LockType
  <1>8. pc'[t] = "more"
    BY <1>1, <1>2 DEF LockType
  <1>9. \A i \in DOMAIN file' :
          /\ LockKind[file'[i][1]] = "write" /\ pc'[file'[i][1]] \in {"more", "done"}
          /\ file'[i][2] = 2 => pc'[file'[i][1]] = "done"
    <2>1. ASSUME NEW i \in 1 .. Len(file)
          PROVE  /\ LockKind[file'[i][1]] = "write" /\ pc'[file'[i][1]] \in {"more", "done"}
                 /\ file'[i][2] = 2 => pc'[file'[i][1]] = "done"
      BY <1>1, <1>3, <1>6, <1>7 DEF LogInv
    <2> QED BY <1>1, <1>3, <1>8, <2>1
  <1>10. \A i, j \in DOMAIN file' : file'[i] = file'[j] => i = j
    BY <1>1, <1>3, <1>6 DEF LogInv, Lock!LinesAreWhole
  <1>11. \A i \in DOMAIN file' : file'[i][2] = 2 => i > 1 /\ file'[i - 1] = <<file'[i][1], 1>>
    <2>1. ASSUME NEW i \in 1 .. Len(file), file'[i][2] = 2
          PROVE  i > 1 /\ file'[i - 1] = <<file'[i][1], 1>>
      <3>1. i > 1 /\ file[i - 1] = <<file[i][1], 1>>
        BY <1>1, <1>3, <2>1 DEF LogInv, Lock!LinesAreWhole
      <3> QED BY <1>3, <3>1
    <2> QED BY <1>3, <2>1
  <1>12. LogInv'
    BY <1>1, <1>3, <1>7, <1>9, <1>10, <1>11 DEF LogInv, Lock!LinesAreWhole
  <1>13. Lock!EveryUpdateCounts'
    BY <1>2, CountStays DEF LockInv
  <1> QED BY <1>4, <1>5, <1>12, <1>13 DEF LockInv

\* The end of a write, whether it failed or not: the writer is done, and gives the
\* mutex back.
LEMMA WriteEnds ==
    ASSUME LockInv, NEW t \in LockTasks, pc[t] \in {"update", "more"}, LockKind[t] = "write",
           Lock!WriteDone(t, "done"), file' \in Seq(LockTasks \X {1, 2}), LogInv'
    PROVE  LockInv'
  <1>1. LockType /\ LockKind[t] \in Lock!Mutexes
    BY MutexFacts DEF LockInv
  <1>2. /\ owner' = [owner EXCEPT ![LockKind[t]] = "nobody"] /\ left' = [left EXCEPT ![t] = @ - 1]
        /\ pc' = [pc EXCEPT ![t] = "done"] /\ UNCHANGED <<read, value>>
    BY DEF Lock!WriteDone
  <1>3. GuardInv'
    BY <1>2, MutexGiven
  <1>4. \A u \in LockTasks : LockKind[u] # "write" => left'[u] = left[u]
    BY <1>1, <1>2 DEF LockType
  <1>5. LockType'
    BY <1>1, <1>2, <1>4 DEF LockType
  <1>6. Lock!EveryUpdateCounts'
    BY <1>2, <1>4, CountStays DEF LockInv
  <1> QED BY <1>3, <1>5, <1>6 DEF LockInv

\* The rest of a line comes right after its first half.
LEMMA WriteRestStep == ASSUME LockInv, NEW t \in LockTasks, Lock!WriteRest(t) PROVE LockInv'
  <1>1. /\ LockType /\ LogInv /\ pc[t] = "more" /\ LockKind[t] = "write"
        /\ file # <<>> /\ file[Len(file)] = <<t, 1>>
    BY DEF LockInv, LogInv, Lock!WriteRest
  <1>2. /\ file' = Append(file, <<t, 2>>) /\ pc' = [pc EXCEPT ![t] = "done"]
        /\ Lock!WriteDone(t, "done")
    BY DEF Lock!WriteRest, Lock!WriteDone
  <1>3. /\ file' \in Seq(LockTasks \X {1, 2}) /\ Len(file) \in Nat /\ Len(file) > 0
        /\ DOMAIN file = 1 .. Len(file) /\ DOMAIN file' = 1 .. Len(file) + 1
        /\ \A i \in 1 .. Len(file) : file'[i] = file[i]
        /\ file'[Len(file) + 1] = <<t, 2>> /\ file' # <<>>
    <2>1. <<t, 2>> \in LockTasks \X {1, 2} /\ file \in Seq(LockTasks \X {1, 2})
      BY <1>1 DEF LockType
    <2>2. Len(file) > 0
      BY <1>1, <2>1
    <2> QED BY <1>2, <2>1, <2>2, AppendShape
  <1>4. \A u \in LockTasks : pc'[u] = IF u = t THEN "done" ELSE pc[u]
    BY <1>1, <1>2 DEF LockType
  <1>5. \A i \in 1 .. Len(file) :
          /\ file[i][1] \in LockTasks /\ file[i][2] \in {1, 2} /\ file[i] = <<file[i][1], file[i][2]>>
          /\ file[i][1] = t => file[i][2] # 2
    <2>1. \A i \in 1 .. Len(file) : file[i] \in LockTasks \X {1, 2}
      BY <1>1, <1>3 DEF LockType
    <2>2. \A i \in 1 .. Len(file) : file[i][2] = 2 => pc[file[i][1]] = "done"
      BY <1>1, <1>3 DEF LogInv
    <2>3. ASSUME NEW i \in 1 .. Len(file)
          PROVE  /\ file[i][1] \in LockTasks /\ file[i][2] \in {1, 2} /\ file[i] = <<file[i][1], file[i][2]>>
                 /\ file[i][1] = t => file[i][2] # 2
      <3>1. PICK u \in LockTasks, h \in {1, 2} : file[i] = <<u, h>>
        BY <2>1
      <3>2. file[i][1] = u /\ file[i][2] = h
        BY <3>1
      <3>3. pc[t] # "done"
        BY <1>1
      <3> QED BY <2>2, <3>1, <3>2, <3>3
    <2> QED BY <2>3
  <1>6. \A u \in LockTasks : pc'[u] # "more"
    <2>1. \A u \in LockTasks : pc[u] = "more" => u = t
      BY <1>1 DEF LogInv
    <2> QED BY <1>4, <2>1
  <1>7. \A i \in DOMAIN file' :
          /\ LockKind[file'[i][1]] = "write" /\ pc'[file'[i][1]] \in {"more", "done"}
          /\ file'[i][2] = 2 => pc'[file'[i][1]] = "done"
    <2>1. ASSUME NEW i \in 1 .. Len(file)
          PROVE  /\ LockKind[file'[i][1]] = "write" /\ pc'[file'[i][1]] \in {"more", "done"}
                 /\ file'[i][2] = 2 => pc'[file'[i][1]] = "done"
      <3>1. /\ LockKind[file[i][1]] = "write" /\ pc[file[i][1]] \in {"more", "done"}
            /\ file[i][2] = 2 => pc[file[i][1]] = "done"
        BY <1>1, <1>3 DEF LogInv
      <3>2. file'[i] = file[i] /\ file[i][1] \in LockTasks
        BY <1>3, <1>5
      <3>3. pc'[file[i][1]] \in {pc[file[i][1]], "done"}
        BY <1>4, <3>2
      <3> QED BY <3>1, <3>2, <3>3
    <2>2. LockKind[t] = "write" /\ pc'[t] = "done" /\ file'[Len(file) + 1][1] = t
      BY <1>1, <1>3, <1>4
    <2> QED BY <1>3, <2>1, <2>2
  <1>8. \A i, j \in DOMAIN file' : file'[i] = file'[j] => i = j
    <2>1. \A i \in 1 .. Len(file) : file[i] # <<t, 2>>
      BY <1>5
    <2> QED BY <1>1, <1>3, <2>1 DEF LogInv, Lock!LinesAreWhole
  <1>9. \A i \in DOMAIN file' : file'[i][2] = 2 => i > 1 /\ file'[i - 1] = <<file'[i][1], 1>>
    <2>1. ASSUME NEW i \in 1 .. Len(file), file'[i][2] = 2
          PROVE  i > 1 /\ file'[i - 1] = <<file'[i][1], 1>>
      <3>1. i > 1 /\ file[i - 1] = <<file[i][1], 1>>
        BY <1>1, <1>3, <2>1 DEF LogInv, Lock!LinesAreWhole
      <3>2. i - 1 \in 1 .. Len(file)
        BY <1>3, <3>1
      <3>3. file'[i - 1] = file[i - 1] /\ file'[i] = file[i]
        BY <1>3, <3>2
      <3> QED BY <3>1, <3>3
    <2>2. Len(file) + 1 > 1 /\ file'[Len(file) + 1 - 1] = <<file'[Len(file) + 1][1], 1>>
      BY <1>1, <1>3
    <2> QED BY <1>3, <2>1, <2>2
  <1>10. LogInv'
    BY <1>6, <1>7, <1>8, <1>9 DEF LogInv, Lock!LinesAreWhole
  <1> QED BY <1>1, <1>2, <1>3, <1>10, WriteEnds

\* Every step keeps it.
LEMMA LockNext == ASSUME LockInv, NEW t \in LockTasks, Lock!Step(t) PROVE LockInv'
  <1>1. LockType /\ GuardInv /\ LogInv /\ Lock!EveryUpdateCounts /\ LockKind[t] \in Lock!Mutexes
    BY MutexFacts DEF LockInv
  <1>2. CASE Lock!TryLock(t)
    BY <1>2, MutexTaken DEF Lock!TryLock, Lock!Polls
  <1>3. CASE Lock!Locked(t)
    BY <1>3, MutexTaken DEF Lock!Locked
  <1>4. CASE Lock!LockAwait(t)
    <2>1. /\ pc[t] = "poll" /\ pc' = [pc EXCEPT ![t] = "wait"]
          /\ UNCHANGED <<left, read, owner, value, file>>
      BY <1>4 DEF Lock!LockAwait, Lock!Polls
    <2>2. LockType' /\ GuardInv'
      BY <1>1, <2>1 DEF LockType, GuardInv
    <2>3. LogInv'
      BY <1>1, <2>1, LogStays
    <2> QED BY <1>1, <2>1, <2>2, <2>3, CountStays DEF LockInv
  <1>5. CASE Lock!WriteFails(t)
    <2>1. pc[t] \in {"update", "more"} /\ LockKind[t] = "write" /\ file' = file /\ Lock!WriteDone(t, "done")
      BY <1>5 DEF Lock!WriteFails
    <2>2. LogInv'
      BY <1>1, <2>1, LogStays DEF Lock!WriteDone
    <2>3. file' \in Seq(LockTasks \X {1, 2})
      BY <1>1, <2>1 DEF LockType
    <2> QED BY <2>1, <2>2, <2>3, WriteEnds
  <1> QED BY <1>2, <1>3, <1>4, <1>5, UpdateStep, WriteHalfStep, WriteRestStep DEF Lock!Step

LEMMA LockAlways == Spec => []LockInv
  <1>1. Init => LockInv
    BY LockInit DEF Init
  <1>2. LockInv /\ [Next]_vars => LockInv'
    <2> SUFFICES ASSUME LockInv, [Next]_vars PROVE LockInv'
      OBVIOUS
    <2>1. CASE UNCHANGED lockVars
      <3>1. LockType' /\ GuardInv' /\ LogInv'
        BY <2>1 DEF lockVars, LockInv, LockType, GuardInv, LogInv, Lock!LinesAreWhole
      <3>2. Lock!EveryUpdateCounts'
        BY <2>1, CountStays DEF lockVars, LockInv
      <3> QED BY <3>1, <3>2 DEF LockInv
    <2>2. CASE \E t \in LockTasks : LockStep(t)
      BY <2>2, LockNext DEF LockStep
    <2> QED BY <2>1, <2>2 DEF Next, AsyncStep, EchoServe, TurnStep, Others, vars
  <1> QED BY <1>1, <1>2, PTL DEF Spec

\* No update of the shared counter is lost or counted twice, for any number of
\* tasks and updates, whoever finds the mutex taken and however often.
THEOREM UpdatesCount == Spec => []EveryUpdateCounts
  <1>1. LockInv => EveryUpdateCounts
    BY DEF LockInv, EveryUpdateCounts
  <1> QED BY <1>1, LockAlways, PTL

\* The lines of the log are whole, for any number of writers and failing writes.
THEOREM LinesStayWhole == Spec => []LinesAreWhole
  <1>1. LockInv => LinesAreWhole
    BY DEF LockInv, LogInv, LinesAreWhole
  <1> QED BY <1>1, LockAlways, PTL

\* Who waits for a mutex is in its queue once, with only such tasks; who has its
\* guard is a task of it that has not given it back.
QueuesInv ==
    /\ waiters \in [Lock!Mutexes -> Seq(LockTasks)]
    /\ \A m \in Lock!Mutexes :
         /\ \A i, j \in 1 .. Len(waiters[m]) : waiters[m][i] = waiters[m][j] => i = j
         /\ \A t \in ToSet(waiters[m]) : pc[t] = "wait" /\ LockKind[t] = m
    /\ \A t \in LockTasks : pc[t] = "wait" => t \in ToSet(waiters[LockKind[t]])

HoldersInv ==
    \A m \in Lock!Mutexes : owner[m] # "nobody" =>
      pc[owner[m]] \in {"update", "more"} /\ LockKind[owner[m]] = m

WaitInv == QueuesInv /\ HoldersInv

\* Nobody waits in vain: a task that waits for the mutex is in its queue, and either
\* a task has the guard that is still to give it back, or the first of the queue,
\* which waits for this mutex too, can take it.
NobodyWaitsInVain ==
    \A t \in LockTasks : pc[t] = "wait" =>
      LET m == LockKind[t]
          first == Head(waiters[m])
      IN  /\ t \in ToSet(waiters[m])
          /\ \/ owner[m] \in LockTasks /\ pc[owner[m]] \in {"update", "more"} /\ LockKind[owner[m]] = m
             \/ owner[m] = "nobody" /\ first \in LockTasks /\ pc[first] = "wait" /\ LockKind[first] = m

\* A step of a task that does not wait, and will not, leaves the queues alone.
LEMMA QueuesStay ==
    ASSUME LockType, QueuesInv, NEW t \in LockTasks, NEW x, pc[t] # "wait", x # "wait",
           pc' = [pc EXCEPT ![t] = x], waiters' = waiters
    PROVE  QueuesInv'
  <1>1. \A u \in LockTasks : pc'[u] = IF u = t THEN x ELSE pc[u]
    BY DEF LockType
  <1>2. \A m \in Lock!Mutexes : ToSet(waiters[m]) \subseteq LockTasks
    BY DEF QueuesInv, ToSet
  <1> QED BY <1>1, <1>2 DEF QueuesInv

\* The guard is taken by a task that had none, and given back by the one that had it.
LEMMA HolderTakes ==
    ASSUME LockType, HoldersInv, NEW t \in LockTasks, pc[t] \notin {"update", "more"},
           pc' = [pc EXCEPT ![t] = "update"], owner' = [owner EXCEPT ![LockKind[t]] = t]
    PROVE  HoldersInv'
  <1>1. \A u \in LockTasks : pc'[u] = IF u = t THEN "update" ELSE pc[u]
    BY DEF LockType
  <1>2. \A m \in Lock!Mutexes : owner'[m] = IF m = LockKind[t] THEN t ELSE owner[m]
    BY DEF LockType
  <1>3. \A m \in Lock!Mutexes : owner[m] \in LockTasks \cup {"nobody"}
    BY DEF LockType
  <1> QED BY <1>1, <1>2, <1>3 DEF HoldersInv

LEMMA HolderGives ==
    ASSUME LockType, HoldersInv, NEW t \in LockTasks, pc[t] \in {"update", "more"},
           NEW x \in {"poll", "done"},
           pc' = [pc EXCEPT ![t] = x], owner' = [owner EXCEPT ![LockKind[t]] = "nobody"]
    PROVE  HoldersInv'
  <1>1. \A u \in LockTasks : pc'[u] = IF u = t THEN x ELSE pc[u]
    BY DEF LockType
  <1>2. \A m \in Lock!Mutexes : owner'[m] = IF m = LockKind[t] THEN "nobody" ELSE owner[m]
    BY DEF LockType
  <1>3. \A m \in Lock!Mutexes : owner[m] \in LockTasks \cup {"nobody"}
    BY DEF LockType
  <1> QED BY <1>1, <1>2, <1>3 DEF HoldersInv

\* A task queues up at the end.
LEMMA AwaitQueues ==
    ASSUME LockType, WaitInv, NEW t \in LockTasks, Lock!LockAwait(t)
    PROVE  WaitInv'
  <1> DEFINE k == LockKind[t]
             q == waiters[k]
  <1>1. /\ pc[t] = "poll" /\ pc' = [pc EXCEPT ![t] = "wait"] /\ owner' = owner
        /\ waiters' = [waiters EXCEPT ![k] = Append(q, t)]
    BY DEF Lock!LockAwait, Lock!Polls
  <1>2. k \in Lock!Mutexes /\ q \in Seq(LockTasks)
    BY MutexFacts DEF WaitInv, QueuesInv
  <1>3. \A u \in LockTasks : pc'[u] = IF u = t THEN "wait" ELSE pc[u]
    BY <1>1 DEF LockType
  <1>4. \A m \in Lock!Mutexes : waiters'[m] = IF m = k THEN Append(q, t) ELSE waiters[m]
    BY <1>1 DEF WaitInv, QueuesInv
  <1>5. Append(q, t) \in Seq(LockTasks) /\ ToSet(Append(q, t)) = ToSet(q) \cup {t}
    BY <1>2, AppendElements
  <1>6. \A m \in Lock!Mutexes : ToSet(waiters[m]) \subseteq LockTasks \ {t}
    BY <1>1 DEF WaitInv, QueuesInv, ToSet
  <1>7. \A i, j \in 1 .. Len(Append(q, t)) : Append(q, t)[i] = Append(q, t)[j] => i = j
    <2>1. \A i, j \in 1 .. Len(q) : q[i] = q[j] => i = j
      BY <1>2 DEF WaitInv, QueuesInv
    <2> QED BY <1>2, <1>6, <2>1, PushOnce
  <1>8. waiters' \in [Lock!Mutexes -> Seq(LockTasks)]
    BY <1>1, <1>2, <1>5 DEF WaitInv, QueuesInv
  <1>9. ASSUME NEW m \in Lock!Mutexes
        PROVE  /\ \A i, j \in 1 .. Len(waiters'[m]) : waiters'[m][i] = waiters'[m][j] => i = j
               /\ \A u \in ToSet(waiters'[m]) : pc'[u] = "wait" /\ LockKind[u] = m
    <2>1. CASE m = k
      <3>1. waiters'[m] = Append(q, t)
        BY <1>4, <2>1
      <3>2. \A u \in ToSet(q) : u \in LockTasks /\ u # t /\ pc[u] = "wait" /\ LockKind[u] = k
        BY <1>2, <1>6 DEF WaitInv, QueuesInv
      <3>3. \A u \in ToSet(q) \cup {t} : pc'[u] = "wait" /\ LockKind[u] = m
        BY <1>3, <2>1, <3>2
      <3> QED BY <1>5, <1>7, <3>1, <3>3
    <2>2. CASE m # k
      <3>1. waiters'[m] = waiters[m]
        BY <1>4, <2>2
      <3> QED BY <1>3, <1>6, <3>1 DEF WaitInv, QueuesInv
    <2> QED BY <2>1, <2>2
  <1>10. ASSUME NEW u \in LockTasks, pc'[u] = "wait" PROVE u \in ToSet(waiters'[LockKind[u]])
    <2>1. LockKind[u] \in Lock!Mutexes /\ (u = t \/ u \in ToSet(waiters[LockKind[u]]))
      BY <1>3, <1>10, MutexFacts DEF WaitInv, QueuesInv
    <2>2. CASE LockKind[u] = k
      BY <1>2, <1>4, <1>5, <2>1, <2>2
    <2>3. CASE LockKind[u] # k
      BY <1>4, <2>1, <2>3
    <2> QED BY <2>2, <2>3
  <1>11. HoldersInv'
    <2>1. \A m \in Lock!Mutexes : owner[m] \in LockTasks \cup {"nobody"}
      BY DEF LockType
    <2> QED BY <1>1, <1>3, <2>1 DEF WaitInv, HoldersInv
  <1>12. QueuesInv'
    BY <1>8, <1>9, <1>10 DEF QueuesInv
  <1> QED BY <1>11, <1>12 DEF WaitInv

\* The first of the queue leaves it with the guard.
LEMMA FirstLocks ==
    ASSUME LockType, WaitInv, NEW t \in LockTasks, Lock!Locked(t)
    PROVE  WaitInv'
  <1> DEFINE k == LockKind[t]
             q == waiters[k]
  <1>1. /\ pc[t] = "wait" /\ pc' = [pc EXCEPT ![t] = "update"]
        /\ owner' = [owner EXCEPT ![k] = t] /\ Head(q) = t
        /\ waiters' = [waiters EXCEPT ![k] = Tail(q)]
    BY DEF Lock!Locked
  <1>2. k \in Lock!Mutexes /\ q \in Seq(LockTasks) /\ t \in ToSet(q)
    BY <1>1, MutexFacts DEF WaitInv, QueuesInv
  <1>3. q # <<>>
    BY <1>2, EmptyToSet
  <1>4. \A u \in LockTasks : pc'[u] = IF u = t THEN "update" ELSE pc[u]
    BY <1>1 DEF LockType
  <1>5. \A m \in Lock!Mutexes : waiters'[m] = IF m = k THEN Tail(q) ELSE waiters[m]
    BY <1>1 DEF WaitInv, QueuesInv
  <1>6. Tail(q) \in Seq(LockTasks) /\ ToSet(q) = ToSet(Tail(q)) \cup {t}
    BY <1>1, <1>2, <1>3, TailElements
  <1>7. /\ \A i, j \in 1 .. Len(Tail(q)) : Tail(q)[i] = Tail(q)[j] => i = j
        /\ t \notin ToSet(Tail(q))
    <2>1. \A i, j \in 1 .. Len(q) : q[i] = q[j] => i = j
      BY <1>2 DEF WaitInv, QueuesInv
    <2> QED BY <1>1, <1>2, <1>3, <2>1, PopOnce
  <1>8. waiters' \in [Lock!Mutexes -> Seq(LockTasks)]
    BY <1>1, <1>2, <1>6 DEF WaitInv, QueuesInv
  <1>9. \A m \in Lock!Mutexes : ToSet(waiters[m]) \subseteq LockTasks
    BY DEF WaitInv, QueuesInv, ToSet
  <1>10. ASSUME NEW m \in Lock!Mutexes
         PROVE  /\ \A i, j \in 1 .. Len(waiters'[m]) : waiters'[m][i] = waiters'[m][j] => i = j
                /\ \A u \in ToSet(waiters'[m]) : pc'[u] = "wait" /\ LockKind[u] = m
    <2>1. CASE m = k
      <3>1. waiters'[m] = Tail(q)
        BY <1>5, <2>1
      <3>2. \A u \in ToSet(Tail(q)) : u \in LockTasks /\ u # t /\ pc[u] = "wait" /\ LockKind[u] = k
        BY <1>2, <1>6, <1>7, <1>9 DEF WaitInv, QueuesInv
      <3>3. \A u \in ToSet(Tail(q)) : pc'[u] = "wait" /\ LockKind[u] = m
        BY <1>4, <2>1, <3>2
      <3> QED BY <1>7, <3>1, <3>3
    <2>2. CASE m # k
      <3>1. waiters'[m] = waiters[m]
        BY <1>5, <2>2
      <3>2. \A u \in ToSet(waiters[m]) : u \in LockTasks /\ u # t
        BY <1>9, <2>2 DEF WaitInv, QueuesInv
      <3> QED BY <1>4, <3>1, <3>2 DEF WaitInv, QueuesInv
    <2> QED BY <2>1, <2>2
  <1>11. ASSUME NEW u \in LockTasks, pc'[u] = "wait" PROVE u \in ToSet(waiters'[LockKind[u]])
    <2>1. u # t /\ LockKind[u] \in Lock!Mutexes /\ u \in ToSet(waiters[LockKind[u]])
      BY <1>4, <1>11, MutexFacts DEF WaitInv, QueuesInv
    <2>2. CASE LockKind[u] = k
      BY <1>2, <1>5, <1>6, <2>1, <2>2
    <2>3. CASE LockKind[u] # k
      BY <1>5, <2>1, <2>3
    <2> QED BY <2>2, <2>3
  <1>12. HoldersInv'
    BY <1>1, HolderTakes DEF WaitInv
  <1>13. QueuesInv'
    BY <1>8, <1>10, <1>11 DEF QueuesInv
  <1> QED BY <1>12, <1>13 DEF WaitInv

\* Every step keeps both.
LEMMA WaitNext ==
    ASSUME LockInv, WaitInv, NEW t \in LockTasks, Lock!Step(t)
    PROVE  WaitInv'
  <1>1. LockType /\ QueuesInv /\ HoldersInv
    BY DEF LockInv, WaitInv
  <1>2. CASE Lock!TryLock(t)
    <2>1. /\ pc[t] = "poll" /\ pc' = [pc EXCEPT ![t] = "update"] /\ waiters' = waiters
          /\ owner' = [owner EXCEPT ![LockKind[t]] = t]
      BY <1>2 DEF Lock!TryLock, Lock!Polls
    <2>2. QueuesInv'
      BY <1>1, <2>1, QueuesStay
    <2>3. HoldersInv'
      BY <1>1, <2>1, HolderTakes
    <2> QED BY <2>2, <2>3 DEF WaitInv
  <1>3. CASE Lock!Update(t)
    <2> DEFINE x == IF left[t] = 1 THEN "done" ELSE "poll"
    <2>1. /\ pc[t] = "update" /\ pc' = [pc EXCEPT ![t] = x] /\ waiters' = waiters
          /\ owner' = [owner EXCEPT ![LockKind[t]] = "nobody"]
          /\ x \in {"poll", "done"} /\ x # "wait"
      BY <1>3 DEF Lock!Update
    <2>2. QueuesInv'
      BY <1>1, <2>1, QueuesStay
    <2>3. HoldersInv'
      BY <1>1, <2>1, HolderGives
    <2> QED BY <2>2, <2>3 DEF WaitInv
  <1>4. CASE Lock!WriteHalf(t)
    <2>1. pc[t] = "update" /\ pc' = [pc EXCEPT ![t] = "more"] /\ waiters' = waiters /\ owner' = owner
      BY <1>4 DEF Lock!WriteHalf
    <2>2. QueuesInv'
      BY <1>1, <2>1, QueuesStay
    <2>3. HoldersInv'
      <3>1. \A u \in LockTasks : pc'[u] = IF u = t THEN "more" ELSE pc[u]
        BY <1>1, <2>1 DEF LockType
      <3>2. \A m \in Lock!Mutexes : owner[m] \in LockTasks \cup {"nobody"}
        BY <1>1 DEF LockType
      <3> QED BY <1>1, <2>1, <3>1, <3>2 DEF HoldersInv
    <2> QED BY <2>2, <2>3 DEF WaitInv
  <1>5. CASE Lock!WriteRest(t) \/ Lock!WriteFails(t)
    <2>1. /\ pc[t] \in {"update", "more"} /\ pc' = [pc EXCEPT ![t] = "done"] /\ waiters' = waiters
          /\ owner' = [owner EXCEPT ![LockKind[t]] = "nobody"]
      BY <1>5 DEF Lock!WriteRest, Lock!WriteFails, Lock!WriteDone
    <2>2. QueuesInv'
      BY <1>1, <2>1, QueuesStay
    <2>3. HoldersInv'
      BY <1>1, <2>1, HolderGives
    <2> QED BY <2>2, <2>3 DEF WaitInv
  <1> QED BY <1>1, <1>2, <1>3, <1>4, <1>5, AwaitQueues, FirstLocks DEF Lock!Step

\* No wake-up of tokio's mutex is lost, and no guard: for any tasks and mutexes, who
\* waits is never left in a queue that nobody will serve.
THEOREM WaitersAreServed == Spec => []NobodyWaitsInVain
  <1>1. Init => WaitInv
    BY MutexFacts, EmptyToSet DEF Init, Lock!Init, WaitInv, QueuesInv, HoldersInv
  <1>2. LockInv /\ WaitInv /\ [Next]_vars => WaitInv'
    <2> SUFFICES ASSUME LockInv, WaitInv, [Next]_vars PROVE WaitInv'
      OBVIOUS
    <2>1. CASE UNCHANGED lockVars
      BY <2>1 DEF lockVars, WaitInv, QueuesInv, HoldersInv
    <2>2. CASE \E t \in LockTasks : LockStep(t)
      BY <2>2, WaitNext DEF LockStep
    <2> QED BY <2>1, <2>2 DEF Next, AsyncStep, EchoServe, TurnStep, Others, vars
  <1>3. LockInv /\ WaitInv => NobodyWaitsInVain
    <2> SUFFICES ASSUME LockType, WaitInv, NEW t \in LockTasks, pc[t] = "wait"
                 PROVE  LET m == LockKind[t]
                            first == Head(waiters[m])
                        IN  /\ t \in ToSet(waiters[m])
                            /\ \/ /\ owner[m] \in LockTasks /\ pc[owner[m]] \in {"update", "more"}
                                  /\ LockKind[owner[m]] = m
                               \/ /\ owner[m] = "nobody" /\ first \in LockTasks
                                  /\ pc[first] = "wait" /\ LockKind[first] = m
      BY DEF LockInv, NobodyWaitsInVain
    <2> DEFINE m == LockKind[t]
               q == waiters[m]
    <2>1. m \in Lock!Mutexes /\ q \in Seq(LockTasks) /\ t \in ToSet(q) /\ q # <<>>
      BY MutexFacts, EmptyToSet DEF WaitInv, QueuesInv
    <2>2. Head(q) \in LockTasks /\ Head(q) \in ToSet(q)
      BY <2>1, TailElements
    <2>3. pc[Head(q)] = "wait" /\ LockKind[Head(q)] = m
      BY <2>1, <2>2 DEF WaitInv, QueuesInv
    <2>4. owner[m] \in LockTasks \cup {"nobody"}
      BY <2>1 DEF LockType
    <2> QED BY <2>1, <2>2, <2>3, <2>4 DEF WaitInv, HoldersInv
  <1> QED BY <1>1, <1>2, <1>3, LockAlways, PTL DEF Spec

-----------------------------------------------------------------------------
(* AsyncTasks.                                                             *)

AsyncType ==
    /\ Async!WellFormed(main)
    /\ at \in [Async!Task -> Nat] /\ reg \in [Async!Task -> Nat]
    /\ val \in [Async!Objects -> Nat]
    /\ on \in [UNION {main.home[t] : t \in Async!Task} -> Async!Task \cup {"nobody"}]
    /\ \A t \in Async!Task : Async!Thread(t) \subseteq main.home[t]
    /\ \A x \in Async!Objects : IsFiniteSet(Async!StoresBy(Async!Task, x))

\* What WellFormed says of one task.
LEMMA ScriptFacts ==
    ASSUME Async!WellFormed(main), NEW t \in Async!Task
    PROVE  /\ Len(main.script[t]) \in Nat /\ DOMAIN main.script[t] = 1 .. Len(main.script[t])
           /\ "nobody" \notin Async!Task
           /\ \A i \in DOMAIN main.script[t] :
                /\ main.script[t][i] = <<main.script[t][i][1], main.script[t][i][2]>>
                /\ main.script[t][i] \in Async!Ops(main, t) /\ main.script[t][i][2] \in Async!Objects
  <1>1. /\ main.script[t] \in Seq(Async!Ops(main, t)) /\ "nobody" \notin Async!Task
        /\ \A op \in Async!Ops(main, t) : op = <<op[1], op[2]>>
    BY DEF Async!WellFormed, Async!Task
  <1>2. /\ Len(main.script[t]) \in Nat /\ DOMAIN main.script[t] = 1 .. Len(main.script[t])
        /\ \A i \in DOMAIN main.script[t] : main.script[t][i] \in Async!Ops(main, t)
    BY <1>1
  <1>3. \A op \in Async!Ops(main, t) : op[2] \in Async!Objects
    BY DEF Async!Objects
  <1> QED BY <1>1, <1>2, <1>3

LEMMA SameProgram ==
    ASSUME main' = main
    PROVE  Async!Task' = Async!Task /\ Async!Objects' = Async!Objects
  <1>1. Async!Task' = Async!Task
    BY DEF Async!Task
  <1>2. Async!Objects' = Async!Objects
    BY <1>1 DEF Async!Objects
  <1> QED BY <1>1, <1>2

\* What a step of u does to threads and places: one thread goes to u or is freed,
\* and u goes on, stays, or (having looked too early, or failed an assertion) stops.
Moved(u) ==
    /\ u \in Async!Task /\ u \in spawned /\ main' = main
    /\ at[u] \in 1 .. Len(main.script[u])
    /\ \E h \in Async!MayRun(u) : \E o \in {u, "nobody"} : on' = [on EXCEPT ![h] = o]
    /\ \/ at' = at
       \/ at' = [at EXCEPT ![u] = @ + 1]
       \/ at' = [at EXCEPT ![u] = 0] /\ Async!Op(u)[1] \in {"take", "await", "assert_eq"}

\* The operation it is at.
LEMMA MovedOp ==
    ASSUME Async!WellFormed(main), NEW u \in Async!Task, Moved(u)
    PROVE  /\ at[u] \in DOMAIN main.script[u] /\ Async!Op(u) = main.script[u][at[u]]
           /\ Async!Op(u) \in Async!Ops(main, u) /\ Async!X(u) \in Async!Objects
           /\ Async!Op(u) = <<Async!Op(u)[1], Async!X(u)>>
  <1>1. at[u] \in DOMAIN main.script[u]
    BY ScriptFacts DEF Moved
  <1>2. /\ main.script[u][at[u]] = <<main.script[u][at[u]][1], main.script[u][at[u]][2]>>
        /\ main.script[u][at[u]] \in Async!Ops(main, u)
        /\ main.script[u][at[u]][2] \in Async!Objects
    BY <1>1, ScriptFacts
  <1> QED BY <1>1, <1>2 DEF Async!Op, Async!X

LEMMA StepMoves ==
    ASSUME AsyncType, NEW u \in Async!Task, Async!Step(u)
    PROVE  Moved(u)
  <1>1. at[u] \in Nat /\ Len(main.script[u]) \in Nat
    BY ScriptFacts DEF AsyncType
  <1>2. \A op : Async!Doing(u, op) => u \in spawned /\ at[u] \in 1 .. Len(main.script[u]) /\ Async!Op(u)[1] = op
    BY <1>1 DEF Async!Doing, Async!Over
  <1>3. Async!Advance(u) =>
          /\ \E h \in Async!MayRun(u) : \E o \in {u, "nobody"} : on' = [on EXCEPT ![h] = o]
          /\ at' = [at EXCEPT ![u] = @ + 1]
    <2>1. CASE at[u] = Len(main.script[u])
      BY <2>1 DEF Async!Advance
    <2>2. CASE at[u] # Len(main.script[u])
      BY <2>2 DEF Async!Advance
    <2> QED BY <2>1, <2>2
  <1>4. Async!Yield(u) => \E h \in Async!MayRun(u) : \E o \in {u, "nobody"} : on' = [on EXCEPT ![h] = o]
    BY DEF Async!Yield
  <1>5. Async!Occupy(u) => (\E h \in Async!MayRun(u) : \E o \in {u, "nobody"} : on' = [on EXCEPT ![h] = o]) /\ at' = at
    BY DEF Async!Occupy
  <1>6. CASE Async!Spawn(u) \/ Async!Join(u) \/ Async!Lock(u) \/ Async!Unlock(u) \/ Async!Load(u)
             \/ Async!Store(u) \/ Async!Send(u) \/ Async!Recv(u)
    <2>1. Async!Advance(u) /\ main' = main /\ \E op : Async!Doing(u, op)
      BY <1>6 DEF Async!Spawn, Async!Join, Async!Lock, Async!Unlock, Async!Load, Async!Store, Async!Send, Async!Recv
    <2> QED BY <1>2, <1>3, <2>1 DEF Moved
  <1>7. CASE Async!Sleep(u)
    <2>1. Async!Yield(u) /\ main' = main /\ at' = [at EXCEPT ![u] = @ + 1] /\ \E op : Async!Doing(u, op)
      BY <1>7 DEF Async!Sleep
    <2> QED BY <1>2, <1>4, <2>1 DEF Moved
  <1>8. CASE Async!LockWaits(u) \/ Async!Waits(u)
    <2>1. Async!Yield(u) /\ main' = main /\ at' = at /\ \E op : Async!Doing(u, op)
      BY <1>8 DEF Async!LockWaits, Async!Waits, Async!Awaits
    <2> QED BY <1>2, <1>4, <2>1 DEF Moved
  <1>9. CASE Async!Block(u)
    <2>1. (Async!Advance(u) \/ Async!Occupy(u)) /\ main' = main /\ \E op : Async!Doing(u, op)
      BY <1>9 DEF Async!Block
    <2> QED BY <1>2, <1>3, <1>5, <2>1 DEF Moved
  <1>10. CASE Async!Take(u)
    <2>1. main' = main /\ Async!Doing(u, "take")
      BY <1>10 DEF Async!Take
    <2>2. CASE chan[Async!X(u)] > 0
      <3>1. Async!Advance(u)
        BY <1>10, <2>2 DEF Async!Take
      <3> QED BY <1>2, <1>3, <2>1, <3>1 DEF Moved
    <2>3. CASE ~(chan[Async!X(u)] > 0)
      <3>1. Async!Stop(u)
        BY <1>10, <2>3 DEF Async!Take
      <3> QED BY <1>2, <1>4, <2>1, <3>1 DEF Moved, Async!Stop
    <2> QED BY <2>2, <2>3
  <1>11. CASE Async!Poll(u)
    <2>1. main' = main /\ Async!Doing(u, "poll")
      BY <1>11 DEF Async!Poll
    <2>2. CASE locks[Async!X(u)] # <<>>
      <3>1. Async!Occupy(u)
        BY <1>11, <2>2 DEF Async!Poll
      <3> QED BY <1>2, <1>5, <2>1, <3>1 DEF Moved
    <2>3. CASE locks[Async!X(u)] = <<>> /\ val[Async!X(u)] > 0
      <3>1. Async!Advance(u)
        BY <1>11, <2>3 DEF Async!Poll
      <3> QED BY <1>2, <1>3, <2>1, <3>1 DEF Moved
    <2>4. CASE locks[Async!X(u)] = <<>> /\ ~(val[Async!X(u)] > 0)
      <3>1. Async!Yield(u) /\ at' = at
        BY <1>11, <2>4 DEF Async!Poll
      <3> QED BY <1>2, <1>4, <2>1, <3>1 DEF Moved
    <2> QED BY <2>2, <2>3, <2>4
  <1>12. CASE Async!TimeOut(u)
    <2>1. main' = main /\ Async!Doing(u, "await") /\ Async!Stop(u)
      BY <1>12 DEF Async!TimeOut
    <2> QED BY <1>2, <1>4, <2>1 DEF Moved, Async!Stop
  <1>13. CASE Async!AssertEq(u)
    <2>1. main' = main /\ Async!Doing(u, "assert_eq") /\ (Async!Advance(u) \/ Async!Stop(u))
      BY <1>13 DEF Async!AssertEq
    <2>2. CASE Async!Advance(u)
      BY <1>2, <1>3, <2>1, <2>2 DEF Moved
    <2>3. CASE Async!Stop(u)
      BY <1>2, <1>4, <2>1, <2>3 DEF Moved, Async!Stop
    <2> QED BY <2>1, <2>2, <2>3
  <1> QED BY <1>6, <1>7, <1>8, <1>9, <1>10, <1>11, <1>12, <1>13 DEF Async!Step

\* What a step of u does to counters and to what was read.
LEMMA StepWrites ==
    ASSUME NEW u, Async!Step(u)
    PROVE  \/ Async!Load(u)
           \/ Async!Store(u)
           \/ val' = val /\ reg' = reg /\ Async!Op(u)[1] \notin {"load", "store"}
  <1>1. \A op : Async!Doing(u, op) => Async!Op(u)[1] = op
    BY DEF Async!Doing
  <1>2. CASE Async!Spawn(u) \/ Async!Join(u) \/ Async!Sleep(u) \/ Async!Lock(u) \/ Async!LockWaits(u) \/ Async!Block(u)
    BY <1>1, <1>2 DEF Async!Spawn, Async!Join, Async!Sleep, Async!Lock, Async!LockWaits, Async!Block
  <1>3. CASE Async!Unlock(u) \/ Async!Send(u) \/ Async!Recv(u)
    BY <1>1, <1>3 DEF Async!Unlock, Async!Send, Async!Recv
  <1>4. CASE Async!Take(u) \/ Async!Poll(u) \/ Async!TimeOut(u) \/ Async!AssertEq(u)
    BY <1>1, <1>4 DEF Async!Take, Async!Poll, Async!TimeOut, Async!AssertEq
  <1>5. CASE Async!Waits(u)
    BY <1>1, <1>5 DEF Async!Waits, Async!Awaits
  <1> QED BY <1>2, <1>3, <1>4, <1>5 DEF Async!Step

\* Which stores count after a step of u: those that did before and, if u stored,
\* its own.
LEMMA StoresStep ==
    ASSUME AsyncType, NEW u \in Async!Task, Async!Step(u), NEW x
    PROVE  /\ \A t \in Async!Task : t # u => Async!Stores(t, x)' = Async!Stores(t, x)
           /\ Async!Store(u) /\ Async!X(u) = x =>
                Async!Stores(u, x)' = Async!Stores(u, x) \cup {at[u]} /\ at[u] \notin Async!Stores(u, x)
           /\ ~(Async!Store(u) /\ Async!X(u) = x) => Async!Stores(u, x)' = Async!Stores(u, x)
  <1>1. Moved(u)
    BY StepMoves
  <1>2. /\ at \in [Async!Task -> Nat] /\ main' = main
        /\ at' \in [Async!Task -> Nat] /\ \A t \in Async!Task : t # u => at'[t] = at[t]
    <2>1. at \in [Async!Task -> Nat] /\ main' = main
      BY <1>1 DEF AsyncType, Moved
    <2>2. at' = at \/ at' = [at EXCEPT ![u] = @ + 1] \/ at' = [at EXCEPT ![u] = 0]
      BY <1>1 DEF Moved
    <2> QED BY <2>1, <2>2
  <1>3. /\ Len(main.script[u]) \in Nat /\ DOMAIN main.script[u] = 1 .. Len(main.script[u])
        /\ at[u] \in DOMAIN main.script[u]
        /\ main.script[u][at[u]] = <<Async!Op(u)[1], Async!X(u)>>
    BY <1>1, ScriptFacts DEF AsyncType, Moved, Async!Op, Async!X
  <1>4. \A t \in Async!Task : t # u => Async!Stores(t, x)' = Async!Stores(t, x)
    BY <1>2 DEF Async!Stores
  <1>5. CASE Async!Store(u)
    <2>1. Async!Op(u)[1] = "store" /\ at'[u] = at[u] + 1
      BY <1>2, <1>5 DEF Async!Store, Async!Doing, Async!Advance
    <2>2. main.script[u][at[u]] = <<"store", x>> <=> Async!X(u) = x
      BY <1>3, <2>1
    <2>3. at[u] \notin Async!Stores(u, x)
      BY <1>2, <1>3 DEF Async!Stores
    <2>4. CASE Async!X(u) = x
      <3>1. Async!Stores(u, x)' = Async!Stores(u, x) \cup {at[u]}
        BY <1>2, <1>3, <2>1, <2>2, <2>4 DEF Async!Stores
      <3> QED BY <1>4, <1>5, <2>3, <2>4, <3>1
    <2>5. CASE Async!X(u) # x
      <3>1. Async!Stores(u, x)' = Async!Stores(u, x)
        BY <1>2, <1>3, <2>1, <2>2, <2>5 DEF Async!Stores
      <3> QED BY <1>4, <1>5, <2>5, <3>1
    <2> QED BY <2>4, <2>5
  <1>6. CASE ~Async!Store(u)
    <2>1. Async!Op(u)[1] # "store"
      BY <1>6, StepWrites DEF Async!Load, Async!Doing
    <2>2. main.script[u][at[u]] # <<"store", x>>
      BY <1>3, <2>1
    <2>3. CASE at' = at
      BY <1>2, <1>4, <1>6, <2>3 DEF Async!Stores
    <2>4. CASE at' = [at EXCEPT ![u] = @ + 1]
      <3>1. at'[u] = at[u] + 1
        BY <1>2, <2>4
      <3>2. Async!Stores(u, x)' = Async!Stores(u, x)
        BY <1>2, <1>3, <2>2, <3>1 DEF Async!Stores
      <3> QED BY <1>4, <1>6, <3>2
    <2>5. CASE at' = [at EXCEPT ![u] = 0] /\ Async!Op(u)[1] \in {"take", "await", "assert_eq"}
      <3>1. at'[u] = 0
        BY <1>2, <2>5
      <3>2. \A other \in Async!Ops(main, u) : other[1] # "store"
        BY <1>3, <2>5 DEF AsyncType, Async!WellFormed, Async!Task, Async!Op
      <3>3. \A i \in DOMAIN main.script[u] : main.script[u][i] # <<"store", x>>
        BY <3>2, ScriptFacts DEF AsyncType
      <3>4. Async!Stores(u, x) = {} /\ Async!Stores(u, x)' = {}
        BY <1>2, <3>3 DEF Async!Stores
      <3> QED BY <1>4, <1>6, <3>4
    <2> QED BY <1>1, <2>3, <2>4, <2>5 DEF Moved
  <1> QED BY <1>5, <1>6

LEMMA SameCardinalities ==
    /\ \A S : Async!Cardinality(S) = Cardinality(S)
    /\ \A S : Async!IsFiniteSet(S) <=> IsFiniteSet(S)
  <1>1. \A S : Async!Cardinality(S) = Cardinality(S)
    BY DEF Async!Cardinality, Cardinality
  <1>2. \A S : Async!IsFiniteSet(S) <=> IsFiniteSet(S)
    BY DEF Async!IsFiniteSet, IsFiniteSet
  <1> QED BY <1>1, <1>2

\* The numbers of stores.
LEMMA CountsAreNumbers ==
    ASSUME AsyncType, NEW T \in SUBSET Async!Task, NEW x \in Async!Objects
    PROVE  /\ IsFiniteSet(Async!StoresBy(T, x)) /\ Async!StoresOf(T, x) \in Nat
           /\ Async!StoresOf(Async!Task, x) \in Nat
           /\ Async!StoresOf(T, x) <= Async!StoresOf(Async!Task, x)
  <1>1. Async!StoresBy(T, x) \subseteq Async!StoresBy(Async!Task, x)
    BY DEF Async!StoresBy
  <1>2. IsFiniteSet(Async!StoresBy(Async!Task, x))
    BY DEF AsyncType
  <1>3. \A S : Async!StoresOf(S, x) = Cardinality(Async!StoresBy(S, x))
    BY SameCardinalities DEF Async!StoresOf
  <1> QED BY <1>1, <1>2, <1>3, FS_Subset, FS_CardinalityType

LEMMA CountsStep ==
    ASSUME AsyncType, NEW u \in Async!Task, Async!Step(u), NEW T \in SUBSET Async!Task, NEW x \in Async!Objects
    PROVE  /\ IsFiniteSet(Async!StoresBy(T, x)')
           /\ Async!StoresOf(T, x)' =
                IF Async!Store(u) /\ Async!X(u) = x /\ u \in T
                THEN Async!StoresOf(T, x) + 1 ELSE Async!StoresOf(T, x)
  <1>1. IsFiniteSet(Async!StoresBy(T, x)) /\ Async!StoresOf(T, x) = Cardinality(Async!StoresBy(T, x))
    BY CountsAreNumbers, SameCardinalities DEF Async!StoresOf
  <1>2. Async!StoresOf(T, x)' = Cardinality(Async!StoresBy(T, x)')
    BY SameCardinalities DEF Async!StoresOf
  <1>3. \A t \in T : t # u => Async!Stores(t, x)' = Async!Stores(t, x)
    BY StoresStep
  <1>4. CASE Async!Store(u) /\ Async!X(u) = x /\ u \in T
    <2>1. Async!Stores(u, x)' = Async!Stores(u, x) \cup {at[u]} /\ at[u] \notin Async!Stores(u, x)
      BY <1>4, StoresStep
    <2>2. Async!StoresBy(T, x)' = Async!StoresBy(T, x) \cup {<<u, at[u]>>}
      BY <1>3, <1>4, <2>1 DEF Async!StoresBy
    <2>3. <<u, at[u]>> \notin Async!StoresBy(T, x)
      BY <2>1 DEF Async!StoresBy
    <2> DEFINE S == Async!StoresBy(T, x)
               e == <<u, at[u]>>
    <2> HIDE DEF S, e
    <2>4. IsFiniteSet(S \cup {e}) /\ Cardinality(S \cup {e}) = Cardinality(S) + 1
      BY <1>1, <2>3, FS_AddElement DEF S, e
    <2> QED BY <1>1, <1>2, <1>4, <2>2, <2>4 DEF S, e
  <1>5. CASE ~(Async!Store(u) /\ Async!X(u) = x /\ u \in T)
    <2>1. \A t \in T : Async!Stores(t, x)' = Async!Stores(t, x)
      BY <1>3, <1>5, StoresStep
    <2>2. Async!StoresBy(T, x)' = Async!StoresBy(T, x)
      BY <2>1 DEF Async!StoresBy
    <2> QED BY <1>1, <1>2, <1>5, <2>2
  <1> QED BY <1>4, <1>5

\* The same for all tasks together.
LEMMA TotalsStep ==
    ASSUME AsyncType, NEW u \in Async!Task, Async!Step(u), NEW x \in Async!Objects
    PROVE  /\ IsFiniteSet(Async!StoresBy(Async!Task, x))'
           /\ Async!StoresOf(Async!Task, x)' =
                IF Async!Store(u) /\ Async!X(u) = x
                THEN Async!StoresOf(Async!Task, x) + 1 ELSE Async!StoresOf(Async!Task, x)
  <1>1. PICK T : T = Async!Task
    OBVIOUS
  <1>2. Async!Task' = Async!Task
    BY StepMoves, SameProgram DEF Moved
  <1>3. Async!StoresBy(Async!Task, x)' = Async!StoresBy(T, x)'
    BY <1>1, <1>2 DEF Async!StoresBy
  <1>4. Async!StoresOf(Async!Task, x)' = Async!StoresOf(T, x)'
    BY <1>3 DEF Async!StoresOf
  <1>5. Async!StoresOf(Async!Task, x) = Async!StoresOf(T, x)
    BY <1>1
  <1>6. IsFiniteSet(Async!StoresBy(T, x)')
    BY <1>1, CountsStep
  <1>7. Async!StoresOf(T, x)' = IF Async!Store(u) /\ Async!X(u) = x /\ u \in T
                                THEN Async!StoresOf(T, x) + 1 ELSE Async!StoresOf(T, x)
    BY <1>1, CountsStep
  <1> QED BY <1>1, <1>3, <1>4, <1>5, <1>6, <1>7

LEMMA HeadStays ==
    ASSUME NEW S, NEW s \in Seq(S), NEW e \in S
    PROVE  /\ Append(s, e) \in Seq(S) /\ Append(s, e) # <<>>
           /\ s # <<>> => Head(Append(s, e)) = Head(s)
           /\ s = <<>> => Head(Append(s, e)) = e
           /\ <<e>> \in Seq(S) /\ <<e>> # <<>> /\ Head(<<e>>) = e
  OBVIOUS

\* Who is inside owns the mutex.
HoldInv ==
    /\ locks \in [Async!Objects -> Seq(Async!Task)]
    /\ \A t \in Async!Task : \A x \in Async!Objects :
          Async!Inside(main, t, x, at[t]) => locks[x] # <<>> /\ Head(locks[x]) = t

\* What a step of u does to a mutex.
LEMMA LocksStep ==
    ASSUME AsyncType, HoldInv, NEW u \in Async!Task, Async!Step(u)
    PROVE  /\ Async!X(u) \in Async!Objects
           /\ \/ UNCHANGED locks
              \/ /\ Async!Unlock(u) /\ Async!Op(u) = <<"unlock", Async!X(u)>>
                 /\ Head(locks[Async!X(u)]) = u /\ locks[Async!X(u)] # <<>>
                 /\ locks' = [locks EXCEPT ![Async!X(u)] = Tail(@)]
              \/ locks[Async!X(u)] # <<>> /\ locks' = [locks EXCEPT ![Async!X(u)] = Append(@, u)]
              \/ locks[Async!X(u)] = <<>> /\ locks' = [locks EXCEPT ![Async!X(u)] = <<u>>]
           /\ Async!Op(u) \in {<<"lock", Async!X(u)>>, <<"block", Async!X(u)>>} /\ at' # at =>
                locks'[Async!X(u)] # <<>> /\ Head(locks'[Async!X(u)]) = u
  <1> DEFINE x == Async!X(u)
  <1>1. /\ x \in Async!Objects /\ locks \in [Async!Objects -> Seq(Async!Task)]
        /\ locks[x] \in Seq(Async!Task) /\ at[u] \in DOMAIN main.script[u]
        /\ main.script[u][at[u]] = Async!Op(u) /\ Async!Op(u) = <<Async!Op(u)[1], x>>
    BY StepMoves, ScriptFacts DEF AsyncType, HoldInv, Moved, Async!Op, Async!X
  <1>2. \A op : Async!Doing(u, op) => Async!Op(u)[1] = op /\ Async!Op(u) = <<op, x>>
    BY <1>1 DEF Async!Doing
  <1>3. CASE Async!Lock(u)
    <2>1. /\ Head(Append(locks[x], u)) = u
          /\ locks' = [locks EXCEPT ![x] = IF @ = <<>> THEN <<u>> ELSE @]
      BY <1>3 DEF Async!Lock
    <2>2. CASE locks[x] = <<>>
      <3>1. locks' = [locks EXCEPT ![x] = <<u>>] /\ locks'[x] = <<u>>
        BY <1>1, <2>1, <2>2
      <3> QED BY <1>1, <2>2, <3>1, HeadStays
    <2>3. CASE locks[x] # <<>>
      <3>1. locks' = locks /\ Head(locks[x]) = u
        BY <1>1, <2>1, <2>3, HeadStays
      <3> QED BY <1>1, <2>3, <3>1
    <2> QED BY <2>2, <2>3
  <1>4. CASE Async!Block(u)
    <2>1. CASE locks[x] = <<>>
      <3>1. locks' = [locks EXCEPT ![x] = <<u>>]
        BY <1>4, <2>1 DEF Async!Block
      <3>2. locks'[x] = <<u>>
        BY <1>1, <3>1
      <3> QED BY <1>1, <2>1, <3>1, <3>2, HeadStays
    <2>2. CASE locks[x] # <<>>
      <3>1. locks' = locks /\ at' = at
        BY <1>4, <2>2 DEF Async!Block, Async!Occupy
      <3> QED BY <1>1, <3>1
    <2> QED BY <2>1, <2>2
  <1>5. CASE Async!LockWaits(u)
    <2>1. locks[x] # <<>> /\ locks' = [locks EXCEPT ![x] = Append(@, u)] /\ at' = at
      BY <1>5 DEF Async!LockWaits
    <2> QED BY <1>1, <2>1
  <1>6. CASE Async!Unlock(u)
    <2>1. Async!Op(u) = <<"unlock", x>> /\ locks' = [locks EXCEPT ![x] = Tail(@)]
      BY <1>2, <1>6 DEF Async!Unlock
    <2>2. Async!Inside(main, u, x, at[u])
      <3>1. \A i \in DOMAIN main.script[u] :
                main.script[u][i][1] = "unlock" => Async!Inside(main, u, main.script[u][i][2], i)
        BY DEF AsyncType, Async!WellFormed, Async!Task
      <3>2. main.script[u][at[u]][1] = "unlock" /\ main.script[u][at[u]][2] = x
        BY <1>1, <2>1
      <3> QED BY <1>1, <3>1, <3>2
    <2>3. locks[x] # <<>> /\ Head(locks[x]) = u
      BY <1>1, <2>2 DEF HoldInv
    <2> QED BY <1>1, <1>6, <2>1, <2>3
  <1>7. CASE ~(Async!Lock(u) \/ Async!Block(u) \/ Async!LockWaits(u) \/ Async!Unlock(u))
    <2>1. locks' = locks /\ Async!Op(u)[1] \notin {"lock", "block"}
      <3>1. CASE Async!Spawn(u) \/ Async!Join(u) \/ Async!Sleep(u) \/ Async!Load(u) \/ Async!Store(u)
        BY <1>2, <3>1 DEF Async!Spawn, Async!Join, Async!Sleep, Async!Load, Async!Store
      <3>2. CASE Async!Send(u) \/ Async!Recv(u)
        BY <1>2, <3>2 DEF Async!Send, Async!Recv
      <3>3. CASE Async!Take(u) \/ Async!Poll(u) \/ Async!TimeOut(u) \/ Async!AssertEq(u)
        BY <1>2, <3>3 DEF Async!Take, Async!Poll, Async!TimeOut, Async!AssertEq
      <3>4. CASE Async!Waits(u)
        BY <1>2, <3>4 DEF Async!Waits, Async!Awaits
      <3> QED BY <1>7, <3>1, <3>2, <3>3, <3>4 DEF Async!Step
    <2> QED BY <1>1, <2>1
  <1> QED BY <1>3, <1>4, <1>5, <1>6, <1>7

\* Who is inside after a step of u.
LEMMA InsideStep ==
    ASSUME AsyncType, NEW u \in Async!Task, Async!Step(u), NEW x,
           NEW t \in Async!Task, Async!Inside(main', t, x, at'[t])
    PROVE  \/ Async!Inside(main, t, x, at[t]) /\ (t = u /\ at' # at => Async!Op(u) # <<"unlock", x>>)
           \/ t = u /\ at' # at /\ Async!Op(u) \in {<<"lock", x>>, <<"block", x>>}
  <1>1. Moved(u)
    BY StepMoves
  <1>2. /\ main' = main /\ at \in [Async!Task -> Nat]
        /\ at[u] \in 1 .. Len(main.script[u]) /\ Len(main.script[u]) \in Nat
        /\ Async!Op(u) = main.script[u][at[u]]
    BY <1>1, ScriptFacts DEF AsyncType, Moved, Async!Op
  <1>3. Async!Inside(main, t, x, at'[t])
    BY <1>2
  <1>4. CASE at'[t] = at[t]
    BY <1>2, <1>3, <1>4, <1>1 DEF Moved
  <1>5. CASE at'[t] # at[t]
    <2>1. t = u /\ at' # at /\ (at'[u] = at[u] + 1 \/ at'[u] = 0)
      <3>1. at' = at \/ at' = [at EXCEPT ![u] = @ + 1] \/ at' = [at EXCEPT ![u] = 0]
        BY <1>1 DEF Moved
      <3> QED BY <1>2, <1>5, <3>1
    <2>2. PICK j \in 1 .. at'[u] - 1 :
            /\ main.script[u][j] \in {<<"lock", x>>, <<"block", x>>}
            /\ \A i \in j + 1 .. at'[u] - 1 : main.script[u][i] # <<"unlock", x>>
      BY <1>3, <2>1 DEF Async!Inside
    <2>3. at'[u] = at[u] + 1
      BY <2>1, <2>2
    <2>4. CASE j = at[u]
      BY <1>2, <2>1, <2>2, <2>4
    <2>5. CASE j # at[u]
      <3>1. j \in 1 .. at[u] - 1 /\ at[u] \in j + 1 .. at'[u] - 1
        BY <1>2, <2>2, <2>3, <2>5
      <3>2. Async!Inside(main, u, x, at[u])
        <4>1. \A i \in j + 1 .. at[u] - 1 : main.script[u][i] # <<"unlock", x>>
          <5>1. at[u] \in Nat /\ at'[u] - 1 = at[u]
            BY <1>2, <2>3
          <5>2. j + 1 .. at[u] - 1 \subseteq j + 1 .. at'[u] - 1
            BY <5>1
          <5> QED BY <2>2, <5>2
        <4> QED BY <2>2, <3>1, <4>1 DEF Async!Inside
      <3> QED BY <1>2, <2>1, <2>2, <3>1, <3>2
    <2> QED BY <2>4, <2>5
  <1> QED BY <1>4, <1>5

LEMMA HoldStep ==
    ASSUME AsyncType, HoldInv, NEW u \in Async!Task, Async!Step(u)
    PROVE  HoldInv'
  <1> DEFINE x == Async!X(u)
  <1>1. /\ x \in Async!Objects /\ main' = main /\ locks \in [Async!Objects -> Seq(Async!Task)]
        /\ Async!Objects' = Async!Objects /\ Async!Task' = Async!Task
    <2>1. x \in Async!Objects /\ main' = main /\ locks \in [Async!Objects -> Seq(Async!Task)]
      BY LocksStep, StepMoves DEF Moved, HoldInv
    <2> QED BY <2>1, SameProgram
  <1>2. locks' \in [Async!Objects -> Seq(Async!Task)]
    <2>1. locks[x] # <<>> => Tail(locks[x]) \in Seq(Async!Task)
      BY <1>1
    <2>2. Append(locks[x], u) \in Seq(Async!Task) /\ <<u>> \in Seq(Async!Task)
      BY <1>1, HeadStays
    <2> QED BY <1>1, <2>1, <2>2, LocksStep
  <1>3. ASSUME NEW t \in Async!Task, NEW y \in Async!Objects, Async!Inside(main', t, y, at'[t])
        PROVE  locks'[y] # <<>> /\ Head(locks'[y]) = t
    <2>1. CASE t = u /\ at' # at /\ Async!Op(u) \in {<<"lock", y>>, <<"block", y>>}
      <3>1. y = x
        BY <2>1 DEF Async!X
      <3> QED BY <2>1, <3>1, LocksStep
    <2>2. CASE Async!Inside(main, t, y, at[t]) /\ (t = u /\ at' # at => Async!Op(u) # <<"unlock", y>>)
      <3>1. locks[y] # <<>> /\ Head(locks[y]) = t /\ locks[y] \in Seq(Async!Task)
        BY <1>1, <2>2 DEF HoldInv
      <3>2. CASE UNCHANGED locks \/ y # x
        <4>1. locks'[y] = locks[y]
          BY <1>1, <3>2, LocksStep
        <4> QED BY <3>1, <4>1
      <3>3. CASE y = x /\ Async!Unlock(u) /\ Async!Op(u) = <<"unlock", x>> /\ Head(locks[x]) = u
        <4>1. at' # at
          <5>1. at' = [at EXCEPT ![u] = @ + 1]
            BY <3>3 DEF Async!Unlock, Async!Advance
          <5> QED BY <5>1 DEF AsyncType
        <4> QED BY <2>2, <3>1, <3>3, <4>1
      <3>4. CASE y = x /\ locks[x] # <<>> /\ locks' = [locks EXCEPT ![x] = Append(@, u)]
        <4>1. locks'[y] = Append(locks[y], u)
          BY <1>1, <3>4
        <4> QED BY <3>1, <4>1, HeadStays
      <3>5. CASE y = x /\ locks[x] = <<>>
        BY <3>1, <3>5
      <3> QED BY <3>2, <3>3, <3>4, <3>5, LocksStep
    <2> QED BY <1>3, <2>1, <2>2, InsideStep
  <1> QED BY <1>1, <1>2, <1>3 DEF HoldInv

AtStore(t, x) == at[t] \in DOMAIN main.script[t] /\ main.script[t][at[t]] = <<"store", x>>

\* Who is about to store has kept its thread since it read, and what it read is
\* at most the number of stores; with one thread, or the mutex, it is still there.
PendingInv ==
    \A t \in Async!Task : \A x \in Async!Objects : AtStore(t, x) =>
        /\ Async!Thread(t) # {} /\ reg[t] <= Async!StoresOf(Async!Task, x)
        /\ Async!Guarded(main, x) => reg[t] = val[x]

LEMMA ThreadFacts ==
    ASSUME AsyncType, NEW u \in Async!Task
    PROVE  /\ \A h \in Async!MayRun(u) : h \in main.home[u] /\ h \in DOMAIN on /\ on[h] \in {u, "nobody"}
           /\ \A h \in Async!Thread(u) : h \in main.home[u] /\ h \in DOMAIN on /\ on[h] = u
  <1>1. DOMAIN on = UNION {main.home[t] : t \in Async!Task} /\ Async!Thread(u) \subseteq main.home[u]
    BY DEF AsyncType
  <1>2. \A h \in Async!Thread(u) : h \in main.home[u] /\ h \in DOMAIN on /\ on[h] = u
    BY <1>1 DEF Async!Thread
  <1>3. CASE Async!Thread(u) # {}
    BY <1>2, <1>3 DEF Async!MayRun
  <1>4. CASE Async!Thread(u) = {}
    BY <1>1, <1>4 DEF Async!MayRun, Async!Thread
  <1> QED BY <1>2, <1>3, <1>4

\* What is one thread is a thread.
LEMMA TheOneThread ==
    ASSUME AsyncType, NEW x, Async!OneThread(main, x)
    PROVE  \E h : \A t \in Async!Storers(main, x) : main.home[t] \subseteq {h}
  <1> DEFINE S == Async!Storers(main, x)
             H == {main.home[t] : t \in S}
  <1>1. IsFiniteSet(S)
    <2>1. IsFiniteSet(Async!Task) /\ S \subseteq Async!Task
      BY SameCardinalities DEF AsyncType, Async!WellFormed, Async!Task, Async!Storers
    <2> QED BY <2>1, FS_Subset
  <1>2. IsFiniteSet(H)
    <2>1. [t \in S |-> main.home[t]] \in Surjection(S, H)
      BY DEF Surjection
    <2> QED BY <1>1, <2>1, FS_Surjection
  <1>3. \A home \in H : IsFiniteSet(home)
    <2>1. \A t \in Async!Task : IsFiniteSet(main.home[t])
      BY SameCardinalities DEF AsyncType, Async!WellFormed, Async!Task
    <2>2. S \subseteq Async!Task
      BY DEF Async!Storers, Async!Task
    <2> QED BY <2>1, <2>2
  <1>4. IsFiniteSet(UNION H)
    BY <1>2, <1>3, FS_UNION
  <1>5. Cardinality(UNION H) = 1
    BY SameCardinalities DEF Async!OneThread
  <1>6. PICK h : UNION H = {h}
    BY <1>4, <1>5, FS_Singleton
  <1> QED BY <1>6

\* Whoever is about to store what is guarded is alone.
LEMMA OneStores ==
    ASSUME AsyncType, HoldInv, PendingInv, NEW x \in Async!Objects, Async!Guarded(main, x),
           NEW t \in Async!Task, AtStore(t, x), NEW u \in Async!Task, AtStore(u, x), Async!MayRun(u) # {}
    PROVE  t = u
  <1>1. /\ <<"store", x>> \in Async!Ops(main, t) /\ <<"store", x>> \in Async!Ops(main, u)
        /\ t \in Async!Storers(main, x) /\ u \in Async!Storers(main, x) /\ "nobody" \notin Async!Task
    BY ScriptFacts DEF AsyncType, AtStore, Async!Storers, Async!Task
  <1>2. CASE Async!OneThread(main, x)
    <2>1. PICK h : main.home[t] \subseteq {h} /\ main.home[u] \subseteq {h}
      BY <1>1, <1>2, TheOneThread
    <2>2. Async!Thread(t) # {}
      BY DEF PendingInv
    <2> QED BY <1>1, <2>1, <2>2, ThreadFacts
  <1>3. CASE Async!Locked(main, x)
    <2>1. ASSUME NEW v \in Async!Storers(main, x), v \in Async!Task, AtStore(v, x)
          PROVE  Head(locks[x]) = v
      <3>1. {<<"lock", x>>, <<"block", x>>} \cap Async!Ops(main, v) # {}
        BY <1>3 DEF Async!Locked
      <3>2. \A i \in DOMAIN main.script[v] :
              main.script[v][i][1] = "store"
                /\ {<<"lock", main.script[v][i][2]>>, <<"block", main.script[v][i][2]>>} \cap Async!Ops(main, v) # {}
              => Async!Inside(main, v, main.script[v][i][2], i)
        BY <2>1 DEF AsyncType, Async!WellFormed, Async!Task
      <3>3. Async!Inside(main, v, x, at[v])
        <4>1. at[v] \in DOMAIN main.script[v] /\ main.script[v][at[v]] = <<"store", x>>
          BY <2>1 DEF AtStore
        <4>2. main.script[v][at[v]][1] = "store" /\ main.script[v][at[v]][2] = x
          BY <4>1
        <4> QED BY <3>1, <3>2, <4>1, <4>2
      <3> QED BY <2>1, <3>3 DEF HoldInv
    <2> QED BY <1>1, <2>1
  <1> QED BY <1>2, <1>3 DEF Async!Guarded

LEMMA AsyncTypeStep ==
    ASSUME AsyncType, NEW u \in Async!Task, Async!Step(u)
    PROVE  AsyncType'
  <1>1. Moved(u)
    BY StepMoves
  <1>2. /\ main' = main /\ Async!Task' = Async!Task /\ Async!Objects' = Async!Objects
        /\ Async!X(u) \in Async!Objects
    <2>1. main' = main
      BY <1>1 DEF Moved
    <2>2. Async!X(u) \in Async!Objects
      BY <1>1, MovedOp DEF AsyncType
    <2> QED BY <2>1, <2>2, SameProgram
  <1>3. Async!WellFormed(main)'
    BY <1>2 DEF AsyncType
  <1>4. at' \in [Async!Task -> Nat]
    <2>1. at \in [Async!Task -> Nat]
      BY DEF AsyncType
    <2>2. at' = at \/ at' = [at EXCEPT ![u] = @ + 1] \/ at' = [at EXCEPT ![u] = 0]
      BY <1>1 DEF Moved
    <2> QED BY <2>1, <2>2
  <1>5. reg' \in [Async!Task -> Nat] /\ val' \in [Async!Objects -> Nat]
    <2>1. CASE Async!Load(u)
      BY <1>2, <2>1 DEF AsyncType, Async!Load
    <2>2. CASE Async!Store(u)
      BY <1>2, <2>2 DEF AsyncType, Async!Store
    <2> QED BY <2>1, <2>2, StepWrites DEF AsyncType
  <1>6. PICK h \in Async!MayRun(u), o \in {u, "nobody"} : on' = [on EXCEPT ![h] = o]
    BY <1>1 DEF Moved
  <1>7. /\ on' \in [UNION {main.home[t] : t \in Async!Task} -> Async!Task \cup {"nobody"}]
        /\ \A t \in Async!Task : Async!Thread(t)' \subseteq main.home[t]
    <2>1. on \in [UNION {main.home[t] : t \in Async!Task} -> Async!Task \cup {"nobody"}]
      BY DEF AsyncType
    <2>2. on' \in [UNION {main.home[t] : t \in Async!Task} -> Async!Task \cup {"nobody"}]
      BY <1>6, <2>1
    <2>3. ASSUME NEW t \in Async!Task, NEW g \in Async!Thread(t)'
          PROVE  g \in main.home[t]
      <3>1. g \in DOMAIN on /\ on'[g] = t /\ "nobody" \notin Async!Task
        BY <2>1, <2>2, <2>3, ScriptFacts DEF Async!Thread, AsyncType
      <3>2. CASE g = h
        BY <1>6, <3>1, <3>2, ThreadFacts
      <3>3. CASE g # h
        <4>1. g \in Async!Thread(t)
          BY <1>6, <3>1, <3>3 DEF Async!Thread
        <4> QED BY <4>1, ThreadFacts
      <3> QED BY <3>2, <3>3
    <2> QED BY <2>2, <2>3
  <1>8. \A x \in Async!Objects' : IsFiniteSet(Async!StoresBy(Async!Task, x))'
    BY <1>2, TotalsStep
  <1> QED BY <1>2, <1>3, <1>4, <1>5, <1>7, <1>8 DEF AsyncType

\* Who comes to a store by its step has just loaded.
LEMMA ComesToStore ==
    ASSUME AsyncType, NEW u \in Async!Task, Async!Step(u), NEW x, AtStore(u, x)'
    PROVE  /\ Async!Load(u) /\ Async!X(u) = x
           /\ at[u] # Len(main.script[u])
  <1>1. Moved(u)
    BY StepMoves
  <1>2. /\ main' = main /\ at \in [Async!Task -> Nat] /\ Async!Op(u) = main.script[u][at[u]]
        /\ at[u] \in DOMAIN main.script[u] /\ DOMAIN main.script[u] = 1 .. Len(main.script[u])
        /\ Len(main.script[u]) \in Nat
    BY <1>1, ScriptFacts DEF AsyncType, Moved, Async!Op
  <1>3. at'[u] \in DOMAIN main.script[u] /\ main.script[u][at'[u]] = <<"store", x>>
    BY <1>2 DEF AtStore
  <1>4. at' = at \/ at' = [at EXCEPT ![u] = @ + 1] \/ at' = [at EXCEPT ![u] = 0]
    BY <1>1 DEF Moved
  <1>5. at'[u] > 1 /\ main.script[u][at'[u] - 1] = <<"load", x>>
    <2>1. \A i \in DOMAIN main.script[u] : main.script[u][i][1] = "store" =>
              i > 1 /\ main.script[u][i - 1] = <<"load", main.script[u][i][2]>>
      BY DEF AsyncType, Async!WellFormed, Async!Task
    <2> QED BY <1>3, <2>1
  <1>6. CASE at' = at
    <2>1. Async!Op(u)[1] = "store"
      BY <1>2, <1>3, <1>6
    <2>2. Async!Store(u)
      BY <2>1, StepWrites DEF Async!Load, Async!Doing
    <2>3. at' = [at EXCEPT ![u] = @ + 1]
      BY <2>2 DEF Async!Store, Async!Advance
    <2> QED BY <1>2, <1>6, <2>3
  <1>7. CASE at' = [at EXCEPT ![u] = @ + 1]
    <2>1. at'[u] = at[u] + 1 /\ at'[u] - 1 = at[u]
      BY <1>2, <1>7
    <2>2. Async!Op(u) = <<"load", x>> /\ at[u] # Len(main.script[u])
      BY <1>2, <1>3, <1>5, <2>1
    <2>3. Async!Op(u)[1] = "load" /\ Async!X(u) = x
      BY <2>2 DEF Async!X
    <2> QED BY <2>2, <2>3, StepWrites DEF Async!Store, Async!Doing
  <1>8. CASE at' = [at EXCEPT ![u] = 0]
    BY <1>2, <1>3, <1>8
  <1> QED BY <1>4, <1>6, <1>7, <1>8

LEMMA PendingStep ==
    ASSUME AsyncType, HoldInv, PendingInv, Async!UpdatesAdd, NEW u \in Async!Task, Async!Step(u)
    PROVE  PendingInv'
  <1>1. /\ Moved(u) /\ main' = main /\ Async!Task' = Async!Task /\ Async!Objects' = Async!Objects
        /\ DOMAIN val = Async!Objects
    BY StepMoves, SameProgram DEF Moved, AsyncType
  <1>2. \A x : Async!Guarded(main, x)' <=> Async!Guarded(main, x)
    BY <1>1
  <1> SUFFICES ASSUME NEW t \in Async!Task, NEW x \in Async!Objects, AtStore(t, x)'
               PROVE  /\ Async!Thread(t)' # {} /\ reg'[t] <= Async!StoresOf(Async!Task, x)'
                      /\ Async!Guarded(main, x) => reg'[t] = val'[x]
    BY <1>1, <1>2 DEF PendingInv
  <1>3. PICK h \in Async!MayRun(u), o \in {u, "nobody"} : on' = [on EXCEPT ![h] = o]
    BY <1>1 DEF Moved
  <1>4. Async!StoresOf(Async!Task, x) \in Nat
    <2>1. PICK T \in SUBSET Async!Task : T = {}
      OBVIOUS
    <2> QED BY <2>1, CountsAreNumbers
  <1>5. reg \in [Async!Task -> Nat] /\ val \in [Async!Objects -> Nat]
    BY DEF AsyncType
  <1>6. CASE t = u
    <2>1. Async!Load(u) /\ Async!X(u) = x /\ at[u] # Len(main.script[u])
      BY <1>6, ComesToStore
    <2>2. reg' = [reg EXCEPT ![u] = val[x]] /\ val' = val
      BY <2>1 DEF Async!Load
    <2>3. ~Async!Store(u)
      BY <2>1 DEF Async!Load, Async!Store, Async!Doing
    <2>4. val[x] <= Async!StoresOf(Async!Task, x) /\ val[x] \in Nat
      BY <1>1, <1>4, <1>5 DEF Async!UpdatesAdd
    <2>5. PICK g \in Async!MayRun(u) : on' = [on EXCEPT ![g] = u]
      BY <2>1 DEF Async!Load, Async!Advance
    <2>6. on'[g] = u /\ g \in DOMAIN on'
      BY <2>5, ThreadFacts
    <2>7. Async!Thread(u)' # {}
      BY <2>6 DEF Async!Thread
    <2> QED BY <1>5, <1>6, <2>2, <2>3, <2>4, <2>7, TotalsStep
  <1>7. CASE t # u
    <2>1. AtStore(t, x)
      <3>1. at'[t] = at[t]
        <4>1. at \in [Async!Task -> Nat]
          BY DEF AsyncType
        <4>2. at' = at \/ at' = [at EXCEPT ![u] = @ + 1] \/ at' = [at EXCEPT ![u] = 0]
          BY <1>1 DEF Moved
        <4> QED BY <1>7, <4>1, <4>2
      <3> QED BY <1>1, <3>1 DEF AtStore
    <2>2. /\ Async!Thread(t) # {} /\ reg[t] <= Async!StoresOf(Async!Task, x)
          /\ Async!Guarded(main, x) => reg[t] = val[x]
      BY <2>1 DEF PendingInv
    <2>3. Async!Thread(t)' # {}
      <3>1. PICK g \in Async!Thread(t) : TRUE
        BY <2>2
      <3>2. on[g] = t /\ g \in DOMAIN on /\ on[h] \in {u, "nobody"} /\ "nobody" \notin Async!Task
        BY <3>1, ThreadFacts, ScriptFacts DEF AsyncType
      <3>3. on'[g] = t /\ g \in DOMAIN on'
        BY <1>3, <1>7, <3>2
      <3> QED BY <3>3 DEF Async!Thread
    <2>4. reg'[t] = reg[t]
      <3>1. CASE Async!Load(u)
        BY <1>5, <1>7, <3>1 DEF Async!Load
      <3>2. CASE Async!Store(u)
        BY <3>2 DEF Async!Store
      <3> QED BY <3>1, <3>2, StepWrites
    <2>5. Async!StoresOf(Async!Task, x)' >= Async!StoresOf(Async!Task, x)
          /\ Async!StoresOf(Async!Task, x)' \in Nat
      BY <1>4, TotalsStep
    <2>6. ASSUME Async!Guarded(main, x) PROVE val'[x] = val[x]
      <3>1. CASE Async!Store(u)
        <4>1. val' = [val EXCEPT ![Async!X(u)] = reg[u] + 1]
          BY <3>1 DEF Async!Store
        <4>2. CASE Async!X(u) # x
          BY <1>5, <4>1, <4>2
        <4>3. CASE Async!X(u) = x
          <5>1. AtStore(u, x)
            <6>1. Async!Op(u)[1] = "store"
              BY <3>1 DEF Async!Store, Async!Doing
            <6>2. /\ at[u] \in DOMAIN main.script[u] /\ Async!Op(u) = main.script[u][at[u]]
                  /\ Async!Op(u) = <<Async!Op(u)[1], Async!X(u)>>
              BY <1>1, MovedOp DEF AsyncType
            <6> QED BY <4>3, <6>1, <6>2 DEF AtStore
          <5> QED BY <1>3, <1>7, <2>1, <2>6, <5>1, OneStores
        <4> QED BY <4>2, <4>3
      <3>2. CASE Async!Load(u)
        BY <3>2 DEF Async!Load
      <3> QED BY <3>1, <3>2, StepWrites
    <2> QED BY <1>4, <1>5, <2>2, <2>3, <2>4, <2>5, <2>6
  <1> QED BY <1>6, <1>7

LEMMA UpdatesStep ==
    ASSUME AsyncType, PendingInv, Async!UpdatesAdd, NEW u \in Async!Task, Async!Step(u)
    PROVE  Async!UpdatesAdd'
  <1>1. /\ Moved(u) /\ main' = main /\ Async!Objects' = Async!Objects
        /\ DOMAIN val = Async!Objects /\ reg \in [Async!Task -> Nat] /\ val \in [Async!Objects -> Nat]
    BY StepMoves, SameProgram DEF Moved, AsyncType
  <1>2. DOMAIN val' = Async!Objects
    BY <1>1, AsyncTypeStep DEF AsyncType
  <1> SUFFICES ASSUME NEW x \in Async!Objects
               PROVE  IF Async!Guarded(main, x) THEN val'[x] = Async!StoresOf(Async!Task, x)'
                      ELSE val'[x] \in (IF Async!StoresOf(Async!Task, x)' = 0 THEN 0 ELSE 1) .. Async!StoresOf(Async!Task, x)'
    BY <1>1, <1>2 DEF Async!UpdatesAdd
  <1>3. Async!StoresOf(Async!Task, x) \in Nat
    <2>1. PICK T \in SUBSET Async!Task : T = {}
      OBVIOUS
    <2> QED BY <2>1, CountsAreNumbers
  <1>4. IF Async!Guarded(main, x) THEN val[x] = Async!StoresOf(Async!Task, x)
        ELSE val[x] \in (IF Async!StoresOf(Async!Task, x) = 0 THEN 0 ELSE 1) .. Async!StoresOf(Async!Task, x)
    BY <1>1 DEF Async!UpdatesAdd
  <1>5. CASE Async!Store(u) /\ Async!X(u) = x
    <2>1. val'[x] = reg[u] + 1 /\ reg[u] \in Nat
      BY <1>1, <1>5 DEF Async!Store
    <2>2. AtStore(u, x)
      <3>1. Async!Op(u)[1] = "store" /\ Async!Op(u) = main.script[u][at[u]]
        BY <1>5 DEF Async!Store, Async!Doing, Async!Op
      <3>2. at[u] \in DOMAIN main.script[u]
        BY <1>1, ScriptFacts DEF Moved, AsyncType
      <3> QED BY <1>5, <3>1, <3>2, ScriptFacts DEF AtStore, Async!X, AsyncType
    <2>3. /\ reg[u] <= Async!StoresOf(Async!Task, x)
          /\ Async!Guarded(main, x) => reg[u] = val[x]
      BY <2>2 DEF PendingInv
    <2>4. Async!StoresOf(Async!Task, x)' = Async!StoresOf(Async!Task, x) + 1
      BY <1>5, TotalsStep
    <2> QED BY <1>3, <1>4, <2>1, <2>3, <2>4
  <1>6. CASE ~(Async!Store(u) /\ Async!X(u) = x)
    <2>1. val'[x] = val[x]
      <3>1. CASE Async!Store(u)
        BY <1>1, <1>6, <3>1 DEF Async!Store
      <3>2. CASE Async!Load(u)
        BY <3>2 DEF Async!Load
      <3> QED BY <3>1, <3>2, StepWrites
    <2>2. Async!StoresOf(Async!Task, x)' = Async!StoresOf(Async!Task, x)
      BY <1>6, TotalsStep
    <2> QED BY <1>4, <2>1, <2>2
  <1> QED BY <1>5, <1>6

\* What main has joined is over, and so is what it joined before a spawn.
JoinInv ==
    /\ \A u \in Async!Task : \A i \in DOMAIN main.script["main"] :
          i < at["main"] /\ main.script["main"][i] = <<"join", u>> => Async!Over(u)
    /\ \A t \in Async!Task : t \in spawned => \A u \in Async!JoinedBefore(main, t) : Async!Over(u)

\* What a reader has read is what was there when it was spawned, or later.
ReadInv ==
    \A t \in Async!Task : \A x \in Async!Objects : \A i \in DOMAIN main.script[t] :
        i < at[t] /\ main.script[t][i] = <<"load", x>> /\ t \notin Async!Storers(main, x) =>
            t \in spawned /\ reg[t] \in Async!StoresOf(Async!JoinedBefore(main, t), x) .. val[x]

LEMMA OverStays ==
    ASSUME AsyncType, NEW u \in Async!Task, Async!Step(u), NEW t \in Async!Task, Async!Over(t)
    PROVE  t # u /\ Async!Over(t)'
  <1>1. /\ main' = main /\ at[u] \in 1 .. Len(main.script[u]) /\ at \in [Async!Task -> Nat]
        /\ Len(main.script[u]) \in Nat
    BY StepMoves, ScriptFacts DEF Moved, AsyncType
  <1>2. at' = at \/ at' = [at EXCEPT ![u] = @ + 1] \/ at' = [at EXCEPT ![u] = 0]
    BY StepMoves DEF Moved
  <1>3. t # u
    BY <1>1 DEF Async!Over
  <1>4. at'[t] = at[t]
    BY <1>1, <1>2, <1>3
  <1> QED BY <1>1, <1>3, <1>4 DEF Async!Over

\* Only a spawn spawns, and a join goes on when the other task is over.
LEMMA StepSpawns ==
    ASSUME NEW u, Async!Step(u)
    PROVE  /\ spawned' = spawned \/ Async!Spawn(u)
           /\ Async!Op(u)[1] = "join" => at' = at \/ Async!Over(Async!X(u))
  <1>1. \A op : Async!Doing(u, op) => Async!Op(u)[1] = op
    BY DEF Async!Doing
  <1>2. CASE Async!Spawn(u) \/ Async!Join(u) \/ Async!Sleep(u) \/ Async!Lock(u) \/ Async!LockWaits(u) \/ Async!Block(u)
    BY <1>1, <1>2 DEF Async!Spawn, Async!Join, Async!Sleep, Async!Lock, Async!LockWaits, Async!Block
  <1>3. CASE Async!Unlock(u) \/ Async!Load(u) \/ Async!Store(u) \/ Async!Send(u) \/ Async!Recv(u)
    BY <1>1, <1>3 DEF Async!Unlock, Async!Load, Async!Store, Async!Send, Async!Recv
  <1>4. CASE Async!Take(u) \/ Async!Poll(u) \/ Async!Waits(u) \/ Async!TimeOut(u) \/ Async!AssertEq(u)
    BY <1>1, <1>4 DEF Async!Take, Async!Poll, Async!Waits, Async!TimeOut, Async!AssertEq
  <1> QED BY <1>2, <1>3, <1>4 DEF Async!Step

LEMMA JoinStep ==
    ASSUME AsyncType, JoinInv, NEW u \in Async!Task, Async!Step(u)
    PROVE  JoinInv'
  <1>1. /\ Moved(u) /\ main' = main /\ Async!Task' = Async!Task /\ at \in [Async!Task -> Nat]
        /\ "main" \in Async!Task
    BY StepMoves, SameProgram DEF Moved, AsyncType, Async!WellFormed, Async!Task
  <1>2. /\ at[u] \in DOMAIN main.script[u] /\ Async!Op(u) = main.script[u][at[u]]
        /\ Async!Op(u) = <<Async!Op(u)[1], Async!X(u)>>
        /\ DOMAIN main.script["main"] = 1 .. Len(main.script["main"]) /\ Len(main.script["main"]) \in Nat
    BY <1>1, ScriptFacts DEF Moved, AsyncType, Async!Op, Async!X
  <1>3. at' = at \/ at' = [at EXCEPT ![u] = @ + 1] \/ at' = [at EXCEPT ![u] = 0]
    BY <1>1 DEF Moved
  <1>4. \A t \in Async!Task : Async!Over(t) => Async!Over(t)'
    BY OverStays
  <1>5. ASSUME NEW t \in Async!Task, NEW i \in DOMAIN main.script["main"],
               i < at'["main"], main.script["main"][i] = <<"join", t>>
        PROVE  Async!Over(t)'
    <2>1. CASE i < at["main"]
      <3>1. Async!Over(t)
        BY <1>5, <2>1 DEF JoinInv
      <3> QED BY <1>4, <3>1
    <2>2. CASE ~(i < at["main"])
      <3>1. u = "main" /\ at' # at /\ i = at["main"]
        BY <1>1, <1>2, <1>3, <1>5, <2>2
      <3>2. Async!Op(u)[1] = "join" /\ Async!X(u) = t
        BY <1>2, <1>5, <3>1
      <3>3. Async!Over(t)
        BY <3>1, <3>2, StepSpawns
      <3> QED BY <1>4, <3>3
    <2> QED BY <2>1, <2>2
  <1>6. ASSUME NEW t \in Async!Task, t \in spawned', NEW v \in Async!JoinedBefore(main, t)
        PROVE  Async!Over(v)'
    <2>1. v \in Async!Task
      BY DEF Async!JoinedBefore, Async!Task
    <2>2. CASE t \in spawned
      <3>1. Async!Over(v)
        BY <2>2 DEF JoinInv
      <3> QED BY <1>4, <2>1, <3>1
    <2>3. CASE t \notin spawned
      <3>1. Async!Spawn(u) /\ Async!X(u) = t /\ Async!Op(u) = <<"spawn", t>>
        <4>1. Async!Spawn(u)
          BY <1>6, <2>3, StepSpawns
        <4> QED BY <1>2, <1>6, <2>3, <4>1 DEF Async!Spawn, Async!Doing
      <3>2. PICK i, j \in DOMAIN main.script["main"] :
              i < j /\ main.script["main"][i] = <<"join", v>> /\ main.script["main"][j] = <<"spawn", t>>
        BY DEF Async!JoinedBefore
      <3>3. "main" = u /\ j = at[u]
        <4>1. main.script[u][at[u]][1] = "spawn" /\ main.script["main"][j] = main.script[u][at[u]]
          BY <1>2, <3>1, <3>2
        <4>2. \A k \in DOMAIN main.script[u] : main.script[u][k][1] = "spawn" =>
                \A w \in Async!Task : \A l \in DOMAIN main.script[w] :
                   main.script[w][l] = main.script[u][k] => w = u /\ l = k
          BY DEF AsyncType, Async!WellFormed, Async!Task
        <4> QED BY <1>1, <1>2, <4>1, <4>2
      <3>4. Async!Over(v)
        BY <2>1, <3>2, <3>3 DEF JoinInv
      <3> QED BY <1>4, <2>1, <3>4
    <2> QED BY <2>2, <2>3
  <1> QED BY <1>1, <1>5, <1>6 DEF JoinInv

LEMMA ReadStep ==
    ASSUME AsyncType, PendingInv, Async!UpdatesAdd, JoinInv, ReadInv, NEW u \in Async!Task, Async!Step(u)
    PROVE  ReadInv'
  <1>1. /\ Moved(u) /\ main' = main /\ Async!Task' = Async!Task /\ Async!Objects' = Async!Objects
        /\ DOMAIN val = Async!Objects /\ reg \in [Async!Task -> Nat] /\ val \in [Async!Objects -> Nat]
        /\ at \in [Async!Task -> Nat]
    BY StepMoves, SameProgram DEF Moved, AsyncType
  <1>2. Async!UpdatesAdd' /\ DOMAIN val' = Async!Objects
    BY <1>1, UpdatesStep, AsyncTypeStep DEF AsyncType
  <1> SUFFICES ASSUME NEW t \in Async!Task, NEW x \in Async!Objects, NEW i \in DOMAIN main.script[t],
                      i < at'[t], main.script[t][i] = <<"load", x>>, t \notin Async!Storers(main, x)
               PROVE  t \in spawned' /\ reg'[t] \in Async!StoresOf(Async!JoinedBefore(main, t), x)' .. val'[x]
    BY <1>1 DEF ReadInv
  <1>3. /\ Async!Guarded(main, x)
        /\ \A op \in Async!Ops(main, t) : op[1] = "load" => op = <<"load", x>>
    <2>1. \A k \in DOMAIN main.script[t] :
            main.script[t][k][1] = "load" /\ t \notin Async!Storers(main, main.script[t][k][2]) =>
              /\ Async!Guarded(main, main.script[t][k][2])
              /\ \A op \in Async!Ops(main, t) : op[1] = "load" => op = main.script[t][k]
      BY DEF AsyncType, Async!WellFormed, Async!Task
    <2>2. main.script[t][i][1] = "load" /\ main.script[t][i][2] = x
      OBVIOUS
    <2> QED BY <2>1, <2>2
  <1>4. PICK T : T = Async!JoinedBefore(main, t)
    OBVIOUS
  <1>5. T \in SUBSET Async!Task /\ T = Async!JoinedBefore(main', t)
    BY <1>1, <1>4 DEF Async!JoinedBefore, Async!Task
  <1>6. /\ Async!StoresOf(Async!JoinedBefore(main, t), x) = Async!StoresOf(T, x)
        /\ Async!StoresOf(Async!JoinedBefore(main, t), x)' = Async!StoresOf(T, x)'
    BY <1>4, <1>5 DEF Async!StoresOf, Async!StoresBy
  <1>7. /\ Async!StoresOf(T, x) \in Nat /\ Async!StoresOf(Async!Task, x) \in Nat
        /\ Async!StoresOf(T, x) <= Async!StoresOf(Async!Task, x)
    BY <1>5, CountsAreNumbers
  <1>8. val[x] = Async!StoresOf(Async!Task, x) /\ val'[x] = Async!StoresOf(Async!Task, x)'
    BY <1>1, <1>2, <1>3 DEF Async!UpdatesAdd
  <1>9. val'[x] \in Nat /\ val[x] \in Nat /\ val[x] <= val'[x]
    BY <1>7, <1>8, TotalsStep
  <1>10. ASSUME t \in spawned
         PROVE  t \in spawned' /\ Async!StoresOf(T, x)' = Async!StoresOf(T, x)
    <2>1. t \in spawned'
      BY <1>10, StepSpawns DEF Async!Spawn
    <2>2. u \notin T
      BY <1>4, <1>5, <1>10, OverStays DEF JoinInv
    <2> QED BY <1>5, <2>1, <2>2, CountsStep
  <1>11. CASE Async!Load(u) /\ u = t
    <2>1. Async!Op(u)[1] = "load" /\ Async!Op(u) \in Async!Ops(main, u) /\ t \in spawned
      <3>1. Async!Op(u)[1] = "load" /\ u \in spawned
        BY <1>11 DEF Async!Load, Async!Doing
      <3>2. Async!Op(u) \in Async!Ops(main, u)
        BY <1>1, MovedOp DEF AsyncType
      <3> QED BY <1>11, <3>1, <3>2
    <2>2. Async!X(u) = x
      BY <1>3, <1>11, <2>1 DEF Async!X
    <2>3. reg'[t] = val[x]
      BY <1>1, <1>11, <2>2 DEF Async!Load
    <2> QED BY <1>6, <1>7, <1>8, <1>9, <1>10, <2>1, <2>3
  <1>12. CASE ~(Async!Load(u) /\ u = t)
    <2>1. reg'[t] = reg[t]
      <3>1. CASE Async!Load(u)
        BY <1>1, <1>12, <3>1 DEF Async!Load
      <3>2. CASE Async!Store(u)
        BY <3>2 DEF Async!Store
      <3> QED BY <3>1, <3>2, StepWrites
    <2>2. i < at[t]
      <3>1. at' = at \/ at' = [at EXCEPT ![u] = @ + 1] \/ at' = [at EXCEPT ![u] = 0]
        BY <1>1 DEF Moved
      <3>2. i \in Nat
        BY ScriptFacts DEF AsyncType
      <3>3. CASE u = t /\ i = at[u]
        <4>1. Async!Op(u)[1] = "load"
          BY <3>3 DEF Async!Op
        <4>2. Async!Load(u)
          BY <4>1, StepWrites DEF Async!Store, Async!Doing
        <4> QED BY <1>12, <3>3, <4>2
      <3> QED BY <1>1, <3>1, <3>2, <3>3
    <2>3. t \in spawned /\ reg[t] \in Async!StoresOf(T, x) .. val[x]
      BY <1>6, <2>2 DEF ReadInv
    <2> QED BY <1>6, <1>7, <1>9, <1>10, <2>1, <2>3
  <1> QED BY <1>11, <1>12

AsyncInv == AsyncType /\ HoldInv /\ PendingInv /\ Async!UpdatesAdd /\ JoinInv /\ ReadInv

LEMMA AsyncInit == ASSUME Async!Init PROVE AsyncInv
  <1>1. /\ Async!WellFormed(main) /\ at = [t \in Async!Task |-> 1] /\ reg = [t \in Async!Task |-> 0]
        /\ spawned = {"main"} /\ locks = [x \in Async!Objects |-> <<>>] /\ val = [x \in Async!Objects |-> 0]
        /\ on = [h \in UNION {main.home[t] : t \in Async!Task} |-> "nobody"]
    BY ScriptsAssumption DEF Async!Init
  <1>2. \A t \in Async!Task : \A i \in DOMAIN main.script[t] : ~(i < at[t])
    BY <1>1, ScriptFacts
  <1>3. \A x : \A t \in Async!Task : Async!Stores(t, x) = {}
    BY <1>2 DEF Async!Stores
  <1>4. \A x : Async!StoresBy(Async!Task, x) = {}
    BY <1>3 DEF Async!StoresBy
  <1>5. \A x : Async!StoresOf(Async!Task, x) = 0
    BY <1>4, FS_EmptySet, SameCardinalities DEF Async!StoresOf
  <1>6. AsyncType
    <2>1. \A t \in Async!Task : Async!Thread(t) = {}
      BY <1>1, ScriptFacts DEF Async!Thread
    <2>2. /\ at \in [Async!Task -> Nat] /\ reg \in [Async!Task -> Nat] /\ val \in [Async!Objects -> Nat]
          /\ on \in [UNION {main.home[t] : t \in Async!Task} -> Async!Task \cup {"nobody"}]
      BY <1>1
    <2> QED BY <1>1, <1>4, <2>1, <2>2, FS_EmptySet DEF AsyncType
  <1>7. HoldInv
    <2>1. \A x : \A t \in Async!Task : ~Async!Inside(main, t, x, at[t])
      BY <1>1 DEF Async!Inside
    <2> QED BY <1>1, <2>1 DEF HoldInv
  <1>8. PendingInv
    <2>1. ASSUME NEW t \in Async!Task, NEW x, AtStore(t, x) PROVE FALSE
      <3>1. \A i \in DOMAIN main.script[t] : main.script[t][i][1] = "store" => i > 1
        BY <1>1 DEF Async!WellFormed, Async!Task
      <3> QED BY <1>1, <2>1, <3>1 DEF AtStore
    <2> QED BY <2>1 DEF PendingInv
  <1>9. Async!UpdatesAdd
    BY <1>1, <1>5 DEF Async!UpdatesAdd
  <1>10. JoinInv
    <2>1. "main" \in Async!Task
      BY <1>1 DEF Async!WellFormed, Async!Task
    <2>2. Async!JoinedBefore(main, "main") = {}
      <3>1. \A i \in DOMAIN main.script["main"] :
              main.script["main"][i][1] = "spawn" => main.script["main"][i][2] # "main"
        BY <1>1, <2>1 DEF Async!WellFormed, Async!Task
      <3>2. \A i \in DOMAIN main.script["main"] : main.script["main"][i] # <<"spawn", "main">>
        BY <3>1
      <3> QED BY <3>2 DEF Async!JoinedBefore
    <2> QED BY <1>1, <1>2, <2>1, <2>2 DEF JoinInv
  <1>11. ReadInv
    BY <1>2 DEF ReadInv
  <1> QED BY <1>6, <1>7, <1>8, <1>9, <1>10, <1>11 DEF AsyncInv

LEMMA AsyncStays == ASSUME AsyncInv, UNCHANGED asyncVars PROVE AsyncInv'
  <1>1. UNCHANGED <<main, spawned, at, on, reg, locks, val>> /\ Async!Task' = Async!Task /\ Async!Objects' = Async!Objects
    BY SameProgram DEF asyncVars
  <1>2. /\ \A t, x : Async!Stores(t, x)' = Async!Stores(t, x) /\ AtStore(t, x)' = AtStore(t, x)
        /\ \A t : Async!Thread(t)' = Async!Thread(t) /\ Async!Over(t)' = Async!Over(t)
    BY <1>1 DEF Async!Stores, Async!Thread, AtStore, Async!Over
  <1>4. \A x : /\ Async!StoresOf(Async!Task, x)' = Async!StoresOf(Async!Task, x)
               /\ Async!StoresBy(Async!Task, x)' = Async!StoresBy(Async!Task, x)
    BY <1>1, <1>2 DEF Async!StoresOf, Async!StoresBy
  <1>5. AsyncType'
    BY <1>1, <1>2, <1>4 DEF AsyncInv, AsyncType
  <1>6. HoldInv'
    BY <1>1 DEF AsyncInv, HoldInv
  <1>7. PendingInv'
    BY <1>1, <1>2, <1>4 DEF AsyncInv, PendingInv
  <1>8. Async!UpdatesAdd'
    BY <1>1, <1>4 DEF AsyncInv, Async!UpdatesAdd
  <1>9. JoinInv'
    BY <1>1, <1>2 DEF AsyncInv, JoinInv
  <1>10. ReadInv'
    <2>1. \A t, x : Async!StoresOf(Async!JoinedBefore(main, t), x)' = Async!StoresOf(Async!JoinedBefore(main, t), x)
      BY <1>1, <1>2 DEF Async!StoresOf, Async!StoresBy
    <2> QED BY <1>1, <2>1 DEF AsyncInv, ReadInv
  <1> QED BY <1>5, <1>6, <1>7, <1>8, <1>9, <1>10 DEF AsyncInv

\* The step of a task keeps it.
LEMMA AsyncNext == ASSUME AsyncInv, Async!Next PROVE AsyncInv'
  <1>1. PICK u : u \in Async!Task /\ Async!Step(u)
    BY DEF Async!Next, Async!TaskStep, Async!Step
  <1>2. AsyncType /\ HoldInv /\ PendingInv /\ Async!UpdatesAdd /\ JoinInv /\ ReadInv
    BY DEF AsyncInv
  <1> QED BY <1>1, <1>2, AsyncTypeStep, HoldStep, PendingStep, UpdatesStep, JoinStep, ReadStep DEF AsyncInv

LEMMA AsyncAlways == Spec => []AsyncInv
  <1>1. Init => AsyncInv
    BY AsyncInit DEF Init
  <1>2. AsyncInv /\ [Next]_vars => AsyncInv'
    <2> SUFFICES ASSUME AsyncInv, [Next]_vars PROVE AsyncInv'
      OBVIOUS
    <2>1. CASE UNCHANGED asyncVars
      BY <2>1, AsyncStays
    <2>2. CASE AsyncStep
      BY <2>2, AsyncNext DEF AsyncStep
    <2> QED BY <2>1, <2>2 DEF Next, LockStep, EchoServe, TurnStep, Others, vars
  <1> QED BY <1>1, <1>2, PTL DEF Spec

\* Tasks that load and store without an await between lose no update on one thread,
\* nor with a mutex on any number of them, for any tasks, threads and awaits of the
\* form WellFormed; and without either at least one update is left.
THEOREM UpdatesAreAdded == Spec => []UpdatesAdd
  <1>1. AsyncInv => UpdatesAdd
    BY DEF AsyncInv, UpdatesAdd
  <1> QED BY <1>1, AsyncAlways, PTL

\* A task that extracts or prints a counter has all the updates of the tasks that
\* main awaited before it spawned that one.
THEOREM ReadsAreComplete == Spec => []ReadsAreCurrent
  <1>1. AsyncInv => ReadsAreCurrent
    <2> SUFFICES ASSUME AsyncInv, NEW t \in Async!Task, NEW x, <<"load", x>> \in Async!Ops(main, t),
                        t \notin Async!Storers(main, x), Async!Over(t)
                 PROVE  reg[t] \in Async!StoresOf(Async!JoinedBefore(main, t), x) .. val[x]
      <3>1. ASSUME NEW t \in Async!Task, NEW op \in Async!Ops(main, t), op[1] = "load", AsyncInv
            PROVE  op = <<"load", op[2]>>
        BY <3>1 DEF AsyncInv, AsyncType, Async!WellFormed, Async!Task
      <3> QED BY <3>1 DEF ReadsAreCurrent, Async!ReadsAreCurrent
    <2>1. PICK i \in DOMAIN main.script[t] : main.script[t][i] = <<"load", x>>
      BY DEF Async!Ops, Async!ToSet
    <2>2. i < at[t] /\ x \in Async!Objects
      BY <2>1, ScriptFacts DEF AsyncInv, AsyncType, Async!Over
    <2> QED BY <2>1, <2>2 DEF AsyncInv, ReadInv
  <1> QED BY <1>1, AsyncAlways, PTL
-----------------------------------------------------------------------------
(* The thermostat.                                                         *)

\* The lower of where the room starts and where it should be.
Coldest == IF Start < Desired THEN Start ELSE Desired

\* The room is never more than two losses of heat colder than it started or should
\* be, nor more than one warming warmer: thermo_control.rs, from its first poll on.
NeverFarOff == temp >= Coldest - 2 /\ (temp <= Desired + 3 \/ temp <= Start)

ThermoType ==
    /\ temp \in Int /\ snap \in Int /\ seen \in Int /\ heatOn \in BOOLEAN
    /\ dpc \in {"load", "decide"} /\ hpc \in {"check", "warm"}
    /\ heaterAge \in Nat /\ lossAge \in Nat

\* How old something may be that the display has not acted on: it has been polled
\* since the last tick, or will be before the next.
Late(ticks) == IF "display" \in polled THEN ticks ELSE ticks + 1

\* The heater warms a room that is not too warm.  If it is on in one that is, it
\* has just warmed it: the display will see that, or has loaded before and will see
\* it in its next poll, and Period is longer than that.
WarmInv ==
    /\ hpc = "warm" => temp <= Desired
    /\ snap > Desired => ~heatOn
    /\ heatOn /\ temp > Desired => heaterAge <= Late(1)
    /\ dpc = "decide" /\ seen <= Desired /\ temp > Desired => heaterAge <= Late(0)

\* In a room that is too cold the heater is on, as soon as the display has seen it,
\* and will warm before heat is lost twice more.
ColdInv ==
    /\ snap < Desired /\ ~heatOn => snap = Start
    /\ dpc = "decide" => seen <= temp + 1
    /\ dpc = "decide" /\ seen > temp => lossAge <= Late(0)
    /\ temp < Coldest /\ ~heatOn => temp = Coldest - 1 /\ lossAge <= Late(1)
    /\ temp < Coldest /\ heatOn => heaterAge >= -2 + lossAge
    /\ temp = Coldest - 2 => heatOn /\ heaterAge >= Period - 1 + lossAge

\* A heater that has been polled since the last tick was not due, or has warmed;
\* so that it is never more than due.
HeaterInv == heaterAge <= Period /\ ("heater" \in polled => heaterAge < Period)

ThermoInv == ThermoType /\ NeverFarOff /\ WarmInv /\ ColdInv /\ HeaterInv

\* What the constants are.
LEMMA ThermoConstants ==
    /\ Start \in Int /\ Desired \in Int /\ Period \in Nat
    /\ Coldest \in Int /\ Coldest <= Start /\ Coldest <= Desired
  BY ProgramsAssumption DEF Coldest

LEMMA ThermoInit == ASSUME Thermo!Init PROVE ThermoInv
  <1>1. /\ temp = Start /\ heatOn = FALSE /\ snap = Start /\ dpc = "load" /\ seen = Start
        /\ hpc = "check" /\ heaterAge = 0 /\ lossAge = 0 /\ polled = {}
    BY DEF Thermo!Init
  <1>2. ThermoType
    BY <1>1, ThermoConstants DEF ThermoType
  <1>3. NeverFarOff /\ HeaterInv
    BY <1>1, ThermoConstants DEF NeverFarOff, HeaterInv
  <1>4. ~heatOn /\ WarmInv
    BY <1>1 DEF WarmInv
  <1>5. ~ (temp < Coldest) /\ temp # Coldest - 2
    BY <1>1, ThermoConstants
  <1>6. ColdInv
    BY <1>1, <1>5 DEF ColdInv
  <1> QED BY <1>2, <1>3, <1>4, <1>6 DEF ThermoInv

\* What the display loads is as new as can be.
LEMMA LoadThermo == ASSUME ThermoInv, Thermo!DisplayLoad PROVE ThermoInv'
  <1>1. /\ seen' = temp /\ dpc' = "decide"
        /\ UNCHANGED <<temp, heatOn, snap, hpc, heaterAge, lossAge, polled>>
    BY DEF Thermo!DisplayLoad
  <1>2. ThermoType /\ NeverFarOff /\ WarmInv /\ ColdInv /\ HeaterInv
    BY DEF ThermoInv
  <1>3. ThermoType' /\ NeverFarOff' /\ HeaterInv'
    BY <1>1, <1>2 DEF ThermoType, NeverFarOff, HeaterInv
  <1>4. WarmInv'
    BY <1>1, <1>2, ThermoConstants DEF ThermoType, WarmInv, Late
  <1>5. ColdInv'
    BY <1>1, <1>2, ThermoConstants DEF ThermoType, ColdInv, Late
  <1> QED BY <1>3, <1>4, <1>5 DEF ThermoInv

\* The display decides, on what it has loaded.
LEMMA DecideThermo == ASSUME ThermoInv, Thermo!DisplayDecide PROVE ThermoInv'
  <1>1. /\ dpc = "decide" /\ snap' = seen /\ dpc' = "load" /\ polled' = polled \cup {"display"}
        /\ UNCHANGED <<temp, seen, hpc, heaterAge, lossAge>>
    BY DEF Thermo!DisplayDecide
  <1>2. ThermoType /\ NeverFarOff /\ WarmInv /\ ColdInv /\ HeaterInv
    BY DEF ThermoInv
  <1>3. /\ seen = snap \/ seen = Desired => (heatOn' <=> heatOn)
        /\ seen # snap /\ seen < Desired => heatOn'
        /\ seen # snap /\ seen > Desired => ~heatOn'
        /\ heatOn' \in BOOLEAN
    <2>1. heatOn' = Thermo!Switch /\ heatOn \in BOOLEAN
      BY <1>2 DEF Thermo!DisplayDecide, ThermoType
    <2>2. /\ seen = Desired => ~ (seen < Desired) /\ ~ (seen > Desired)
          /\ seen > Desired => ~ (seen < Desired)
      BY <1>2, ThermoConstants DEF ThermoType
    <2> QED BY <2>1, <2>2, Zenon DEF Thermo!Switch
  <1>4. ThermoType' /\ NeverFarOff' /\ HeaterInv'
    <2>1. "heater" \in polled' => "heater" \in polled
      BY <1>1
    <2> QED BY <1>1, <1>2, <1>3, <2>1 DEF ThermoType, NeverFarOff, HeaterInv
  <1>5. Late(0)' = 0 /\ Late(1)' = 1 /\ Late(0) <= 1 /\ Late(0) \in Nat /\ Late(1) <= 2 /\ Late(1) \in Nat
    BY <1>1 DEF Late
  <1>6. WarmInv'
    <2>1. snap' > Desired => ~heatOn'
      BY <1>1, <1>2, <1>3, ThermoConstants DEF WarmInv, ThermoType
    <2>2. heatOn' /\ temp' > Desired => heaterAge' <= Late(1)'
      <3>1. heatOn' => seen <= Desired
        BY <1>1, <1>2, <2>1, ThermoConstants DEF ThermoType
      <3>2. seen <= Desired /\ temp > Desired => heaterAge <= Late(0)
        BY <1>1, <1>2 DEF WarmInv
      <3> QED BY <1>1, <1>2, <1>5, <3>1, <3>2 DEF ThermoType
    <2> QED BY <1>1, <1>2, <2>1, <2>2 DEF WarmInv
  <1>7. ColdInv'
    <2>1. snap' < Desired /\ ~heatOn' => snap' = Start
      BY <1>1, <1>2, <1>3, ThermoConstants DEF ColdInv, ThermoType
    <2>2. seen <= temp + 1 /\ (seen > temp => lossAge <= 1)
      BY <1>1, <1>2, <1>5 DEF ColdInv, ThermoType
    <2>3. temp < Coldest /\ heatOn => heatOn'
      <3>1. temp < Coldest => seen < Desired \/ seen = Desired
        BY <1>2, <2>2, ThermoConstants DEF ThermoType
      <3> QED BY <1>3, <3>1
    <2>4. temp < Coldest /\ ~heatOn' => temp = Coldest - 1 /\ lossAge <= 1
      <3>1. ASSUME temp < Coldest, ~heatOn' PROVE seen > temp
        <4>1. CASE seen < Desired
          <5>1. seen = snap /\ snap = Start
            BY <1>1, <1>2, <1>3, <2>1, <3>1, <4>1 DEF ThermoType
          <5> QED BY <1>2, <3>1, <5>1, ThermoConstants DEF ThermoType
        <4>2. CASE ~ (seen < Desired)
          BY <1>2, <3>1, <4>2, ThermoConstants DEF ThermoType
        <4> QED BY <4>1, <4>2
      <3>2. temp < Coldest /\ ~heatOn => temp = Coldest - 1
        BY <1>2 DEF ColdInv
      <3> QED BY <2>2, <2>3, <3>1, <3>2
    <2>5. temp < Coldest /\ heatOn' => heaterAge >= -2 + lossAge
      <3>1. CASE heatOn
        BY <1>2, <3>1 DEF ColdInv
      <3>2. CASE ~heatOn
        <4>1. temp < Coldest => lossAge <= 2
          BY <1>2, <1>5, <3>2 DEF ColdInv, ThermoType
        <4> QED BY <1>2, <4>1 DEF ThermoType
      <3> QED BY <3>1, <3>2
    <2>6. temp = Coldest - 2 => heatOn' /\ heaterAge >= Period - 1 + lossAge
      <3>1. temp = Coldest - 2 => temp < Coldest
        BY ThermoConstants
      <3> QED BY <1>2, <2>3, <3>1 DEF ColdInv
    <2> QED BY <1>1, <1>5, <2>1, <2>4, <2>5, <2>6 DEF ColdInv
  <1> QED BY <1>4, <1>6, <1>7 DEF ThermoInv

\* An idle heater counts no time.
LEMMA IdleThermo == ASSUME ThermoInv, Thermo!HeaterIdle, Period > 2 PROVE ThermoInv'
  <1>1. /\ hpc = "check" /\ ~heatOn /\ heaterAge' = 0 /\ polled' = polled \cup {"heater"}
        /\ UNCHANGED <<temp, heatOn, snap, dpc, seen, hpc, lossAge>>
    BY DEF Thermo!HeaterIdle
  <1>2. ThermoType /\ NeverFarOff /\ WarmInv /\ ColdInv
    BY DEF ThermoInv
  <1>3. ThermoType' /\ NeverFarOff' /\ HeaterInv'
    BY <1>1, <1>2, ThermoConstants DEF ThermoType, NeverFarOff, HeaterInv
  <1>4. Late(0)' = Late(0) /\ Late(1)' = Late(1) /\ Late(0) \in Nat /\ Late(1) \in Nat
    BY <1>1 DEF Late
  <1>5. WarmInv'
    BY <1>1, <1>2, <1>4 DEF ThermoType, WarmInv
  <1>6. ColdInv'
    BY <1>1, <1>2, <1>4 DEF ThermoType, ColdInv
  <1> QED BY <1>3, <1>5, <1>6 DEF ThermoInv

\* A heater that is due finds the room not too warm.
LEMMA CheckThermo == ASSUME ThermoInv, Thermo!HeaterCheck, Period > 2 PROVE ThermoInv'
  <1>1. /\ heatOn /\ hpc' = (IF heaterAge < Period THEN "check" ELSE "warm")
        /\ polled' = (IF heaterAge < Period THEN polled \cup {"heater"} ELSE polled)
        /\ UNCHANGED <<temp, heatOn, snap, dpc, seen, heaterAge, lossAge>>
    BY DEF Thermo!HeaterCheck
  <1>2. ThermoType /\ NeverFarOff /\ WarmInv /\ ColdInv /\ HeaterInv
    BY DEF ThermoInv
  <1>3. ThermoType' /\ NeverFarOff' /\ HeaterInv'
    BY <1>1, <1>2, ThermoConstants DEF ThermoType, NeverFarOff, HeaterInv
  <1>4. Late(0)' = Late(0) /\ Late(1)' = Late(1) /\ Late(1) <= 2
    BY <1>1 DEF Late
  <1>5. WarmInv'
    <2>1. hpc' = "warm" => ~ (heaterAge <= 2)
      BY <1>1, <1>2, ThermoConstants DEF ThermoType
    <2>2. heatOn /\ temp > Desired => heaterAge <= 2
      BY <1>2 DEF WarmInv, ThermoType, Late
    <2>3. hpc' = "warm" => temp' <= Desired
      BY <1>1, <1>2, <2>1, <2>2, ThermoConstants DEF ThermoType
    <2> QED BY <1>1, <1>2, <1>4, <2>3 DEF WarmInv
  <1>6. ColdInv'
    BY <1>1, <1>2, <1>4 DEF ColdInv
  <1> QED BY <1>3, <1>5, <1>6 DEF ThermoInv

\* Warming starts the heater's time anew.
LEMMA HeatThermo == ASSUME ThermoInv, Thermo!HeaterWarm, Period > 2 PROVE ThermoInv'
  <1>1. /\ hpc = "warm" /\ temp' = temp + 3 /\ heaterAge' = 0 /\ hpc' = "check"
        /\ polled' = polled \cup {"heater"}
        /\ UNCHANGED <<heatOn, snap, dpc, seen, lossAge>>
    BY DEF Thermo!HeaterWarm
  <1>2. ThermoType /\ NeverFarOff /\ WarmInv /\ ColdInv
    BY DEF ThermoInv
  <1>3. temp <= Desired /\ temp >= Coldest - 2
    BY <1>1, <1>2 DEF WarmInv, NeverFarOff
  <1>4. ThermoType' /\ HeaterInv'
    BY <1>1, <1>2, ThermoConstants DEF ThermoType, HeaterInv
  <1>5. NeverFarOff'
    BY <1>1, <1>2, <1>3, ThermoConstants DEF ThermoType, NeverFarOff
  <1>6. Late(0)' \in Nat /\ Late(1)' \in Nat
    BY DEF Late
  <1>7. WarmInv'
    BY <1>1, <1>2, <1>6 DEF ThermoType, WarmInv
  <1>8. ColdInv'
    <2>1. ~ (temp' < Coldest) /\ temp' # Coldest - 2
      BY <1>1, <1>2, <1>3, ThermoConstants DEF ThermoType
    <2>2. dpc = "decide" => seen <= temp' + 1 /\ ~ (seen > temp')
      BY <1>1, <1>2 DEF ColdInv, ThermoType
    <2> QED BY <1>1, <1>2, <2>1, <2>2 DEF ColdInv
  <1> QED BY <1>4, <1>5, <1>7, <1>8 DEF ThermoInv

\* Heat is lost only when the heater is on, or the room not too cold.
LEMMA LossThermo == ASSUME ThermoInv, Thermo!HeatLoss, Period > 2 PROVE ThermoInv'
  <1>1. /\ temp' = (IF lossAge > Period THEN temp - 1 ELSE temp)
        /\ lossAge' = (IF lossAge > Period THEN 0 ELSE lossAge)
        /\ polled' = polled \cup {"loss"}
        /\ UNCHANGED <<heatOn, snap, dpc, seen, hpc, heaterAge>>
    BY DEF Thermo!HeatLoss
  <1>2. ThermoType /\ NeverFarOff /\ WarmInv /\ ColdInv /\ HeaterInv
    BY DEF ThermoInv
  <1>3. ThermoType'
    BY <1>1, <1>2, ThermoConstants DEF ThermoType
  <1>4. HeaterInv'
    BY <1>1, <1>2 DEF HeaterInv
  <1>5. Late(0)' = Late(0) /\ Late(1)' = Late(1) /\ Late(0) \in {0, 1} /\ Late(1) \in {1, 2}
    BY <1>1 DEF Late
  <1>6. temp' <= temp
    BY <1>1, <1>2 DEF ThermoType
  <1>7. WarmInv'
    BY <1>1, <1>2, <1>3, <1>5, <1>6, ThermoConstants DEF ThermoType, WarmInv
  <1>8. CASE lossAge > Period
    <2>1. temp' = temp - 1 /\ lossAge' = 0
      BY <1>1, <1>8
    <2>2. dpc = "decide" => seen <= temp
      BY <1>2, <1>5, <1>8, ThermoConstants DEF ColdInv, ThermoType
    <2>3. temp < Coldest => heatOn /\ heaterAge >= Period - 1
      BY <1>2, <1>5, <1>8, ThermoConstants DEF ColdInv, ThermoType
    <2>4. temp # Coldest - 2
      <3>1. temp = Coldest - 2 => heaterAge >= Period - 1 + lossAge
        BY <1>2 DEF ColdInv
      <3> QED BY <1>2, <1>8, <3>1, ThermoConstants DEF ThermoType, HeaterInv
    <2>5. NeverFarOff'
      BY <1>2, <2>1, <2>4, ThermoConstants DEF NeverFarOff, ThermoType
    <2>6. ColdInv'
      BY <1>1, <1>2, <1>5, <2>1, <2>2, <2>3, <2>4, ThermoConstants DEF ColdInv, NeverFarOff, ThermoType
    <2> QED BY <1>3, <1>4, <1>7, <2>5, <2>6 DEF ThermoInv
  <1>9. CASE ~ (lossAge > Period)
    <2>1. temp' = temp /\ lossAge' = lossAge
      BY <1>1, <1>9
    <2>2. NeverFarOff' /\ ColdInv'
      BY <1>1, <1>2, <1>5, <2>1 DEF NeverFarOff, ColdInv
    <2> QED BY <1>3, <1>4, <1>7, <2>2 DEF ThermoInv
  <1> QED BY <1>8, <1>9

\* What was older by k still is, when it has aged by one and the other by at most one.
LEMMA StillOlder ==
    ASSUME NEW h \in Nat, NEW l \in Nat, NEW m \in Nat, m <= l + 1, NEW k \in Int, h >= k + l
    PROVE  h + 1 >= k + m
  OBVIOUS

\* Time goes on once everybody has been polled.
LEMMA TickThermo == ASSUME ThermoInv, Thermo!Tick, Period > 2 PROVE ThermoInv'
  <1>1. /\ polled = {"display", "heater", "loss"} /\ polled' = {}
        /\ UNCHANGED <<temp, heatOn, snap, dpc, seen, hpc>>
    BY DEF Thermo!Tick
  <1>2. ThermoType /\ NeverFarOff /\ WarmInv /\ ColdInv /\ HeaterInv
    BY DEF ThermoInv
  <1>3. heaterAge' = heaterAge + 1 /\ heaterAge < Period
    BY <1>1, <1>2, ThermoConstants DEF Thermo!Tick, HeaterInv, ThermoType
  <1>4. lossAge' \in Nat /\ lossAge' <= lossAge + 1
    BY <1>2, ThermoConstants DEF Thermo!Tick, ThermoType
  <1>5. Late(0) = 0 /\ Late(1) = 1 /\ Late(0)' = 1 /\ Late(1)' = 2
    BY <1>1 DEF Late
  <1>6. ThermoType' /\ NeverFarOff' /\ HeaterInv'
    <2>1. ThermoType' /\ NeverFarOff'
      BY <1>1, <1>2, <1>3, <1>4 DEF ThermoType, NeverFarOff
    <2>2. heaterAge' <= Period
      BY <1>2, <1>3, ThermoConstants DEF ThermoType
    <2> QED BY <1>1, <2>1, <2>2 DEF HeaterInv
  <1>7. WarmInv'
    BY <1>1, <1>2, <1>3, <1>5 DEF WarmInv, ThermoType
  <1>8. ColdInv'
    <2>1. heatOn' = heatOn /\ temp' = temp /\ lossAge \in Nat /\ heaterAge \in Nat
      BY <1>1, <1>2 DEF ThermoType
    <2>2. \A k \in Int : heaterAge >= k + lossAge => heaterAge' >= k + lossAge'
      <3>1. lossAge \in Nat /\ heaterAge \in Nat /\ heaterAge' = heaterAge + 1
        BY <1>3, <2>1
      <3> QED BY <1>4, <3>1, StillOlder
    <2>3. dpc' = "decide" /\ seen' > temp' => lossAge' <= Late(0)'
      BY <1>1, <1>2, <1>4, <1>5, <2>1 DEF ColdInv
    <2>4. temp' < Coldest /\ ~heatOn' => temp' = Coldest - 1 /\ lossAge' <= Late(1)'
      BY <1>1, <1>2, <1>4, <1>5, <2>1 DEF ColdInv
    <2>5. temp' < Coldest /\ heatOn' => heaterAge' >= -2 + lossAge'
      <3>1. temp < Coldest /\ heatOn => heaterAge >= -2 + lossAge
        BY <1>2 DEF ColdInv
      <3>2. temp' < Coldest /\ heatOn' => heaterAge' >= -2 + lossAge'
        BY <2>1, <2>2, <3>1
      <3> QED BY <3>2
    <2>6. temp' = Coldest - 2 => heatOn' /\ heaterAge' >= Period - 1 + lossAge'
      <3>1. temp = Coldest - 2 => heatOn /\ heaterAge >= Period - 1 + lossAge
        BY <1>2 DEF ColdInv
      <3>2. Period - 1 \in Int
        BY ThermoConstants
      <3> QED BY <2>1, <2>2, <3>1, <3>2
    <2> QED BY <1>1, <1>2, <2>3, <2>4, <2>5, <2>6 DEF ColdInv
  <1> QED BY <1>6, <1>7, <1>8 DEF ThermoInv

LEMMA ThermoNext == ASSUME ThermoInv, Thermo!Next, Period > 2 PROVE ThermoInv'
  BY LoadThermo, DecideThermo, IdleThermo, CheckThermo, HeatThermo, LossThermo, TickThermo
     DEF Thermo!Next, Thermo!Display, Thermo!Heater

\* The thermostat keeps the room near where it started or should be, wherever that
\* is, although the display decides on temperatures that are gone and the heater
\* warms on a HEAT_ON that may have been cleared: as long as three seconds are more
\* than the two ticks by which a decision may be late.
THEOREM RoomStaysNear ==
    ASSUME Period > 2
    PROVE  Spec => []NeverFarOff
  <1>1. Init => ThermoInv
    BY ThermoInit DEF Init
  <1>2. ThermoInv /\ [Next]_vars => ThermoInv'
    <2> SUFFICES ASSUME ThermoInv, [Next]_vars PROVE ThermoInv'
      OBVIOUS
    <2>1. CASE UNCHANGED thermoVars
      BY <2>1 DEF thermoVars, ThermoInv, ThermoType, NeverFarOff, WarmInv, ColdInv, HeaterInv, Late
    <2>2. CASE Thermo!Next
      BY <2>2, ThermoNext
    <2> QED BY <2>1, <2>2 DEF Next, LockStep, AsyncStep, EchoServe, TurnStep, Others, vars
  <1>3. ThermoInv => NeverFarOff
    BY DEF ThermoInv
  <1> QED BY <1>1, <1>2, <1>3, PTL DEF Spec
=============================================================================
