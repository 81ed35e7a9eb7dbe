--------------------------- MODULE SequenceLemmas ----------------------------
(***************************************************************************)
(* What the queues of the proofs are made of: the elements of a sequence     *)
(* after one step of a queue, and that none is in it twice.                  *)
(***************************************************************************)
EXTENDS Integers, Sequences, FiniteSets, SequencesExt, FiniteSetTheorems, SequenceTheorems, TLAPS

\* What Append does to the elements of a sequence.
LEMMA AppendElements ==
    ASSUME NEW S, NEW s \in Seq(S), NEW e \in S
    PROVE  /\ Append(s, e) \in Seq(S)
           /\ ToSet(Append(s, e)) = ToSet(s) \cup {e}
  <1>1. /\ Append(s, e) \in Seq(S) /\ Len(s) \in Nat /\ Len(Append(s, e)) = Len(s) + 1
        /\ \A i \in 1 .. Len(s) : Append(s, e)[i] = s[i]
        /\ Append(s, e)[Len(s) + 1] = e
    OBVIOUS
  <1>2. DOMAIN s = 1 .. Len(s) /\ DOMAIN Append(s, e) = 1 .. Len(Append(s, e))
    BY <1>1
  <1> QED BY <1>1, <1>2 DEF ToSet

\* What Head and Tail leave of them.
LEMMA TailElements ==
    ASSUME NEW S, NEW s \in Seq(S), s # <<>>
    PROVE  /\ Head(s) \in S /\ Tail(s) \in Seq(S)
           /\ ToSet(s) = ToSet(Tail(s)) \cup {Head(s)}
  <1>1. /\ Head(s) \in S /\ Tail(s) \in Seq(S) /\ Head(s) = s[1]
        /\ Len(s) \in Nat /\ Len(s) > 0 /\ Len(Tail(s)) = Len(s) - 1
        /\ \A i \in 1 .. Len(s) - 1 : Tail(s)[i] = s[i + 1]
    OBVIOUS
  <1>2. ASSUME NEW i \in 1 .. Len(s)
        PROVE  s[i] = Head(s) \/ \E j \in 1 .. Len(Tail(s)) : s[i] = Tail(s)[j]
    <2>1. CASE i = 1
      BY <1>1, <2>1
    <2>2. CASE i # 1
      <3>1. i - 1 \in 1 .. Len(Tail(s)) /\ s[i] = Tail(s)[i - 1]
        BY <1>1, <2>2
      <3> QED BY <3>1
    <2> QED BY <2>1, <2>2
  <1>3. ASSUME NEW j \in 1 .. Len(Tail(s))
        PROVE  \E i \in 1 .. Len(s) : s[i] = Tail(s)[j]
    <2>1. j + 1 \in 1 .. Len(s) /\ s[j + 1] = Tail(s)[j]
      BY <1>1
    <2> QED BY <2>1
  <1>4. 1 \in 1 .. Len(s) /\ DOMAIN s = 1 .. Len(s) /\ DOMAIN Tail(s) = 1 .. Len(Tail(s))
    BY <1>1
  <1>5. ToSet(s) = {s[i] : i \in 1 .. Len(s)} /\ ToSet(Tail(s)) = {Tail(s)[j] : j \in 1 .. Len(Tail(s))}
    BY <1>4 DEF ToSet
  <1>6. ASSUME NEW x \in ToSet(s) PROVE x \in ToSet(Tail(s)) \cup {Head(s)}
    <2>1. PICK i \in 1 .. Len(s) : x = s[i]
      BY <1>5, <1>6
    <2> QED BY <1>2, <1>5, <2>1
  <1>7. ASSUME NEW x \in ToSet(Tail(s)) PROVE x \in ToSet(s)
    <2>1. PICK j \in 1 .. Len(Tail(s)) : x = Tail(s)[j]
      BY <1>5, <1>7
    <2> QED BY <1>3, <1>5, <2>1
  <1>8. Head(s) \in ToSet(s)
    BY <1>1, <1>4, <1>5
  <1> QED BY <1>1, <1>6, <1>7, <1>8

\* The queue without its first task, when no task is in it twice.
LEMMA PopOnce ==
    ASSUME NEW S, NEW s \in Seq(S), s # <<>>,
           \A i, j \in 1 .. Len(s) : s[i] = s[j] => i = j
    PROVE  /\ \A i, j \in 1 .. Len(Tail(s)) : Tail(s)[i] = Tail(s)[j] => i = j
           /\ Head(s) \notin ToSet(Tail(s))
  <1>1. /\ Head(s) = s[1] /\ Len(s) \in Nat /\ Len(s) > 0 /\ Len(Tail(s)) = Len(s) - 1
        /\ \A i \in 1 .. Len(s) - 1 : Tail(s)[i] = s[i + 1]
    OBVIOUS
  <1>2. ASSUME NEW i \in 1 .. Len(Tail(s)), NEW j \in 1 .. Len(Tail(s)), Tail(s)[i] = Tail(s)[j]
        PROVE  i = j
    <2>1. i + 1 \in 1 .. Len(s) /\ j + 1 \in 1 .. Len(s) /\ s[i + 1] = s[j + 1]
      BY <1>1, <1>2
    <2>2. i + 1 = j + 1
      BY <2>1
    <2> QED BY <2>2
  <1>3. ASSUME NEW i \in 1 .. Len(Tail(s)), Tail(s)[i] = Head(s) PROVE FALSE
    <2>1. i + 1 \in 1 .. Len(s) /\ 1 \in 1 .. Len(s) /\ s[i + 1] = s[1]
      BY <1>1, <1>3
    <2>2. i + 1 = 1
      BY <2>1
    <2> QED BY <2>2
  <1>4. Tail(s) \in Seq(S)
    OBVIOUS
  <1> QED BY <1>2, <1>3, <1>4 DEF ToSet

\* The queue with a task more.
LEMMA PushOnce ==
    ASSUME NEW S, NEW s \in Seq(S), NEW e \in S,
           \A i, j \in 1 .. Len(s) : s[i] = s[j] => i = j,
           e \notin ToSet(s)
    PROVE  \A i, j \in 1 .. Len(Append(s, e)) : Append(s, e)[i] = Append(s, e)[j] => i = j
  <1>1. /\ Len(s) \in Nat /\ Len(Append(s, e)) = Len(s) + 1
        /\ \A i \in 1 .. Len(s) : Append(s, e)[i] = s[i] /\ s[i] # e
        /\ Append(s, e)[Len(s) + 1] = e
    BY DEF ToSet
  <1>2. ASSUME NEW i \in 1 .. Len(Append(s, e)) PROVE i \in 1 .. Len(s) \/ i = Len(s) + 1
    BY <1>1
  <1> QED BY <1>1, <1>2

\* Nothing is in an empty queue.
LEMMA EmptyToSet == ToSet(<<>>) = {}
  BY DEF ToSet

\* A sequence after another.
LEMMA ConcatElements ==
    ASSUME NEW S, NEW s \in Seq(S), NEW t \in Seq(S)
    PROVE  /\ s \o t \in Seq(S)
           /\ ToSet(s \o t) = ToSet(s) \cup ToSet(t)
  <1>1. /\ s \o t \in Seq(S) /\ Len(s) \in Nat /\ Len(t) \in Nat /\ Len(s \o t) = Len(s) + Len(t)
        /\ \A i \in 1 .. Len(s) : (s \o t)[i] = s[i]
        /\ \A i \in 1 .. Len(t) : (s \o t)[Len(s) + i] = t[i]
    OBVIOUS
  <1>2. /\ ToSet(s) = {s[i] : i \in 1 .. Len(s)} /\ ToSet(t) = {t[i] : i \in 1 .. Len(t)}
        /\ ToSet(s \o t) = {(s \o t)[i] : i \in 1 .. Len(s \o t)}
    BY <1>1 DEF ToSet
  <1>3. ASSUME NEW i \in 1 .. Len(s \o t) PROVE (s \o t)[i] \in ToSet(s) \cup ToSet(t)
    <2>1. CASE i <= Len(s)
      BY <1>1, <1>2, <2>1
    <2>2. CASE i > Len(s)
      <3>1. i - Len(s) \in 1 .. Len(t) /\ i = Len(s) + (i - Len(s))
        BY <1>1, <2>2
      <3> QED BY <1>1, <1>2, <3>1
    <2> QED BY <1>1, <2>1, <2>2
  <1>4. ASSUME NEW i \in 1 .. Len(s) PROVE s[i] \in ToSet(s \o t)
    <2>1. i \in 1 .. Len(s \o t) /\ (s \o t)[i] = s[i]
      BY <1>1
    <2> QED BY <1>2, <2>1
  <1>5. ASSUME NEW i \in 1 .. Len(t) PROVE t[i] \in ToSet(s \o t)
    <2>1. Len(s) + i \in 1 .. Len(s \o t) /\ (s \o t)[Len(s) + i] = t[i]
      BY <1>1
    <2> QED BY <1>2, <2>1
  <1>6. ToSet(s \o t) \subseteq ToSet(s) \cup ToSet(t)
    BY <1>2, <1>3
  <1>7. ToSet(s) \subseteq ToSet(s \o t) /\ ToSet(t) \subseteq ToSet(s \o t)
    BY <1>2, <1>4, <1>5
  <1> QED BY <1>1, <1>6, <1>7

\* No element twice.
Once(s) == \A i, j \in 1 .. Len(s) : s[i] = s[j] => i = j

\* Two such sequences with nothing in common, one after the other.
LEMMA ConcatOnce ==
    ASSUME NEW S, NEW s \in Seq(S), NEW t \in Seq(S), Once(s), Once(t), ToSet(s) \cap ToSet(t) = {}
    PROVE  Once(s \o t)
  <1>1. /\ s \o t \in Seq(S) /\ Len(s) \in Nat /\ Len(t) \in Nat /\ Len(s \o t) = Len(s) + Len(t)
        /\ \A i \in 1 .. Len(s) : (s \o t)[i] = s[i]
        /\ \A i \in 1 .. Len(t) : (s \o t)[Len(s) + i] = t[i]
    OBVIOUS
  <1>2. ASSUME NEW i \in 1 .. Len(s), NEW j \in 1 .. Len(t) PROVE s[i] # t[j]
    <2>1. s[i] \in ToSet(s)
      <3>1. i \in DOMAIN s
        OBVIOUS
      <3> QED BY <3>1 DEF ToSet
    <2>2. t[j] \in ToSet(t)
      <3>1. j \in DOMAIN t
        OBVIOUS
      <3> QED BY <3>1 DEF ToSet
    <2>3. s[i] \notin ToSet(t)
      BY <2>1
    <2> QED BY <2>2, <2>3
  <1>3. ASSUME NEW i \in 1 .. Len(s \o t)
        PROVE  i \in 1 .. Len(s) \/ \E k \in 1 .. Len(t) : i = Len(s) + k
    <2>1. CASE i > Len(s)
      <3>1. i - Len(s) \in 1 .. Len(t) /\ i = Len(s) + (i - Len(s))
        BY <1>1, <2>1
      <3> QED BY <3>1
    <2> QED BY <1>1, <2>1
  <1>4. SUFFICES ASSUME NEW i \in 1 .. Len(s \o t), NEW j \in 1 .. Len(s \o t), (s \o t)[i] = (s \o t)[j]
                 PROVE  i = j
    BY DEF Once
  <1>5. CASE i \in 1 .. Len(s) /\ j \in 1 .. Len(s)
    BY <1>1, <1>4, <1>5 DEF Once
  <1>6. ASSUME NEW k \in 1 .. Len(t), NEW l \in 1 .. Len(t), i = Len(s) + k, j = Len(s) + l
        PROVE  i = j
    <2>1. t[k] = t[l]
      BY <1>1, <1>4, <1>6
    <2> QED BY <1>6, <2>1 DEF Once
  <1>7. ASSUME NEW k \in 1 .. Len(t), i \in 1 .. Len(s), j = Len(s) + k PROVE FALSE
    BY <1>1, <1>2, <1>4, <1>7
  <1>8. ASSUME NEW k \in 1 .. Len(t), j \in 1 .. Len(s), i = Len(s) + k PROVE FALSE
    BY <1>1, <1>2, <1>4, <1>8
  <1> QED BY <1>3, <1>4, <1>5, <1>6, <1>7, <1>8

\* The elements of a finite set in some order.
LEMMA SetToSeqElements ==
    ASSUME NEW S, IsFiniteSet(S)
    PROVE  SetToSeq(S) \in Seq(S) /\ ToSet(SetToSeq(S)) = S /\ Once(SetToSeq(S))
  <1> DEFINE n == Cardinality(S)
             f == SetToSeq(S)
  <1>1. n \in Nat /\ \E g : g \in Bijection(1 .. n, S)
    BY FS_CardinalityType DEF ExistsBijection
  <1>2. PICK g \in [1 .. n -> S] : \A i, j \in 1 .. n : g[i] = g[j] => i = j
    BY <1>1 DEF Bijection, Injection, IsInjective
  <1>3. IsInjective(g)
    BY <1>2 DEF IsInjective
  <1>4. f \in [1 .. n -> S] /\ IsInjective(f)
    BY <1>2, <1>3 DEF SetToSeq
  <1> HIDE DEF f, n
  <1>5. f \in Seq(S) /\ Len(f) = n /\ DOMAIN f = 1 .. n
    BY <1>1, <1>4
  <1>6. Once(f)
    BY <1>4, <1>5 DEF Once, IsInjective
  <1>7. ToSet(f) \subseteq S /\ f \in Bijection(1 .. n, ToSet(f))
    BY <1>4, <1>5 DEF ToSet, IsInjective, Bijection, Injection, Surjection
  <1>8. Cardinality(ToSet(f)) = n
    BY <1>1, <1>7, FS_CountingElements DEF ExistsBijection
  <1>9. ToSet(f) = S
    <2>1. ToSet(f) \in SUBSET S /\ Cardinality(S) = Cardinality(ToSet(f))
      BY <1>7, <1>8 DEF n
    <2> QED BY <2>1, FS_Subset
  <1> QED BY <1>5, <1>6, <1>9 DEF f

-----------------------------------------------------------------------------
\* Elements by their positions, after one step of a queue.
LEMMA AppendShape ==
    ASSUME NEW S, NEW s \in Seq(S), NEW e \in S
    PROVE  /\ Append(s, e) \in Seq(S) /\ Len(s) \in Nat /\ Len(Append(s, e)) = Len(s) + 1
           /\ DOMAIN s = 1 .. Len(s) /\ DOMAIN Append(s, e) = 1 .. Len(s) + 1
           /\ \A i \in 1 .. Len(s) : Append(s, e)[i] = s[i]
           /\ Append(s, e)[Len(s) + 1] = e
  OBVIOUS

LEMMA TailShape ==
    ASSUME NEW S, NEW s \in Seq(S), s # <<>>
    PROVE  /\ Head(s) \in S /\ Head(s) = s[1] /\ Tail(s) \in Seq(S)
           /\ Len(s) \in Nat /\ Len(s) > 0 /\ Len(Tail(s)) = Len(s) - 1
           /\ DOMAIN s = 1 .. Len(s) /\ DOMAIN Tail(s) = 1 .. Len(s) - 1
           /\ \A i \in 1 .. Len(s) - 1 : Tail(s)[i] = s[i + 1]
  OBVIOUS

\* How often x is in a sequence.
Count(s, x) == Cardinality({i \in DOMAIN s : s[i] = x})

LEMMA CountType ==
    ASSUME NEW S, NEW s \in Seq(S), NEW x
    PROVE  IsFiniteSet({i \in DOMAIN s : s[i] = x}) /\ Count(s, x) \in Nat
  <1>1. Len(s) \in Nat /\ DOMAIN s = 1 .. Len(s)
    OBVIOUS
  <1>2. IsFiniteSet(1 .. Len(s))
    BY <1>1, FS_Interval
  <1>3. IsFiniteSet({i \in DOMAIN s : s[i] = x})
    BY <1>1, <1>2, FS_Subset
  <1> QED BY <1>3, FS_CardinalityType DEF Count

LEMMA CountAppend ==
    ASSUME NEW S, NEW s \in Seq(S), NEW e \in S, NEW x
    PROVE  Count(Append(s, e), x) = Count(s, x) + (IF e = x THEN 1 ELSE 0)
  <1> DEFINE P == {i \in DOMAIN s : s[i] = x}
             Q == {i \in DOMAIN Append(s, e) : Append(s, e)[i] = x}
  <1>1. /\ Len(s) \in Nat /\ DOMAIN s = 1 .. Len(s) /\ DOMAIN Append(s, e) = 1 .. Len(s) + 1
        /\ \A i \in 1 .. Len(s) : Append(s, e)[i] = s[i]
        /\ Append(s, e)[Len(s) + 1] = e
    BY AppendShape
  <1>2. IsFiniteSet(P) /\ Cardinality(P) \in Nat
    BY CountType DEF Count
  <1>3. e = x => Q = P \cup {Len(s) + 1} /\ Len(s) + 1 \notin P
    BY <1>1
  <1>4. e # x => Q = P
    BY <1>1
  <1>5. Count(s, x) = Cardinality(P) /\ Count(Append(s, e), x) = Cardinality(Q)
    BY DEF Count
  <1> HIDE DEF P, Q
  <1>6. e = x => Cardinality(Q) = Cardinality(P) + 1
    BY <1>2, <1>3, FS_AddElement
  <1> QED BY <1>2, <1>4, <1>5, <1>6

LEMMA CountTail ==
    ASSUME NEW S, NEW s \in Seq(S), s # <<>>, NEW x
    PROVE  Count(s, x) = Count(Tail(s), x) + (IF Head(s) = x THEN 1 ELSE 0)
  <1> DEFINE P == {i \in DOMAIN s : s[i] = x}
             Q == {i \in DOMAIN Tail(s) : Tail(s)[i] = x}
             f == [i \in Q |-> i + 1]
  <1>1. /\ Len(s) \in Nat /\ Len(s) > 0 /\ DOMAIN s = 1 .. Len(s) /\ DOMAIN Tail(s) = 1 .. Len(s) - 1
        /\ \A i \in 1 .. Len(s) - 1 : Tail(s)[i] = s[i + 1]
        /\ Tail(s) \in Seq(S) /\ Head(s) = s[1]
    BY TailShape
  <1>2. /\ IsFiniteSet(P) /\ Cardinality(P) \in Nat
        /\ IsFiniteSet(Q) /\ Cardinality(Q) \in Nat
    BY <1>1, CountType DEF Count
  <1>3. ExistsBijection(Q, P \ {1})
    <2>1. f \in [Q -> P \ {1}]
      BY <1>1
    <2>2. \A i, j \in Q : f[i] = f[j] => i = j
      BY <1>1
    <2>3. ASSUME NEW p \in P \ {1} PROVE \E i \in Q : f[i] = p
      <3>1. p - 1 \in Q /\ f[p - 1] = p
        BY <1>1
      <3> QED BY <3>1
    <2>4. f \in Bijection(Q, P \ {1})
      BY <2>1, <2>2, <2>3 DEF Bijection, Injection, Surjection, IsInjective
    <2> QED BY <2>4 DEF ExistsBijection
  <1>4. 1 \in P <=> Head(s) = x
    BY <1>1
  <1>5. Count(s, x) = Cardinality(P) /\ Count(Tail(s), x) = Cardinality(Q)
    BY DEF Count
  <1> HIDE DEF P, Q, f
  <1>6. IsFiniteSet(P \ {1})
    BY <1>2, FS_Subset
  <1>7. Cardinality(P \ {1}) = Cardinality(Q)
    BY <1>2, <1>3, <1>6, FS_Bijection
  <1>8. Cardinality(P \ {1}) = IF 1 \in P THEN Cardinality(P) - 1 ELSE Cardinality(P)
    BY <1>2, FS_RemoveElement
  <1> QED BY <1>2, <1>4, <1>5, <1>7, <1>8

\* What is counted is there.
LEMMA CountPositive ==
    ASSUME NEW S, NEW s \in Seq(S), NEW x \in ToSet(s)
    PROVE  Count(s, x) > 0
  <1> DEFINE P == {i \in DOMAIN s : s[i] = x}
  <1>1. P # {}
    BY DEF ToSet
  <1>2. IsFiniteSet(P) /\ Count(s, x) \in Nat /\ Count(s, x) = Cardinality(P)
    BY CountType DEF Count
  <1> HIDE DEF P
  <1>3. Cardinality(P) # 0
    BY <1>1, <1>2, FS_EmptySet
  <1> QED BY <1>2, <1>3

LEMMA CountEmpty == ASSUME NEW x PROVE Count(<<>>, x) = 0
  <1>1. {i \in DOMAIN <<>> : <<>>[i] = x} = {}
    OBVIOUS
  <1> QED BY <1>1, FS_EmptySet DEF Count

-----------------------------------------------------------------------------
\* None of the elements of A is in s twice.
OnceIn(s, A) == \A i, j \in 1 .. Len(s) : s[i] = s[j] /\ s[i] \in A => i = j

LEMMA PopOnceIn ==
    ASSUME NEW S, NEW s \in Seq(S), s # <<>>, NEW A, OnceIn(s, A)
    PROVE  OnceIn(Tail(s), A) /\ (Head(s) \in A => Head(s) \notin ToSet(Tail(s)))
  <1>1. /\ Len(s) \in Nat /\ Len(s) > 0 /\ Len(Tail(s)) = Len(s) - 1
        /\ DOMAIN Tail(s) = 1 .. Len(s) - 1 /\ Head(s) = s[1]
        /\ \A i \in 1 .. Len(s) - 1 : Tail(s)[i] = s[i + 1]
    BY TailShape
  <1>2. ASSUME NEW i \in 1 .. Len(Tail(s)), NEW j \in 1 .. Len(Tail(s)),
               Tail(s)[i] = Tail(s)[j], Tail(s)[i] \in A
        PROVE  i = j
    <2>1. /\ i + 1 \in 1 .. Len(s) /\ j + 1 \in 1 .. Len(s)
          /\ s[i + 1] = s[j + 1] /\ s[i + 1] \in A
      BY <1>1, <1>2
    <2>2. i + 1 = j + 1
      BY <2>1 DEF OnceIn
    <2> QED BY <1>1, <2>2
  <1>3. ASSUME Head(s) \in A, NEW i \in 1 .. Len(Tail(s)) PROVE Tail(s)[i] # Head(s)
    <2>1. 1 \in 1 .. Len(s) /\ i + 1 \in 1 .. Len(s) /\ i + 1 # 1 /\ Tail(s)[i] = s[i + 1]
      BY <1>1
    <2> QED BY <1>1, <1>3, <2>1 DEF OnceIn
  <1>4. Head(s) \in A => Head(s) \notin ToSet(Tail(s))
    BY <1>1, <1>3 DEF ToSet
  <1> QED BY <1>2, <1>4 DEF OnceIn

LEMMA PushOnceIn ==
    ASSUME NEW S, NEW s \in Seq(S), NEW e \in S, NEW A, OnceIn(s, A), e \in A => e \notin ToSet(s)
    PROVE  OnceIn(Append(s, e), A)
  <1>1. /\ Len(s) \in Nat /\ Len(Append(s, e)) = Len(s) + 1 /\ DOMAIN s = 1 .. Len(s)
        /\ \A i \in 1 .. Len(s) : Append(s, e)[i] = s[i]
        /\ Append(s, e)[Len(s) + 1] = e
    BY AppendShape
  <1>2. e \in A => \A i \in 1 .. Len(s) : s[i] # e
    BY <1>1 DEF ToSet
  <1>3. \A i \in 1 .. Len(Append(s, e)) : i \in 1 .. Len(s) \/ i = Len(s) + 1
    BY <1>1
  <1> QED BY <1>1, <1>2, <1>3 DEF OnceIn

-----------------------------------------------------------------------------
(* Concatenation by its laws: the provers reason about \o as a built-in and    *)
(* lose themselves in its elements when all that matters is the grouping.    *)

Cat(s, t) == s \o t

LEMMA CatLaws ==
    ASSUME NEW S
    PROVE  /\ \A s, t \in Seq(S) : Cat(s, t) \in Seq(S)
           /\ \A s, t, u \in Seq(S) : Cat(Cat(s, t), u) = Cat(s, Cat(t, u))
           /\ \A s \in Seq(S) : Cat(s, <<>>) = s /\ Cat(<<>>, s) = s
           /\ <<>> \in Seq(S)
  <1>1. \A s, t \in Seq(S) : Cat(s, t) \in Seq(S)
    BY DEF Cat
  <1>2. \A s, t, u \in Seq(S) : Cat(Cat(s, t), u) = Cat(s, Cat(t, u))
    BY ConcatAssociative DEF Cat
  <1>3. \A s \in Seq(S) : Cat(s, <<>>) = s /\ Cat(<<>>, s) = s
    BY ConcatEmptySeq DEF Cat
  <1> QED BY <1>1, <1>2, <1>3

\* A sequence is its first k elements and the others.
LEMMA CutInTwo ==
    ASSUME NEW S, NEW s \in Seq(S), NEW k \in 0 .. Len(s)
    PROVE  /\ SubSeq(s, 1, k) \in Seq(S) /\ Len(SubSeq(s, 1, k)) = k
           /\ SubSeq(s, k + 1, Len(s)) \in Seq(S) /\ Len(SubSeq(s, k + 1, Len(s))) = Len(s) - k
           /\ Cat(SubSeq(s, 1, k), SubSeq(s, k + 1, Len(s))) = s
  <1>1. Len(s) \in Nat /\ k \in Int /\ 1 \in Int /\ k + 1 \in Int /\ Len(s) \in Int
    OBVIOUS
  <1>2. /\ \A i \in 1 .. k : s[i] \in S
        /\ \A i \in k + 1 .. Len(s) : s[i] \in S
    BY <1>1
  <1>3. SubSeq(s, 1, k) \in Seq(S) /\ Len(SubSeq(s, 1, k)) = IF 1 <= k THEN k - 1 + 1 ELSE 0
    BY <1>1, <1>2, SubSeqProperties
  <1>4. /\ SubSeq(s, k + 1, Len(s)) \in Seq(S)
        /\ Len(SubSeq(s, k + 1, Len(s))) = IF k + 1 <= Len(s) THEN Len(s) - (k + 1) + 1 ELSE 0
    BY <1>1, <1>2, SubSeqProperties
  <1>5. \A m \in 1 .. Len(s) + 1 : \A j \in m - 1 .. Len(s) : \A n \in j .. Len(s) :
          Cat(SubSeq(s, m, j), SubSeq(s, j + 1, n)) = SubSeq(s, m, n)
    BY ConcatAdjacentSubSeq DEF Cat
  <1>6. 1 \in 1 .. Len(s) + 1 /\ k \in 1 - 1 .. Len(s) /\ Len(s) \in k .. Len(s)
    BY <1>1
  <1>7. Cat(SubSeq(s, 1, k), SubSeq(s, k + 1, Len(s))) = SubSeq(s, 1, Len(s))
    BY <1>5, <1>6
  <1>8. SubSeq(s, 1, Len(s)) = s
    BY SubSeqFull
  <1>9. Len(SubSeq(s, 1, k)) = k /\ Len(SubSeq(s, k + 1, Len(s))) = Len(s) - k
    BY <1>1, <1>3, <1>4
  <1> QED BY <1>3, <1>4, <1>7, <1>8, <1>9
=============================================================================
