------------------------ MODULE KeyValueActorsProofs -------------------------
(***************************************************************************)
(* Proofs about KeyValueActors for every set of clients, keys and values,    *)
(* every capacity of the channels and every number of resets.               *)
(***************************************************************************)
EXTENDS KeyValueActors, SequenceLemmas

USE DEF callVars, routerVars, kvVars, writerVars

ResetMessage == [kind |-> "reset"]
BeatMessage == [kind |-> "beat"]
LoadMessage == [kind |-> "load"]
RouterMessages == Requests \cup {BeatMessage, ResetMessage}

-----------------------------------------------------------------------------
(* Messages and maps.                                                      *)

\* What a request is made of.
LEMMA RequestFacts ==
    ASSUME NEW m \in Requests
    PROVE  /\ m.kind \in {"set", "get", "delete"} /\ m.from \in Clients /\ m.key \in Keys
           /\ m.val \in Vals \cup {Nothing} /\ (m.kind # "set" => m.val = Nothing)
           /\ m # Nothing /\ m # ResetMessage /\ m # BeatMessage /\ m # LoadMessage
  <1>1. PICK c \in Clients : m \in Op(c)
    BY DEF Requests
  <1>2. /\ m.kind \in {"set", "get", "delete"} /\ m.from \in Clients /\ m.key \in Keys
        /\ m.val \in Vals \cup {Nothing} /\ (m.kind # "set" => m.val = Nothing)
    <2>1. CASE m \in [kind : Kinds \cap {"set"}, key : Keys, val : Vals, from : {c}]
      BY <2>1
    <2>2. CASE m \in [kind : Kinds \ {"set"}, key : Keys, val : {Nothing}, from : {c}]
      BY <2>2, KvAssumption
    <2> QED BY <1>1, <2>1, <2>2 DEF Op
  <1>3. m # Nothing
    BY NothingIsNoMessage
  <1> QED BY <1>2, <1>3 DEF ResetMessage, BeatMessage, LoadMessage

\* The kinds of what the router receives.
LEMMA RouterMessageFacts ==
    ASSUME NEW m \in RouterMessages
    PROVE  /\ m.kind = "reset" <=> m = ResetMessage
           /\ m.kind = "beat" <=> m = BeatMessage
           /\ m.kind \in {"set", "get", "delete"} <=> m \in Requests
  BY RequestFacts DEF RouterMessages, ResetMessage, BeatMessage

\* A request is one of its caller's.
LEMMA OpFacts ==
    ASSUME NEW c \in Clients, NEW m \in Op(c)
    PROVE  m \in Requests /\ m.from = c
  <1>1. m \in Requests
    BY DEF Requests
  <1>2. m.from = c
    <2>1. CASE m \in [kind : Kinds \cap {"set"}, key : Keys, val : Vals, from : {c}]
      BY <2>1
    <2>2. CASE m \in [kind : Kinds \ {"set"}, key : Keys, val : {Nothing}, from : {c}]
      BY <2>2
    <2> QED BY <2>1, <2>2 DEF Op
  <1> QED BY <1>1, <1>2

\* What a message of the log does to a map.
LEMMA ApplyFacts ==
    ASSUME NEW m \in Maps, NEW op \in LogMessages
    PROVE  /\ Apply(m, op) \in Maps
           /\ \A k \in Keys : Apply(m, op)[k] =
                IF op.kind \in {"set", "delete"} /\ op.key = k THEN op.val ELSE m[k]
           /\ op = LoadMessage => Apply(m, op) = m
  <1>1. CASE op = LoadMessage
    BY <1>1 DEF Apply, LoadMessage
  <1>2. CASE op \in Requests
    <2>1. /\ op.kind \in {"set", "get", "delete"} /\ op.key \in Keys
          /\ op.val \in Vals \cup {Nothing} /\ (op.kind # "set" => op.val = Nothing)
          /\ op # LoadMessage
      BY <1>2, RequestFacts
    <2>2. CASE op.kind = "set"
      BY <2>1, <2>2 DEF Apply, Maps
    <2>3. CASE op.kind = "delete"
      BY <2>1, <2>3 DEF Apply, Maps
    <2>4. CASE op.kind = "get"
      BY <2>1, <2>4 DEF Apply, Maps
    <2> QED BY <2>1, <2>2, <2>3, <2>4
  <1> QED BY <1>1, <1>2 DEF LogMessages, LoadMessage

\* An answer is a value, or one of the words for having none.
LEMMA AnswerType ==
    ASSUME NEW m \in Maps, NEW op \in Requests
    PROVE  /\ Answer(m, op) \in Vals \cup {"ok", "none"}
           /\ Answer(m, op) \notin {Nothing, "dropped"} \/ Answer(m, op) \in Vals
  <1>1. op.key \in Keys
    BY RequestFacts
  <1>2. m[op.key] \in Vals \cup {Nothing}
    BY <1>1 DEF Maps
  <1> QED BY <1>2, KvAssumption DEF Answer

-----------------------------------------------------------------------------
(* The log between cache and writer.                                       *)

\* With nothing on the way both have the same map.
LEMMA AheadStart ==
    ASSUME NEW m PROVE LogAhead(m, <<>>, m)
  BY DEF LogAhead, Writes

\* A write is logged and applied to the cache.
LEMMA AheadAppend ==
    ASSUME NEW m \in Maps, NEW w \in Maps, NEW log \in Seq(LogMessages), NEW op \in LogMessages,
           LogAhead(m, log, w)
    PROVE  LogAhead(Apply(m, op), Append(log, op), w)
  <1> DEFINE new == Append(log, op)
  <1>1. /\ Len(log) \in Nat /\ DOMAIN log = 1 .. Len(log) /\ DOMAIN new = 1 .. Len(log) + 1
        /\ \A i \in 1 .. Len(log) : new[i] = log[i]
        /\ new[Len(log) + 1] = op
    BY AppendShape
  <1> HIDE DEF new
  <1>2. SUFFICES ASSUME NEW k \in Keys
                 PROVE  IF Writes(new, k) = {} THEN Apply(m, op)[k] = w[k]
                        ELSE \E i \in Writes(new, k) :
                               /\ Apply(m, op)[k] = new[i].val
                               /\ \A j \in Writes(new, k) : j <= i
    BY DEF LogAhead, new
  <1>3. CASE op.kind \in {"set", "delete"} /\ op.key = k
    <2>1. Apply(m, op)[k] = op.val
      BY <1>3, ApplyFacts
    <2>2. Len(log) + 1 \in Writes(new, k) /\ \A j \in Writes(new, k) : j <= Len(log) + 1
      BY <1>1, <1>3 DEF Writes
    <2> QED BY <1>1, <2>1, <2>2
  <1>4. CASE ~(op.kind \in {"set", "delete"} /\ op.key = k)
    <2>1. Apply(m, op)[k] = m[k]
      BY <1>4, ApplyFacts
    <2>2. Writes(new, k) = Writes(log, k) /\ \A i \in Writes(log, k) : new[i] = log[i]
      BY <1>1, <1>4 DEF Writes
    <2> QED BY <2>1, <2>2 DEF LogAhead
  <1> QED BY <1>3, <1>4

\* The writer takes the first message of the log and applies it to its map.
LEMMA AheadTail ==
    ASSUME NEW m \in Maps, NEW w \in Maps, NEW log \in Seq(LogMessages), log # <<>>,
           LogAhead(m, log, w)
    PROVE  LogAhead(m, Tail(log), Apply(w, Head(log)))
  <1> DEFINE op == Head(log)
             rest == Tail(log)
  <1>1. /\ op \in LogMessages /\ op = log[1] /\ Len(log) \in Nat /\ Len(log) > 0
        /\ DOMAIN log = 1 .. Len(log) /\ DOMAIN rest = 1 .. Len(log) - 1
        /\ \A i \in 1 .. Len(log) - 1 : rest[i] = log[i + 1]
    BY TailShape
  <1> HIDE DEF op, rest
  <1>2. SUFFICES ASSUME NEW k \in Keys
                 PROVE  IF Writes(rest, k) = {} THEN m[k] = Apply(w, op)[k]
                        ELSE \E i \in Writes(rest, k) :
                               m[k] = rest[i].val /\ \A j \in Writes(rest, k) : j <= i
    BY DEF LogAhead, op, rest
  <1>3. /\ \A i \in Writes(rest, k) : i + 1 \in Writes(log, k) /\ rest[i] = log[i + 1]
        /\ \A i \in Writes(log, k) : i # 1 => i - 1 \in Writes(rest, k) /\ rest[i - 1] = log[i]
        /\ 1 \in Writes(log, k) <=> op.kind \in {"set", "delete"} /\ op.key = k
        /\ \A i \in Writes(log, k) : i \in Int
        /\ \A i \in Writes(rest, k) : i \in Int /\ i > 0
    BY <1>1 DEF Writes
  <1>4. Apply(w, op)[k] = IF 1 \in Writes(log, k) THEN op.val ELSE w[k]
    BY <1>1, <1>3, ApplyFacts
  <1>5. CASE Writes(rest, k) = {}
    <2>1. Writes(log, k) \subseteq {1}
      BY <1>3, <1>5
    <2> QED BY <1>1, <1>4, <1>5, <2>1 DEF LogAhead
  <1>6. CASE Writes(rest, k) # {}
    <2>1. Writes(log, k) # {}
      BY <1>3, <1>6
    <2>2. PICK i \in Writes(log, k) : m[k] = log[i].val /\ \A j \in Writes(log, k) : j <= i
      BY <2>1 DEF LogAhead
    <2>3. i # 1
      <3>1. PICK j \in Writes(rest, k) : TRUE
        BY <1>6
      <3>2. j + 1 <= i /\ j > 0
        BY <1>3, <2>2
      <3> QED BY <1>3, <3>2
    <2>4. i - 1 \in Writes(rest, k) /\ m[k] = rest[i - 1].val
      BY <1>3, <2>2, <2>3
    <2>5. \A j \in Writes(rest, k) : j <= i - 1
      BY <1>3, <2>2
    <2> QED BY <1>6, <2>4, <2>5
  <1> QED BY <1>5, <1>6

-----------------------------------------------------------------------------
(* Generations: what a step of the router's channel does to their order.   *)

\* GensInOrder by the number of Resets in the channel.
LEMMA ResetsCounted ==
    /\ GensInOrder <=> /\ gen + Count(rch, ResetMessage) = resets + 1
                       /\ \A g \in Gens : kpc[g] = "none" <=> g > gen
    /\ GensInOrder' <=> /\ gen' + Count(rch', ResetMessage) = resets' + 1
                        /\ \A g \in Gens : kpc'[g] = "none" <=> g > gen'
  BY DEF GensInOrder, Count, ResetMessage, Gens

LEMMA RchType ==
    ASSUME TypeOK PROVE rch \in Seq(RouterMessages) /\ resets \in Nat /\ gen \in Nat
  BY KvAssumption DEF TypeOK, RouterMessages, BeatMessage, ResetMessage, Gens

\* A message is sent to the router.
LEMMA GensAfterSend ==
    ASSUME TypeOK, GensInOrder, NEW m \in RouterMessages, rch' = Append(rch, m), gen' = gen,
           resets' = resets + (IF m = ResetMessage THEN 1 ELSE 0),
           \A g \in Gens : kpc'[g] = "none" <=> kpc[g] = "none"
    PROVE  GensInOrder'
  <1>1. Count(rch', ResetMessage) = Count(rch, ResetMessage) + (IF m = ResetMessage THEN 1 ELSE 0)
    BY RchType, CountAppend
  <1>2. Count(rch, ResetMessage) \in Nat
    BY RchType, CountType
  <1> QED BY <1>1, <1>2, RchType, ResetsCounted

\* The router takes a message that is no Reset.
LEMMA GensAfterTake ==
    ASSUME TypeOK, GensInOrder, rch # <<>>, rch' = Tail(rch), Head(rch) # ResetMessage,
           UNCHANGED <<gen, resets, kpc>>
    PROVE  GensInOrder'
  <1>1. Count(rch, ResetMessage) = Count(rch', ResetMessage) + 0
    BY RchType, CountTail
  <1>2. Count(rch', ResetMessage) \in Nat
    BY RchType, TailElements, CountType
  <1> QED BY <1>1, <1>2, RchType, ResetsCounted

\* Nothing happens to the channel.
LEMMA GensAfterElse ==
    ASSUME TypeOK, GensInOrder, UNCHANGED <<rch, gen, resets>>,
           \A g \in Gens : kpc'[g] = "none" <=> kpc[g] = "none"
    PROVE  GensInOrder'
  BY ResetsCounted

\* After a Reset there is one generation more, which the bound allows.
LEMMA GensAfterReset ==
    ASSUME TypeOK, GensInOrder, rch # <<>>, rch' = Tail(rch), Head(rch) = ResetMessage,
           gen' = gen + 1, resets' = resets, kpc' = [kpc EXCEPT ![gen + 1] = "spawned"]
    PROVE  GensInOrder' /\ gen + 1 \in Gens /\ kpc[gen + 1] = "none"
  <1>1. Count(rch, ResetMessage) = Count(rch', ResetMessage) + 1
    BY RchType, CountTail
  <1>2. Count(rch', ResetMessage) \in Nat
    BY RchType, TailElements, CountType
  <1>3. gen + 1 + Count(rch', ResetMessage) = resets + 1
    BY <1>1, <1>2, RchType, ResetsCounted
  <1>4. gen + 1 \in Gens
    BY <1>2, <1>3, RchType, KvAssumption DEF Gens, TypeOK
  <1>5. \A g \in Gens : kpc[g] = "none" <=> g > gen
    BY ResetsCounted
  <1>6. \A g \in Gens : g \in Int
    BY DEF Gens
  <1>7. \A g \in Gens : kpc'[g] = "none" <=> g > gen + 1
    BY <1>4, <1>5, <1>6, RchType DEF TypeOK
  <1> QED BY <1>3, <1>4, <1>5, <1>7, RchType, ResetsCounted

-----------------------------------------------------------------------------
(* data.json.                                                              *)

LEMMA FileFacts ==
    ASSUME TypeOK, NEW m \in Maps
    PROVE  /\ EmptyMap \in Maps /\ Parse(file) \in Maps
           /\ EmptyFile.length \in Nat /\ EmptyFile.holds = Nothing
           /\ Length(m) \in Nat /\ Length(m) > 0
           /\ Json(m).length = Length(m) /\ Json(m).holds = m
           /\ Overwrite(file, m).length \in Nat /\ Overwrite(file, m).holds \in Maps \cup {Nothing}
           /\ Overwrite(EmptyFile, m) = Json(m)
  <1>1. IsFiniteSet({k \in Keys : m[k] # Nothing})
    BY KvAssumption, FS_Subset
  <1>2. Length(m) \in Nat /\ Length(m) > 0
    BY <1>1, FS_CardinalityType DEF Length
  <1>3. EmptyMap \in Maps /\ Parse(file) \in Maps
    BY DEF EmptyMap, Maps, Parse, TypeOK
  <1> QED BY <1>2, <1>3 DEF EmptyFile, Json, Overwrite, TypeOK

-----------------------------------------------------------------------------
(* CacheInv is kept by every action.                                       *)

LEMMA CallCache == ASSUME CacheInv, NEW c \in Clients, Call(c) PROVE CacheInv'
  <1> TypeOK /\ GensInOrder /\ FirstIsLoad /\ CacheIsLogAhead
    BY DEF CacheInv
  <1>1. PICK op \in Op(c) : call' = [call EXCEPT ![c] = op] /\ rch' = Append(rch, op)
    BY DEF Call
  <1>2. op \in Requests /\ op \in RouterMessages /\ op # ResetMessage
    BY <1>1, OpFacts, RequestFacts DEF RouterMessages
  <1>3. rch' \in Seq(RouterMessages)
    BY <1>1, <1>2, RchType, AppendElements
  <1>4. TypeOK'
    BY <1>1, <1>2, <1>3, KvAssumption DEF TypeOK, Call, RouterMessages, BeatMessage, ResetMessage
  <1>5. GensInOrder'
    BY <1>1, <1>2, RchType, GensAfterSend DEF Call
  <1> QED BY <1>4, <1>5 DEF Call, CacheInv, FirstIsLoad, CacheIsLogAhead

LEMMA SendResetCache == ASSUME CacheInv, SendReset PROVE CacheInv'
  <1> TypeOK /\ GensInOrder /\ FirstIsLoad /\ CacheIsLogAhead
    BY DEF CacheInv
  <1>1. rch' = Append(rch, ResetMessage) /\ resets' = resets + 1 /\ resets < MaxResets
    BY DEF SendReset, ResetMessage
  <1>2. ResetMessage \in RouterMessages
    BY DEF RouterMessages
  <1>3. rch' \in Seq(RouterMessages)
    BY <1>1, <1>2, RchType, AppendElements
  <1>4. TypeOK'
    BY <1>1, <1>3, KvAssumption DEF TypeOK, SendReset, RouterMessages, BeatMessage, ResetMessage
  <1>5. GensInOrder'
    BY <1>1, <1>2, GensAfterSend DEF SendReset
  <1> QED BY <1>4, <1>5 DEF SendReset, CacheInv, FirstIsLoad, CacheIsLogAhead

LEMMA RouterTakeCache == ASSUME CacheInv, RouterTake \/ RouterBeat PROVE CacheInv'
  <1> TypeOK /\ GensInOrder /\ FirstIsLoad /\ CacheIsLogAhead
    BY DEF CacheInv
  <1>1. rch # <<>> /\ rch' = Tail(rch) /\ Head(rch).kind \in {"set", "get", "delete", "beat"}
    BY DEF RouterTake, RouterBeat
  <1>2. Head(rch) \in RouterMessages /\ rch' \in Seq(RouterMessages)
    BY <1>1, RchType, TailElements
  <1>3. Head(rch) # ResetMessage /\ (RouterTake => Head(rch) \in Requests)
    BY <1>1, <1>2, RouterMessageFacts DEF RouterTake
  <1>4. TypeOK'
    BY <1>2, <1>3 DEF TypeOK, RouterTake, RouterBeat, RouterMessages, BeatMessage, ResetMessage
  <1>5. GensInOrder'
    BY <1>1, <1>3, GensAfterTake DEF RouterTake, RouterBeat
  <1> QED BY <1>4, <1>5 DEF RouterTake, RouterBeat, CacheInv, FirstIsLoad, CacheIsLogAhead

\* Dropping requests leaves answers that are answers.
LEMMA DropType ==
    ASSUME TypeOK, NEW ops, Drop(ops)
    PROVE  result' \in [Clients -> Vals \cup {Nothing, "ok", "dropped", "none"}]
  BY DEF TypeOK, Drop

LEMMA RouterDeliverCache == ASSUME CacheInv, RouterDeliver PROVE CacheInv'
  <1> TypeOK /\ GensInOrder /\ FirstIsLoad /\ CacheIsLogAhead
    BY DEF CacheInv
  <1>1. rhand \in Requests /\ rhand' = Nothing /\ gen \in Gens
    BY DEF RouterDeliver, TypeOK
  <1>2. kch' \in [Gens -> Seq(Requests)]
    <2>1. kch[gen] \in Seq(Requests)
      BY <1>1 DEF TypeOK
    <2>2. Append(kch[gen], rhand) \in Seq(Requests)
      BY <1>1, <2>1, AppendElements
    <2> QED BY <2>2 DEF RouterDeliver, TypeOK
  <1>3. result' \in [Clients -> Vals \cup {Nothing, "ok", "dropped", "none"}]
    BY DropType DEF RouterDeliver, TypeOK
  <1>4. TypeOK'
    BY <1>1, <1>2, <1>3 DEF RouterDeliver, TypeOK
  <1>5. GensInOrder'
    BY GensAfterElse DEF RouterDeliver
  <1> QED BY <1>4, <1>5 DEF RouterDeliver, CacheInv, FirstIsLoad, CacheIsLogAhead

LEMMA RouterResetCache == ASSUME CacheInv, RouterReset PROVE CacheInv'
  <1> TypeOK /\ GensInOrder /\ FirstIsLoad /\ CacheIsLogAhead
    BY DEF CacheInv
  <1>1. /\ rch # <<>> /\ rch' = Tail(rch) /\ gen' = gen + 1 /\ Head(rch).kind = "reset"
        /\ kpc' = [kpc EXCEPT ![gen + 1] = "spawned"]
        /\ aborted' = [aborted EXCEPT ![gen] = TRUE]
        /\ UNCHANGED <<callVars, rhand, kmap, kch, khand, writerVars, file>>
    BY DEF RouterReset
  <1>2. Head(rch) = ResetMessage /\ rch' \in Seq(RouterMessages)
    BY <1>1, RchType, TailElements, RouterMessageFacts
  <1>3. GensInOrder' /\ gen + 1 \in Gens /\ kpc[gen + 1] = "none"
    BY <1>1, <1>2, GensAfterReset
  <1>4. TypeOK'
    BY <1>1, <1>2, <1>3 DEF TypeOK, RouterMessages, BeatMessage, ResetMessage
  <1>5. FirstIsLoad'
    BY <1>1, <1>3 DEF FirstIsLoad, TypeOK
  <1>6. CacheIsLogAhead'
    BY <1>1, <1>3 DEF CacheIsLogAhead, TypeOK
  <1> QED BY <1>3, <1>4, <1>5, <1>6 DEF CacheInv

LEMMA KvStartCache == ASSUME CacheInv, NEW g \in Gens, KvStart(g) PROVE CacheInv'
  <1> TypeOK /\ GensInOrder /\ FirstIsLoad /\ CacheIsLogAhead
    BY DEF CacheInv
  <1>1. <<LoadMessage>> \in Seq(LogMessages) /\ LoadMessage = [kind |-> "load"]
    BY DEF LogMessages, LoadMessage
  <1>2. TypeOK'
    BY <1>1 DEF TypeOK, KvStart
  <1>3. GensInOrder'
    BY GensAfterElse DEF KvStart, TypeOK
  <1>4. FirstIsLoad'
    BY DEF FirstIsLoad, KvStart, TypeOK
  <1>5. CacheIsLogAhead'
    BY DEF CacheIsLogAhead, KvStart, TypeOK
  <1> QED BY <1>2, <1>3, <1>4, <1>5 DEF CacheInv

LEMMA KvLoadedCache == ASSUME CacheInv, NEW g \in Gens, KvLoaded(g) PROVE CacheInv'
  <1> TypeOK /\ GensInOrder /\ FirstIsLoad /\ CacheIsLogAhead
    BY DEF CacheInv
  <1>1. loaded[g] \in Maps
    BY DEF KvLoaded, TypeOK
  <1>2. TypeOK'
    BY <1>1 DEF TypeOK, KvLoaded
  <1>3. GensInOrder'
    BY GensAfterElse DEF KvLoaded, TypeOK
  <1>4. FirstIsLoad'
    BY DEF FirstIsLoad, KvLoaded, TypeOK
  <1>5. wpc[g] # "done" => LogAhead(loaded[g], wch[g], wmap[g])
    BY AheadStart DEF FirstIsLoad, KvLoaded
  <1>6. CacheIsLogAhead'
    BY <1>5 DEF CacheIsLogAhead, KvLoaded, TypeOK
  <1> QED BY <1>2, <1>3, <1>4, <1>6 DEF CacheInv

LEMMA KvGetCache == ASSUME CacheInv, NEW g \in Gens, KvGet(g) PROVE CacheInv'
  <1> TypeOK /\ GensInOrder /\ FirstIsLoad /\ CacheIsLogAhead
    BY DEF CacheInv
  <1> DEFINE op == Head(kch[g])
  <1>1. kch[g] \in Seq(Requests) /\ kch[g] # <<>> /\ kmap[g] \in Maps
    BY DEF KvGet, TypeOK
  <1>2. op \in Requests /\ Tail(kch[g]) \in Seq(Requests)
    BY <1>1, TailElements
  <1>3. op.from \in Clients /\ Answer(kmap[g], op) \in Vals \cup {"ok", "none"}
    BY <1>1, <1>2, RequestFacts, AnswerType
  <1>4. TypeOK'
    BY <1>2, <1>3 DEF TypeOK, KvGet
  <1>5. GensInOrder'
    BY GensAfterElse DEF KvGet
  <1> QED BY <1>4, <1>5 DEF KvGet, CacheInv, FirstIsLoad, CacheIsLogAhead

LEMMA KvTakeCache == ASSUME CacheInv, NEW g \in Gens, KvTake(g) PROVE CacheInv'
  <1> TypeOK /\ GensInOrder /\ FirstIsLoad /\ CacheIsLogAhead
    BY DEF CacheInv
  <1>1. kch[g] \in Seq(Requests) /\ kch[g] # <<>>
    BY DEF KvTake, TypeOK
  <1>2. Head(kch[g]) \in Requests /\ Tail(kch[g]) \in Seq(Requests) /\ Head(kch[g]) # Nothing
    BY <1>1, TailElements, RequestFacts
  <1>3. TypeOK'
    BY <1>2 DEF TypeOK, KvTake
  <1>4. GensInOrder'
    BY GensAfterElse DEF KvTake, TypeOK
  <1>5. FirstIsLoad'
    BY <1>2 DEF FirstIsLoad, KvTake, TypeOK
  <1>6. CacheIsLogAhead'
    BY DEF CacheIsLogAhead, KvTake, TypeOK
  <1> QED BY <1>3, <1>4, <1>5, <1>6 DEF CacheInv

LEMMA KvForwardCache == ASSUME CacheInv, NEW g \in Gens, KvForward(g) PROVE CacheInv'
  <1> TypeOK /\ GensInOrder /\ FirstIsLoad /\ CacheIsLogAhead
    BY DEF CacheInv
  <1> DEFINE op == khand[g]
  <1>1. op \in Requests /\ op \in LogMessages
    BY DEF KvForward, FirstIsLoad, TypeOK, LogMessages
  <1>2. /\ kmap[g] \in Maps /\ wmap[g] \in Maps /\ wch[g] \in Seq(LogMessages)
        /\ Apply(kmap[g], op) \in Maps
    BY <1>1, ApplyFacts DEF TypeOK
  <1>3. op.from \in Clients /\ Answer(kmap[g], op) \in Vals \cup {"ok", "none"}
    BY <1>1, <1>2, RequestFacts, AnswerType
  <1>4. wch' \in [Gens -> Seq(LogMessages)]
    <2>1. Append(wch[g], op) \in Seq(LogMessages)
      BY <1>1, <1>2, AppendElements
    <2> QED BY <2>1 DEF KvForward, TypeOK
  <1>5. TypeOK'
    BY <1>2, <1>3, <1>4 DEF TypeOK, KvForward
  <1>6. GensInOrder'
    BY GensAfterElse DEF KvForward, TypeOK
  <1>7. FirstIsLoad'
    BY DEF FirstIsLoad, KvForward, TypeOK
  <1>8. CacheIsLogAhead'
    <2>1. SUFFICES ASSUME NEW h \in Gens, kpc'[h] \in {"serve", "forward", "beat"}, wpc'[h] # "done"
                   PROVE  LogAhead(kmap'[h], wch'[h], wmap'[h])
      BY DEF CacheIsLogAhead
    <2>2. CASE h # g
      BY <2>1, <2>2 DEF CacheIsLogAhead, KvForward, TypeOK
    <2>3. CASE h = g
      <3>1. /\ wch'[g] = Append(wch[g], op) /\ kmap'[g] = Apply(kmap[g], op) /\ wmap'[g] = wmap[g]
            /\ kpc[g] = "forward" /\ wpc[g] # "done"
        BY <2>1, <2>3 DEF KvForward, TypeOK
      <3>2. LogAhead(kmap[g], wch[g], wmap[g])
        BY <3>1 DEF CacheIsLogAhead
      <3> HIDE DEF op
      <3> QED BY <1>1, <1>2, <2>3, <3>1, <3>2, AheadAppend
    <2> QED BY <2>2, <2>3
  <1> QED BY <1>5, <1>6, <1>7, <1>8 DEF CacheInv

LEMMA KvBeatCache ==
    ASSUME CacheInv, NEW g \in Gens, KvBeat(g) \/ WriterBeat(g) PROVE CacheInv'
  <1> TypeOK /\ GensInOrder /\ FirstIsLoad /\ CacheIsLogAhead
    BY DEF CacheInv
  <1>1. BeatMessage \in RouterMessages /\ BeatMessage # ResetMessage /\ rch' = Append(rch, BeatMessage)
    BY DEF KvBeat, WriterBeat, BeatMessage, ResetMessage, RouterMessages
  <1>2. rch' \in Seq(RouterMessages)
    BY <1>1, RchType, AppendElements
  <1>3. TypeOK'
    BY <1>2 DEF TypeOK, KvBeat, WriterBeat, RouterMessages, BeatMessage, ResetMessage
  <1>4. GensInOrder'
    BY <1>1, RchType, GensAfterSend DEF KvBeat, WriterBeat, TypeOK
  <1>5. FirstIsLoad'
    <2>1. CASE KvBeat(g)
      BY <2>1 DEF FirstIsLoad, KvBeat, TypeOK
    <2>2. CASE WriterBeat(g)
      BY <2>2 DEF FirstIsLoad, WriterBeat, TypeOK
    <2> QED BY <2>1, <2>2
  <1>6. CacheIsLogAhead'
    <2>1. CASE KvBeat(g)
      BY <2>1 DEF CacheIsLogAhead, KvBeat, TypeOK
    <2>2. CASE WriterBeat(g)
      BY <2>2 DEF CacheIsLogAhead, WriterBeat, TypeOK
    <2> QED BY <2>1, <2>2
  <1> QED BY <1>3, <1>4, <1>5, <1>6 DEF CacheInv

LEMMA KvTimeoutCache == ASSUME CacheInv, NEW g \in Gens, KvTimeout(g) PROVE CacheInv'
  <1> TypeOK /\ GensInOrder /\ FirstIsLoad /\ CacheIsLogAhead
    BY DEF CacheInv
  <1>1. TypeOK'
    BY DEF TypeOK, KvTimeout
  <1>2. GensInOrder'
    BY GensAfterElse DEF KvTimeout, TypeOK
  <1>3. FirstIsLoad'
    BY DEF FirstIsLoad, KvTimeout, TypeOK
  <1>4. CacheIsLogAhead'
    BY DEF CacheIsLogAhead, KvTimeout, TypeOK
  <1> QED BY <1>1, <1>2, <1>3, <1>4 DEF CacheInv

LEMMA KvEndCache == ASSUME CacheInv, NEW g \in Gens, KvEnd(g) PROVE CacheInv'
  <1> TypeOK /\ GensInOrder /\ FirstIsLoad /\ CacheIsLogAhead
    BY DEF CacheInv
  <1>1. result' \in [Clients -> Vals \cup {Nothing, "ok", "dropped", "none"}]
    BY DropType DEF KvEnd
  <1>2. kpc[g] # "none" /\ kpc' = [kpc EXCEPT ![g] = "dead"]
    BY DEF KvEnd
  <1>3. TypeOK'
    BY <1>1 DEF TypeOK, KvEnd
  <1>4. GensInOrder'
    BY <1>2, GensAfterElse DEF KvEnd, TypeOK
  <1>5. FirstIsLoad'
    BY DEF FirstIsLoad, KvEnd, TypeOK
  <1>6. CacheIsLogAhead'
    BY DEF CacheIsLogAhead, KvEnd, TypeOK
  <1> QED BY <1>3, <1>4, <1>5, <1>6 DEF CacheInv

LEMMA WriterTakeCache == ASSUME CacheInv, NEW g \in Gens, WriterTake(g) PROVE CacheInv'
  <1> TypeOK /\ GensInOrder /\ FirstIsLoad /\ CacheIsLogAhead
    BY DEF CacheInv
  <1> DEFINE op == Head(wch[g])
  <1>1. /\ kmap[g] \in Maps /\ wmap[g] \in Maps /\ wch[g] \in Seq(LogMessages) /\ wch[g] # <<>>
        /\ wpc[g] = "serve"
    BY DEF TypeOK, WriterTake
  <1>2. op \in LogMessages /\ Tail(wch[g]) \in Seq(LogMessages) /\ Apply(wmap[g], op) \in Maps
    BY <1>1, TailElements, ApplyFacts
  <1>3. loaded' \in [Gens -> Maps \cup {Nothing}]
    BY <1>1 DEF WriterTake, TypeOK
  <1>4. TypeOK'
    BY <1>2, <1>3 DEF TypeOK, WriterTake
  <1>5. GensInOrder'
    BY GensAfterElse DEF WriterTake
  <1>6. FirstIsLoad'
    <2>1. SUFFICES ASSUME NEW h \in Gens
                   PROVE  /\ kpc[h] \in {"none", "spawned"} => wpc'[h] = "none"
                          /\ kpc[h] = "load" => wpc'[h] # "none"
                          /\ wpc'[h] \in {"none", "load", "create"} =>
                               loaded'[h] = Nothing /\ kpc[h] \notin {"serve", "forward", "beat"}
                          /\ kpc[h] = "load" /\ wpc'[h] # "done" =>
                               \/ loaded'[h] = Nothing /\ wch'[h] = <<LoadMessage>>
                               \/ loaded'[h] = wmap'[h] /\ wch'[h] = <<>>
                          /\ kpc[h] = "forward" <=> khand[h] # Nothing
      BY DEF FirstIsLoad, WriterTake, LoadMessage
    <2>2. CASE h # g
      BY <2>2 DEF FirstIsLoad, WriterTake, TypeOK, LoadMessage
    <2>3. CASE h = g
      <3>1. wpc'[g] = "truncate" /\ kpc[g] \notin {"none", "spawned"}
        BY <1>1 DEF FirstIsLoad, WriterTake, TypeOK
      <3>2. ASSUME kpc[g] = "load" PROVE loaded'[g] = wmap'[g] /\ wch'[g] = <<>>
        <4>1. wch[g] = <<LoadMessage>>
          BY <1>1, <3>2 DEF FirstIsLoad, LoadMessage
        <4>2. op = LoadMessage /\ Tail(wch[g]) = <<>>
          BY <4>1
        <4>3. Apply(wmap[g], op) = wmap[g]
          BY <1>1, <1>2, <4>2, ApplyFacts
        <4> QED BY <4>2, <4>3 DEF WriterTake, TypeOK, LoadMessage
      <3> QED BY <2>3, <3>1, <3>2 DEF FirstIsLoad
    <2> QED BY <2>2, <2>3
  <1>7. CacheIsLogAhead'
    <2>1. SUFFICES ASSUME NEW h \in Gens, kpc[h] \in {"serve", "forward", "beat"}, wpc'[h] # "done"
                   PROVE  LogAhead(kmap[h], wch'[h], wmap'[h])
      BY DEF CacheIsLogAhead, WriterTake
    <2>2. CASE h # g
      BY <2>1, <2>2 DEF CacheIsLogAhead, WriterTake, TypeOK
    <2>3. CASE h = g
      <3>1. wch'[g] = Tail(wch[g]) /\ wmap'[g] = Apply(wmap[g], Head(wch[g]))
        BY DEF WriterTake, TypeOK
      <3>2. LogAhead(kmap[g], wch[g], wmap[g])
        BY <1>1, <2>1, <2>3 DEF CacheIsLogAhead
      <3> QED BY <1>1, <2>3, <3>1, <3>2, AheadTail
    <2> QED BY <2>2, <2>3
  <1> QED BY <1>4, <1>5, <1>6, <1>7 DEF CacheInv

\* The steps of the writer that leave the log alone.
WriterElse(g) ==
    \/ WriterLoad(g) \/ WriterCreate(g) \/ WriterTruncate(g) \/ WriterWrite(g)
    \/ WriterTimeout(g) \/ WriterDone(g) \/ WriterFail(g)

LEMMA WriterElseCache == ASSUME CacheInv, NEW g \in Gens, WriterElse(g) PROVE CacheInv'
  <1> TypeOK /\ GensInOrder /\ FirstIsLoad /\ CacheIsLogAhead
    BY DEF CacheInv
  <1> USE DEF WriterElse, WriterLoad, WriterCreate, WriterTruncate, WriterWrite, WriterTimeout,
              WriterDone, WriterFail
  <1>1. wmap[g] \in Maps /\ Parse(file) \in Maps /\ wpc[g] \notin {"none", "done"}
    BY FileFacts DEF TypeOK
  <1>2. file'.length \in Nat /\ file'.holds \in Maps \cup {Nothing}
    <2>1. file' = file \/ file' = EmptyFile \/ file' = Overwrite(file, wmap[g])
      OBVIOUS
    <2>2. file.length \in Nat /\ file.holds \in Maps \cup {Nothing}
      BY DEF TypeOK
    <2> QED BY <1>1, <2>1, <2>2, FileFacts
  <1>3. wmap' \in [Gens -> Maps]
    <2>1. wmap' = wmap \/ wmap' = [wmap EXCEPT ![g] = Parse(file)]
      OBVIOUS
    <2> HIDE DEF WriterElse
    <2> QED BY <1>1, <2>1 DEF TypeOK
  <1>9. wch' \in [Gens -> Seq(LogMessages)]
    <2>1. <<>> \in Seq(LogMessages)
      OBVIOUS
    <2>2. wch' = wch \/ wch' = [wch EXCEPT ![g] = <<>>]
      OBVIOUS
    <2>3. wch \in [Gens -> Seq(LogMessages)]
      BY DEF TypeOK
    <2> HIDE DEF WriterElse
    <2> QED BY <2>1, <2>2, <2>3
  <1>4. TypeOK'
    BY <1>2, <1>3, <1>9 DEF TypeOK
  <1>5. GensInOrder'
    BY GensAfterElse
  <1>6. \A h \in Gens : h # g => wpc'[h] = wpc[h] /\ wmap'[h] = wmap[h] /\ wch'[h] = wch[h]
    BY DEF TypeOK
  <1>7. FirstIsLoad'
    <2>1. SUFFICES ASSUME NEW h \in Gens
                   PROVE  /\ kpc[h] \in {"none", "spawned"} => wpc'[h] = "none"
                          /\ kpc[h] = "load" => wpc'[h] # "none"
                          /\ wpc'[h] \in {"none", "load", "create"} =>
                               loaded[h] = Nothing /\ kpc[h] \notin {"serve", "forward", "beat"}
                          /\ kpc[h] = "load" /\ wpc'[h] # "done" =>
                               \/ loaded[h] = Nothing /\ wch'[h] = <<LoadMessage>>
                               \/ loaded[h] = wmap'[h] /\ wch'[h] = <<>>
                          /\ kpc[h] = "forward" <=> khand[h] # Nothing
      BY DEF FirstIsLoad, LoadMessage
    <2>2. CASE h # g
      BY <1>6, <2>2 DEF FirstIsLoad, LoadMessage
    <2>3. CASE h = g
      <3>1. wpc[g] \in {"load", "create"} => loaded[g] = Nothing
        BY DEF FirstIsLoad
      <3>2. wmap' = wmap \/ wpc[g] = "load"
        OBVIOUS
      <3>3. wpc'[g] \in {"create", "serve", "truncate", "write", "beat", "done"}
        BY DEF TypeOK
      <3>4. wpc'[g] = "create" => wpc[g] = "load"
        BY DEF TypeOK
      <3>5. wpc'[g] = "done" \/ wch' = wch
        BY DEF TypeOK
      <3>6. loaded' = loaded /\ kpc' = kpc
        OBVIOUS
      <3> HIDE DEF WriterElse
      <3>7. wmap[g] # Nothing
        BY <1>1, NothingIsNoMessage
      <3> QED BY <1>1, <2>3, <3>1, <3>2, <3>3, <3>4, <3>5, <3>7 DEF FirstIsLoad, LoadMessage
    <2> QED BY <2>2, <2>3
  <1>8. CacheIsLogAhead'
    BY <1>1, <1>6 DEF CacheIsLogAhead, FirstIsLoad, TypeOK
  <1> QED BY <1>4, <1>5, <1>7, <1>8 DEF CacheInv

LEMMA InitCache == ASSUME Init PROVE CacheInv
  <1>1. 1 \in Gens /\ EmptyMap \in Maps
    BY KvAssumption DEF Gens, EmptyMap, Maps
  <1>2. TypeOK
    <2>1. \A m \in Maps : Json(m).length \in Nat /\ Json(m).holds = m
      <3>1. SUFFICES ASSUME NEW m \in Maps PROVE Json(m).length \in Nat /\ Json(m).holds = m
        OBVIOUS
      <3>2. IsFiniteSet({k \in Keys : m[k] # Nothing})
        BY KvAssumption, FS_Subset
      <3> QED BY <3>2, FS_CardinalityType DEF Json, Length
    <2>2. file.length \in Nat /\ file.holds \in Maps \cup {Nothing}
      BY <2>1 DEF Init, EmptyFile
    <2>3. \A S : <<>> \in Seq(S)
      OBVIOUS
    <2> QED BY <1>1, <2>2, <2>3, KvAssumption DEF Init, TypeOK
  <1>3. GensInOrder
    <2>1. Count(rch, ResetMessage) = 0
      BY CountEmpty DEF Init
    <2> QED BY <1>1, <2>1, ResetsCounted DEF Init, Gens
  <1>4. FirstIsLoad
    BY DEF Init, FirstIsLoad
  <1>5. CacheIsLogAhead
    BY DEF Init, CacheIsLogAhead
  <1> QED BY <1>2, <1>3, <1>4, <1>5 DEF CacheInv

LEMMA NextCache == ASSUME CacheInv, [Next]_vars PROVE CacheInv'
  <1>1. CASE UNCHANGED vars
    BY <1>1 DEF vars, CacheInv, TypeOK, GensInOrder, FirstIsLoad, CacheIsLogAhead
  <1>2. CASE \E c \in Clients : Call(c)
    BY <1>2, CallCache
  <1>3. CASE SendReset
    BY <1>3, SendResetCache
  <1>4. CASE Router
    BY <1>4, RouterTakeCache, RouterDeliverCache, RouterResetCache DEF Router
  <1>5. ASSUME NEW g \in Gens, Kv(g) PROVE CacheInv'
    BY <1>5, KvStartCache, KvLoadedCache, KvGetCache, KvTakeCache, KvForwardCache, KvBeatCache,
       KvEndCache DEF Kv
  <1>6. ASSUME NEW g \in Gens, Writer(g) PROVE CacheInv'
    BY <1>6, WriterElseCache, WriterTakeCache, KvBeatCache DEF Writer, WriterElse
  <1>7. ASSUME NEW g \in Gens, KvTimeout(g) \/ WriterTimeout(g) \/ WriterFail(g) PROVE CacheInv'
    BY <1>7, WriterElseCache, KvTimeoutCache DEF WriterElse
  <1> QED BY <1>1, <1>2, <1>3, <1>4, <1>5, <1>6, <1>7 DEF Next

\* The cache of an actor, ahead of its writer's map by the log between them, with
\* the types and the order of generations it rests on: forwarding, applying and
\* answering a write (key_value_actor) are one step for everybody else, whatever
\* aborts, timeouts and file errors come in between.
THEOREM CacheInvariant == Spec => []CacheInv
  <1>1. Init => CacheInv
    BY InitCache
  <1>2. CacheInv /\ [Next]_vars => CacheInv'
    BY NextCache
  <1> QED BY <1>1, <1>2, PTL DEF Spec

-----------------------------------------------------------------------------
(* Requests in flight.  A spot is the router (0) or an actor; the requests at *)
(* a spot are those in its channel and in its hand.                          *)

Spots == Gens \cup {0}
Waiting(c) == call[c] # Nothing /\ result[c] = Nothing
At(g) == (ToSet(Chan(g)) \cap Requests) \cup ({Hand(g)} \ {Nothing})
Flying == UNION {At(g) : g \in Spots}

\* A request that is somewhere is the last call of a caller that waits.
FlyingAreAwaited == \A m \in Flying : call[m.from] = m /\ result[m.from] = Nothing

\* The call of a caller that waits is its own and is somewhere.
AwaitedAreFlying ==
    \A c \in Clients : Waiting(c) => call[c] \in Flying /\ call[c].from = c

\* No request is in two positions of a channel, in a channel and in a hand, or at
\* two spots.
NoneTwice ==
    /\ \A g \in Spots : /\ OnceIn(Chan(g), Requests)
                        /\ Hand(g) \in Requests => Hand(g) \notin ToSet(Chan(g))
    /\ \A g, h \in Spots : At(g) \cap At(h) # {} => g = h

FlightInv == FlyingAreAwaited /\ AwaitedAreFlying /\ NoneTwice

\* Spots, their channels and their hands.
LEMMA SpotFacts ==
    ASSUME TypeOK
    PROVE  /\ 0 \in Spots /\ 0 \notin Gens /\ gen \in Gens /\ Gens \subseteq Spots
           /\ Chan(0) = rch /\ Hand(0) = rhand
           /\ Chan(0)' = rch' /\ Hand(0)' = rhand'
           /\ \A g \in Gens : Chan(g) = kch[g] /\ Hand(g) = khand[g]
           /\ \A g \in Gens : Chan(g)' = kch'[g] /\ Hand(g)' = khand'[g]
           /\ \A g \in Gens : kch[g] \in Seq(Requests)
  <1>1. 0 \in Spots /\ 0 \notin Gens /\ gen \in Gens /\ Gens \subseteq Spots
    BY DEF Spots, Gens, TypeOK
  <1>2. \A g \in Gens : g # 0
    BY <1>1
  <1>3. /\ \A g \in Gens : Chan(g) = kch[g] /\ Hand(g) = khand[g]
        /\ \A g \in Gens : Chan(g)' = kch'[g] /\ Hand(g)' = khand'[g]
    BY <1>2 DEF Chan, Hand
  <1>4. Chan(0) = rch /\ Hand(0) = rhand /\ Chan(0)' = rch' /\ Hand(0)' = rhand'
    BY DEF Chan, Hand
  <1> QED BY <1>1, <1>3, <1>4 DEF TypeOK

LEMMA SpotTypes ==
    ASSUME TypeOK, NEW g \in Spots
    PROVE  /\ Chan(g) \in Seq(RouterMessages) /\ Hand(g) \in Requests \cup {Nothing}
           /\ Nothing \notin Requests /\ At(g) \subseteq Requests
  <1>1. Chan(g) \in Seq(RouterMessages)
    <2>1. CASE g = 0
      BY <2>1, SpotFacts, RchType
    <2>2. CASE g \in Gens
      <3>1. kch[g] \in Seq(Requests) /\ Requests \subseteq RouterMessages
        BY <2>2 DEF TypeOK, RouterMessages
      <3> QED BY <2>2, <3>1, SpotFacts
    <2> QED BY <2>1, <2>2 DEF Spots
  <1>2. Hand(g) \in Requests \cup {Nothing}
    BY SpotFacts DEF Spots, TypeOK
  <1>3. Nothing \notin Requests
    BY NothingIsNoMessage
  <1> QED BY <1>1, <1>2, <1>3 DEF At

\* The rest of NoneTwice when the requests at the spots only become fewer.
LEMMA StillNoneTwice ==
    ASSUME TypeOK, NoneTwice,
           \A g \in Spots : At(g)' \subseteq At(g),
           \A g \in Spots : /\ OnceIn(Chan(g)', Requests)
                            /\ Hand(g)' \in Requests => Hand(g)' \notin ToSet(Chan(g)')
    PROVE  NoneTwice'
  <1>1. \A g \in Spots : /\ OnceIn(Chan(g), Requests)'
                         /\ (Hand(g) \in Requests => Hand(g) \notin ToSet(Chan(g)))'
    BY DEF OnceIn, ToSet
  <1>2. \A g, h \in Spots : At(g)' \cap At(h)' # {} => g = h
    BY DEF NoneTwice
  <1> QED BY <1>1, <1>2 DEF NoneTwice

\* The spots other than s are as they were.
Elsewhere(s) == \A g \in Spots \ {s} : Chan(g)' = Chan(g) /\ Hand(g)' = Hand(g)

\* The first message of a channel is taken and is gone.
LEMMA PopFlight ==
    ASSUME TypeOK, NoneTwice, NEW s \in Spots, Elsewhere(s), Chan(s) # <<>>,
           Chan(s)' = Tail(Chan(s)), Hand(s)' = Hand(s)
    PROVE  NoneTwice' /\ Flying' = Flying \ {Head(Chan(s))}
  <1>1. \A g \in Spots \ {s} : At(g)' = At(g)
    BY DEF Elsewhere, At
  <1>2. /\ Chan(s) \in Seq(RouterMessages) /\ Nothing \notin Requests
        /\ Hand(s) \in Requests \cup {Nothing}
    BY SpotTypes
  <1>3. ToSet(Chan(s)) = ToSet(Chan(s)') \cup {Head(Chan(s))}
    BY <1>2, TailElements
  <1>4. /\ OnceIn(Chan(s)', Requests)
        /\ Head(Chan(s)) \in Requests => Head(Chan(s)) \notin ToSet(Chan(s)')
    <2>1. OnceIn(Chan(s), Requests)
      BY DEF NoneTwice
    <2> QED BY <1>2, <2>1, PopOnceIn
  <1>5. At(s)' = At(s) \ {Head(Chan(s))}
    <2>1. Hand(s) \in Requests => Hand(s) \notin ToSet(Chan(s))
      BY DEF NoneTwice
    <2>2. At(s)' = (ToSet(Chan(s)') \cap Requests) \cup ({Hand(s)} \ {Nothing})
      BY DEF At
    <2>3. Hand(s) # Nothing => Hand(s) # Head(Chan(s))
      BY <1>2, <1>3, <2>1
    <2> QED BY <1>2, <1>3, <1>4, <2>2, <2>3 DEF At
  <1>6. \A g \in Spots \ {s} : Head(Chan(s)) \notin At(g)
    <2>1. Head(Chan(s)) \in Requests => Head(Chan(s)) \in At(s)
      BY <1>3 DEF At
    <2>2. \A g \in Spots : At(g) \subseteq Requests
      BY SpotTypes
    <2> QED BY <2>1, <2>2 DEF NoneTwice
  <1>7. \A g \in Spots : At(g)' = At(g) \ {Head(Chan(s))}
    BY <1>1, <1>5, <1>6
  <1>8. Flying' = Flying \ {Head(Chan(s))}
    <2>1. Flying' = UNION {At(g)' : g \in Spots}
      BY DEF Flying, Spots, Gens
    <2> QED BY <1>7, <2>1 DEF Flying
  <1>9. \A g \in Spots : /\ OnceIn(Chan(g)', Requests)
                         /\ Hand(g)' \in Requests => Hand(g)' \notin ToSet(Chan(g)')
    BY <1>3, <1>4 DEF Elsewhere, NoneTwice
  <1> QED BY <1>7, <1>8, <1>9, StillNoneTwice

\* The first message of a channel is taken in hand.
LEMMA TakeFlight ==
    ASSUME TypeOK, NoneTwice, NEW s \in Spots, Elsewhere(s), Chan(s) # <<>>,
           Head(Chan(s)) \in Requests, Hand(s) = Nothing,
           Chan(s)' = Tail(Chan(s)), Hand(s)' = Head(Chan(s))
    PROVE  NoneTwice' /\ Flying' = Flying
  <1>1. Chan(s) \in Seq(RouterMessages) /\ Nothing \notin Requests
    BY SpotTypes
  <1>2. ToSet(Chan(s)) = ToSet(Chan(s)') \cup {Head(Chan(s))}
    BY <1>1, TailElements
  <1>3. OnceIn(Chan(s)', Requests) /\ Head(Chan(s)) \notin ToSet(Chan(s)')
    <2>1. OnceIn(Chan(s), Requests)
      BY DEF NoneTwice
    <2> QED BY <1>1, <2>1, PopOnceIn
  <1>4. At(s)' = At(s)
    <2>1. At(s)' = (ToSet(Chan(s)') \cap Requests) \cup ({Head(Chan(s))} \ {Nothing})
      BY DEF At
    <2> QED BY <1>1, <1>2, <2>1 DEF At
  <1>5. \A g \in Spots : At(g)' = At(g)
    BY <1>4 DEF Elsewhere, At
  <1>6. Flying' = Flying
    <2>1. Flying' = UNION {At(g)' : g \in Spots}
      BY DEF Flying, Spots, Gens
    <2> QED BY <1>5, <2>1 DEF Flying
  <1>7. \A g \in Spots : /\ OnceIn(Chan(g)', Requests)
                         /\ Hand(g)' \in Requests => Hand(g)' \notin ToSet(Chan(g)')
    BY <1>3 DEF Elsewhere, NoneTwice
  <1> QED BY <1>5, <1>6, <1>7, StillNoneTwice

\* The request in a hand is done with.
LEMMA HandFlight ==
    ASSUME TypeOK, NoneTwice, NEW s \in Spots, Elsewhere(s), Hand(s) \in Requests,
           Chan(s)' = Chan(s), Hand(s)' = Nothing
    PROVE  NoneTwice' /\ Flying' = Flying \ {Hand(s)}
  <1>1. Nothing \notin Requests
    BY SpotTypes
  <1>2. Hand(s) \notin ToSet(Chan(s)) /\ Hand(s) \in At(s)
    BY <1>1 DEF NoneTwice, At
  <1>3. At(s)' = At(s) \ {Hand(s)}
    <2>1. At(s)' = ToSet(Chan(s)) \cap Requests
      BY DEF At
    <2> QED BY <1>2, <2>1 DEF At
  <1>4. \A g \in Spots \ {s} : At(g)' = At(g) /\ Hand(s) \notin At(g)
    BY <1>2 DEF Elsewhere, At, NoneTwice
  <1>5. \A g \in Spots : At(g)' = At(g) \ {Hand(s)}
    BY <1>3, <1>4
  <1>6. Flying' = Flying \ {Hand(s)}
    <2>1. Flying' = UNION {At(g)' : g \in Spots}
      BY DEF Flying, Spots, Gens
    <2> QED BY <1>5, <2>1 DEF Flying
  <1>7. \A g \in Spots : /\ OnceIn(Chan(g)', Requests)
                         /\ Hand(g)' \in Requests => Hand(g)' \notin ToSet(Chan(g)')
    BY <1>1 DEF Elsewhere, NoneTwice
  <1> QED BY <1>5, <1>6, <1>7, StillNoneTwice

\* All requests at a spot are dropped.
LEMMA DropFlight ==
    ASSUME TypeOK, NoneTwice, NEW s \in Spots, Elsewhere(s), Chan(s)' = <<>>, Hand(s)' = Nothing
    PROVE  NoneTwice' /\ Flying' = Flying \ At(s)
  <1>1. Nothing \notin Requests
    BY SpotTypes
  <1>2. At(s)' = {}
    <2>1. At(s)' = ToSet(<<>>) \cap Requests
      BY DEF At
    <2> QED BY <2>1, EmptyToSet
  <1>3. \A g \in Spots \ {s} : At(g)' = At(g) /\ At(s) \cap At(g) = {}
    BY DEF Elsewhere, At, NoneTwice
  <1>4. \A g \in Spots : At(g)' = At(g) \ At(s)
    BY <1>2, <1>3
  <1>5. Flying' = Flying \ At(s)
    <2>1. Flying' = UNION {At(g)' : g \in Spots}
      BY DEF Flying, Spots, Gens
    <2> QED BY <1>4, <2>1 DEF Flying
  <1>6. \A g \in Spots : /\ OnceIn(Chan(g)', Requests)
                         /\ Hand(g)' \in Requests => Hand(g)' \notin ToSet(Chan(g)')
    BY <1>1 DEF Elsewhere, NoneTwice, OnceIn
  <1> QED BY <1>4, <1>5, <1>6, StillNoneTwice

\* A message is sent to the router, a request only if it is nowhere.
LEMMA PushFlight ==
    ASSUME TypeOK, NoneTwice, Elsewhere(0), NEW m \in RouterMessages, m \notin Flying,
           Chan(0)' = Append(Chan(0), m), Hand(0)' = Hand(0)
    PROVE  NoneTwice' /\ Flying' = Flying \cup ({m} \cap Requests)
  <1>1. /\ 0 \in Spots /\ Chan(0) \in Seq(RouterMessages) /\ Nothing \notin Requests
        /\ Hand(0) \in Requests \cup {Nothing}
    BY SpotFacts, SpotTypes
  <1>2. ToSet(Chan(0)') = ToSet(Chan(0)) \cup {m}
    BY <1>1, AppendElements
  <1>3. m \notin At(0)
    BY <1>1 DEF Flying
  <1>4. OnceIn(Chan(0)', Requests)
    <2>1. OnceIn(Chan(0), Requests)
      BY <1>1 DEF NoneTwice
    <2>2. m \in Requests => m \notin ToSet(Chan(0))
      BY <1>3 DEF At
    <2> QED BY <1>1, <2>1, <2>2, PushOnceIn
  <1>5. At(0)' = At(0) \cup ({m} \cap Requests)
    <2>1. At(0)' = (ToSet(Chan(0)') \cap Requests) \cup ({Hand(0)} \ {Nothing})
      BY DEF At
    <2> QED BY <1>2, <2>1 DEF At
  <1>6. \A g \in Spots \ {0} : At(g)' = At(g) /\ m \notin At(g)
    BY DEF Elsewhere, At, Flying
  <1>7. Flying' = Flying \cup ({m} \cap Requests)
    <2>1. Flying' = UNION {At(g)' : g \in Spots}
      BY DEF Flying, Spots, Gens
    <2> QED BY <1>1, <1>5, <1>6, <2>1 DEF Flying
  <1>8. \A g \in Spots : /\ OnceIn(Chan(g)', Requests)
                         /\ Hand(g)' \in Requests => Hand(g)' \notin ToSet(Chan(g)')
    <2>1. Hand(0)' \in Requests => Hand(0)' \notin ToSet(Chan(0)')
      BY <1>1, <1>2, <1>3 DEF At, NoneTwice
    <2> QED BY <1>4, <2>1 DEF Elsewhere, NoneTwice
  <1>9. \A g, h \in Spots : At(g)' \cap At(h)' # {} => g = h
    BY <1>5, <1>6 DEF NoneTwice
  <1>10. \A g \in Spots : /\ OnceIn(Chan(g), Requests)'
                          /\ (Hand(g) \in Requests => Hand(g) \notin ToSet(Chan(g)))'
    BY <1>8 DEF OnceIn, ToSet
  <1> QED BY <1>7, <1>9, <1>10 DEF NoneTwice

\* The router's request goes into the channel of actor g.
LEMMA DeliverFlight ==
    ASSUME TypeOK, NoneTwice, NEW g \in Gens, Hand(0) \in Requests,
           \A h \in Spots \ {0, g} : Chan(h)' = Chan(h) /\ Hand(h)' = Hand(h),
           Chan(0)' = Chan(0), Hand(0)' = Nothing,
           Chan(g)' = Append(Chan(g), Hand(0)), Hand(g)' = Hand(g)
    PROVE  NoneTwice' /\ Flying' = Flying
  <1> DEFINE m == Hand(0)
  <1>1. /\ 0 \in Spots /\ g \in Spots /\ g # 0 /\ Nothing \notin Requests /\ m \in RouterMessages
        /\ Chan(g) \in Seq(RouterMessages) /\ Hand(g) \in Requests \cup {Nothing}
    BY SpotFacts, SpotTypes DEF RouterMessages
  <1>2. ToSet(Chan(g)') = ToSet(Chan(g)) \cup {m}
    BY <1>1, AppendElements
  <1>3. m \in At(0) /\ m \notin ToSet(Chan(0)) /\ m \notin At(g)
    BY <1>1 DEF At, NoneTwice
  <1>4. OnceIn(Chan(g)', Requests)
    <2>1. OnceIn(Chan(g), Requests)
      BY <1>1 DEF NoneTwice
    <2>2. m \notin ToSet(Chan(g))
      BY <1>3 DEF At
    <2> QED BY <1>1, <2>1, <2>2, PushOnceIn
  <1>5. At(0)' = At(0) \ {m}
    <2>1. At(0)' = ToSet(Chan(0)) \cap Requests
      BY DEF At
    <2> QED BY <1>3, <2>1 DEF At
  <1>6. At(g)' = At(g) \cup {m}
    <2>1. At(g)' = (ToSet(Chan(g)') \cap Requests) \cup ({Hand(g)} \ {Nothing})
      BY DEF At
    <2> QED BY <1>2, <2>1 DEF At
  <1>7. \A h \in Spots \ {0, g} : At(h)' = At(h) /\ m \notin At(h)
    BY <1>1, <1>3 DEF At, NoneTwice
  <1>8. Flying' = Flying
    <2>1. Flying' = UNION {At(h)' : h \in Spots}
      BY DEF Flying, Spots, Gens
    <2>2. ASSUME NEW x PROVE x \in UNION {At(h)' : h \in Spots} <=> x \in UNION {At(h) : h \in Spots}
      BY <1>1, <1>3, <1>5, <1>6, <1>7
    <2> QED BY <2>1, <2>2 DEF Flying
  <1>9. \A h \in Spots : /\ OnceIn(Chan(h)', Requests)
                         /\ Hand(h)' \in Requests => Hand(h)' \notin ToSet(Chan(h)')
    <2>1. Hand(g)' \in Requests => Hand(g)' \notin ToSet(Chan(g)')
      BY <1>1, <1>2, <1>3 DEF At, NoneTwice
    <2> QED BY <1>1, <1>4, <2>1 DEF NoneTwice
  <1>10. \A h, k \in Spots : At(h)' \cap At(k)' # {} => h = k
    <2> HIDE DEF m
    <2>1. \A h, k \in Spots : At(h) \cap At(k) # {} => h = k
      BY DEF NoneTwice
    <2>2. \A h \in Spots \ {g} : At(h)' \subseteq At(h) /\ m \notin At(h)'
      BY <1>1, <1>5, <1>7
    <2> QED BY <1>6, <2>1, <2>2
  <1>11. \A h \in Spots : /\ OnceIn(Chan(h), Requests)'
                          /\ (Hand(h) \in Requests => Hand(h) \notin ToSet(Chan(h)))'
    BY <1>9 DEF OnceIn, ToSet
  <1> QED BY <1>8, <1>10, <1>11 DEF NoneTwice

LEMMA FlyingAreRequests == ASSUME TypeOK PROVE Flying \subseteq Requests
  BY SpotTypes DEF Flying

\* Requests that are gone are answered or dropped, and no others.
LEMMA FlightFrom ==
    ASSUME TypeOK, FlightInv, NoneTwice', call' = call, NEW gone, Flying' = Flying \ gone,
           \A c \in Clients :
               result'[c] = Nothing <=>
                   result[c] = Nothing /\ ~ \E m \in gone \cap Flying : m.from = c
    PROVE  FlightInv'
  <1> FlyingAreAwaited /\ AwaitedAreFlying
    BY DEF FlightInv
  <1>1. \A m \in Flying : m.from \in Clients /\ call[m.from] = m
    BY FlyingAreRequests, RequestFacts DEF FlyingAreAwaited
  <1>2. ASSUME NEW m \in Flying'
        PROVE  call'[m.from] = m /\ result'[m.from] = Nothing
    <2>1. m \in Flying /\ m \notin gone
      BY <1>2
    <2>2. ~ \E n \in gone \cap Flying : n.from = m.from
      BY <1>1, <2>1
    <2> QED BY <1>1, <2>1, <2>2 DEF FlyingAreAwaited
  <1>3. ASSUME NEW c \in Clients, Waiting(c)'
        PROVE  call'[c] \in Flying' /\ call'[c].from = c
    <2>1. Waiting(c) /\ ~ \E m \in gone \cap Flying : m.from = c
      BY <1>3 DEF Waiting
    <2>2. call[c] \in Flying /\ call[c].from = c
      BY <2>1 DEF AwaitedAreFlying
    <2> QED BY <2>1, <2>2
  <1>4. FlyingAreAwaited'
    BY <1>2 DEF FlyingAreAwaited
  <1>5. AwaitedAreFlying'
    BY <1>3 DEF AwaitedAreFlying
  <1> QED BY <1>4, <1>5 DEF FlightInv

\* What a step leaves alone, by who takes it.
LEMMA ActorElsewhere ==
    ASSUME TypeOK, NEW g \in Gens, UNCHANGED <<rch, rhand>>,
           \A h \in Gens \ {g} : kch'[h] = kch[h] /\ khand'[h] = khand[h]
    PROVE  Elsewhere(g)
  BY SpotFacts DEF Elsewhere, Spots

LEMMA RouterElsewhere == ASSUME TypeOK, UNCHANGED <<kch, khand>> PROVE Elsewhere(0)
  BY SpotFacts DEF Elsewhere, Spots

LEMMA CallFlight == ASSUME TypeOK, FlightInv, NEW c \in Clients, Call(c) PROVE FlightInv'
  <1> FlyingAreAwaited /\ AwaitedAreFlying /\ NoneTwice
    BY DEF FlightInv
  <1>1. PICK op \in Op(c) : call' = [call EXCEPT ![c] = op] /\ rch' = Append(rch, op)
    BY DEF Call
  <1>2. op \in Requests /\ op.from = c /\ op \in RouterMessages /\ op # Nothing
    BY <1>1, OpFacts, RequestFacts DEF RouterMessages
  <1>3. ~Waiting(c) /\ result' = [result EXCEPT ![c] = Nothing] /\ UNCHANGED <<rhand, kch, khand>>
    BY DEF Call, Free, Waiting
  <1>4. \A m \in Flying : m.from \in Clients /\ m.from # c
    <2>1. \A m \in Flying : m \in Requests /\ call[m.from] = m /\ result[m.from] = Nothing
      BY FlyingAreRequests DEF FlyingAreAwaited
    <2> QED BY <1>3, <2>1, RequestFacts DEF Waiting
  <1>5. NoneTwice' /\ Flying' = Flying \cup {op}
    <2>1. op \notin Flying
      BY <1>2, <1>4
    <2>2. Elsewhere(0) /\ Chan(0)' = Append(Chan(0), op) /\ Hand(0)' = Hand(0)
      BY <1>1, <1>3, RouterElsewhere, SpotFacts
    <2>3. NoneTwice' /\ Flying' = Flying \cup ({op} \cap Requests)
      BY <1>2, <2>1, <2>2, PushFlight
    <2> QED BY <1>2, <2>3
  <1>6. FlyingAreAwaited'
    BY <1>1, <1>2, <1>3, <1>4, <1>5 DEF FlyingAreAwaited, TypeOK
  <1>7. AwaitedAreFlying'
    <2>1. SUFFICES ASSUME NEW d \in Clients, Waiting(d)'
                   PROVE  call'[d] \in Flying' /\ call'[d].from = d
      BY DEF AwaitedAreFlying
    <2>2. CASE d = c
      BY <1>1, <1>2, <1>5, <2>2 DEF TypeOK
    <2>3. CASE d # c
      <3>1. call'[d] = call[d] /\ Waiting(d)
        BY <1>1, <1>3, <2>1, <2>3 DEF Waiting, TypeOK
      <3> QED BY <1>5, <3>1 DEF AwaitedAreFlying
    <2> QED BY <2>2, <2>3
  <1> QED BY <1>5, <1>6, <1>7 DEF FlightInv

\* Messages that are no requests come and go.
LEMMA NoteFlight ==
    ASSUME TypeOK, FlightInv,
           SendReset \/ \E g \in Gens : KvBeat(g) \/ WriterBeat(g)
    PROVE  FlightInv'
  <1> NoneTwice
    BY DEF FlightInv
  <1>1. PICK m \in {ResetMessage, BeatMessage} : rch' = Append(rch, m)
    BY DEF SendReset, KvBeat, WriterBeat, ResetMessage, BeatMessage
  <1>2. UNCHANGED <<call, result, rhand, kch, khand>>
    BY DEF SendReset, KvBeat, WriterBeat
  <1>3. m \in RouterMessages /\ m \notin Requests
    BY <1>1, RequestFacts DEF RouterMessages
  <1>4. Elsewhere(0) /\ Chan(0)' = Append(Chan(0), m) /\ Hand(0)' = Hand(0)
    BY <1>1, <1>2, RouterElsewhere, SpotFacts
  <1>5. NoneTwice' /\ Flying' = Flying \cup ({m} \cap Requests)
    BY <1>3, <1>4, PushFlight, FlyingAreRequests
  <1>6. Flying' = Flying \ {} /\ call' = call
    BY <1>2, <1>3, <1>5
  <1>7. \A c \in Clients :
          result'[c] = Nothing <=> result[c] = Nothing /\ ~ \E n \in {} \cap Flying : n.from = c
    BY <1>2
  <1> QED BY <1>5, <1>6, <1>7, FlightFrom

LEMMA RouterSkipFlight == ASSUME TypeOK, FlightInv, RouterBeat \/ RouterReset PROVE FlightInv'
  <1> NoneTwice
    BY DEF FlightInv
  <1>1. /\ rch # <<>> /\ rch' = Tail(rch) /\ Head(rch).kind \in {"beat", "reset"}
        /\ UNCHANGED <<call, result, rhand, kch, khand>>
    BY DEF RouterBeat, RouterReset
  <1>2. Head(rch) \notin Requests
    BY <1>1, RequestFacts
  <1>3. /\ Elsewhere(0) /\ 0 \in Spots /\ Chan(0) # <<>> /\ Chan(0)' = Tail(Chan(0))
        /\ Hand(0)' = Hand(0) /\ Head(Chan(0)) \notin Requests
    BY <1>1, <1>2, RouterElsewhere, SpotFacts
  <1>4. NoneTwice' /\ Flying' = Flying \ {Head(Chan(0))}
    BY <1>3, PopFlight
  <1>5. Flying' = Flying \ {}
    BY <1>3, <1>4, FlyingAreRequests
  <1> QED BY <1>1, <1>4, <1>5, FlightFrom

LEMMA RouterTakeFlight == ASSUME TypeOK, FlightInv, RouterTake PROVE FlightInv'
  <1> NoneTwice
    BY DEF FlightInv
  <1>1. /\ rhand = Nothing /\ rch # <<>> /\ rch' = Tail(rch) /\ rhand' = Head(rch)
        /\ Head(rch).kind \in {"set", "get", "delete"} /\ UNCHANGED <<call, result, kch, khand>>
    BY DEF RouterTake
  <1>2. Head(rch) \in Requests
    BY <1>1, RchType, TailElements, RouterMessageFacts
  <1>3. /\ Elsewhere(0) /\ 0 \in Spots /\ Chan(0) # <<>> /\ Chan(0)' = Tail(Chan(0))
        /\ Hand(0) = Nothing /\ Hand(0)' = Head(Chan(0)) /\ Head(Chan(0)) \in Requests
    BY <1>1, <1>2, RouterElsewhere, SpotFacts
  <1>4. NoneTwice' /\ Flying' = Flying
    BY <1>3, TakeFlight
  <1>5. Flying' = Flying \ {}
    BY <1>4
  <1> QED BY <1>1, <1>4, <1>5, FlightFrom

LEMMA RouterDeliverFlight == ASSUME TypeOK, FlightInv, RouterDeliver PROVE FlightInv'
  <1> NoneTwice
    BY DEF FlightInv
  <1>1. rhand \in Requests /\ Hand(0) = rhand /\ 0 \in Spots /\ gen \in Gens
    BY SpotFacts DEF RouterDeliver, TypeOK
  <1>2. Hand(0)' = Nothing /\ Chan(0)' = Chan(0) /\ UNCHANGED <<call, khand>>
    BY SpotFacts DEF RouterDeliver
  <1>3. CASE kpc[gen] = "dead"
    <2>1. Drop({rhand}) /\ UNCHANGED kch
      BY <1>3 DEF RouterDeliver
    <2>2. Elsewhere(0)
      BY <1>2, <2>1, RouterElsewhere
    <2>3. NoneTwice' /\ Flying' = Flying \ {rhand}
      BY <1>1, <1>2, <2>2, HandFlight
    <2>4. rhand \in Flying /\ rhand # Nothing
      <3>1. rhand # Nothing
        BY <1>1, RequestFacts
      <3> QED BY <1>1, <3>1 DEF Flying, At
    <2>5. \A c \in Clients :
            result'[c] = Nothing <=> result[c] = Nothing /\ ~ \E m \in {rhand} \cap Flying : m.from = c
      BY <2>1, <2>4, KvAssumption DEF Drop
    <2> QED BY <1>2, <2>3, <2>5, FlightFrom
  <1>4. CASE kpc[gen] # "dead"
    <2>1. PICK g \in Gens : g = gen
      BY <1>1
    <2>2. kch' = [kch EXCEPT ![g] = Append(@, rhand)] /\ UNCHANGED result
      BY <1>4, <2>1 DEF RouterDeliver
    <2>3. kch'[g] = Append(kch[g], rhand) /\ \A h \in Gens \ {g} : kch'[h] = kch[h]
      BY <2>2 DEF TypeOK
    <2>4. /\ Chan(g)' = Append(Chan(g), Hand(0)) /\ Hand(g)' = Hand(g)
          /\ \A h \in Spots \ {0, g} : Chan(h)' = Chan(h) /\ Hand(h)' = Hand(h)
      BY <1>1, <1>2, <2>3, SpotFacts DEF Spots
    <2>5. Hand(0) \in Requests
      BY <1>1
    <2>6. NoneTwice' /\ Flying' = Flying
      BY <1>2, <2>4, <2>5, DeliverFlight
    <2>7. Flying' = Flying \ {}
      BY <2>6
    <2> QED BY <1>2, <2>2, <2>6, <2>7, FlightFrom
  <1> QED BY <1>3, <1>4

LEMMA KvTakeFlight == ASSUME CacheInv, FlightInv, NEW g \in Gens, KvTake(g) PROVE FlightInv'
  <1> TypeOK /\ FirstIsLoad /\ NoneTwice
    BY DEF FlightInv, CacheInv
  <1>1. /\ kpc[g] = "serve" /\ kch[g] # <<>> /\ khand' = [khand EXCEPT ![g] = Head(kch[g])]
        /\ kch' = [kch EXCEPT ![g] = Tail(@)] /\ UNCHANGED <<call, result, rch, rhand>>
    BY DEF KvTake
  <1>2. khand[g] = Nothing
    BY <1>1 DEF FirstIsLoad
  <1>3. Head(kch[g]) \in Requests
    BY <1>1, TailElements DEF TypeOK
  <1>4. /\ g \in Spots /\ Chan(g) # <<>> /\ Chan(g)' = Tail(Chan(g)) /\ Hand(g) = Nothing
        /\ Hand(g)' = Head(Chan(g)) /\ Head(Chan(g)) \in Requests
    BY <1>1, <1>2, <1>3, SpotFacts DEF TypeOK
  <1>5. Elsewhere(g)
    BY <1>1, ActorElsewhere DEF TypeOK
  <1>6. NoneTwice' /\ Flying' = Flying
    BY <1>4, <1>5, TakeFlight
  <1>7. Flying' = Flying \ {}
    BY <1>6
  <1> QED BY <1>1, <1>6, <1>7, FlightFrom

LEMMA KvGetFlight == ASSUME TypeOK, FlightInv, NEW g \in Gens, KvGet(g) PROVE FlightInv'
  <1> NoneTwice
    BY DEF FlightInv
  <1> DEFINE op == Head(kch[g])
  <1>1. /\ kch[g] # <<>> /\ result' = [result EXCEPT ![op.from] = Answer(kmap[g], op)]
        /\ kch' = [kch EXCEPT ![g] = Tail(@)] /\ UNCHANGED <<call, rch, rhand, khand>>
    BY DEF KvGet
  <1>2. op \in Requests /\ ToSet(kch[g]) = ToSet(Tail(kch[g])) \cup {op} /\ kmap[g] \in Maps
    BY <1>1, TailElements DEF TypeOK
  <1> HIDE DEF op
  <1>3. op.from \in Clients /\ Answer(kmap[g], op) # Nothing
    BY <1>2, RequestFacts, AnswerType, KvAssumption
  <1>4. /\ g \in Spots /\ Chan(g) # <<>> /\ Chan(g)' = Tail(Chan(g)) /\ Hand(g)' = Hand(g)
        /\ Head(Chan(g)) = op /\ Chan(g) = kch[g]
    BY <1>1, SpotFacts DEF TypeOK, op
  <1>5. Elsewhere(g)
    BY <1>1, ActorElsewhere DEF TypeOK
  <1>6. NoneTwice' /\ Flying' = Flying \ {op}
    BY <1>4, <1>5, PopFlight
  <1>7. op \in Flying
    BY <1>2, <1>4 DEF Flying, At
  <1>8. \A c \in Clients :
          result'[c] = Nothing <=> result[c] = Nothing /\ ~ \E m \in {op} \cap Flying : m.from = c
    BY <1>1, <1>3, <1>7 DEF TypeOK
  <1> QED BY <1>1, <1>6, <1>8, FlightFrom

LEMMA KvForwardFlight == ASSUME CacheInv, FlightInv, NEW g \in Gens, KvForward(g) PROVE FlightInv'
  <1> TypeOK /\ FirstIsLoad /\ NoneTwice
    BY DEF FlightInv, CacheInv
  <1> DEFINE op == khand[g]
  <1>1. /\ result' = [result EXCEPT ![op.from] = Answer(kmap[g], op)]
        /\ khand' = [khand EXCEPT ![g] = Nothing] /\ UNCHANGED <<call, rch, rhand, kch>>
    BY DEF KvForward
  <1>2. op \in Requests /\ op # Nothing /\ kmap[g] \in Maps
    BY DEF KvForward, FirstIsLoad, TypeOK
  <1> HIDE DEF op
  <1>3. op.from \in Clients /\ Answer(kmap[g], op) # Nothing
    BY <1>2, RequestFacts, AnswerType, KvAssumption
  <1>4. /\ g \in Spots /\ Chan(g)' = Chan(g) /\ Hand(g)' = Nothing /\ Hand(g) = op
    BY <1>1, SpotFacts DEF TypeOK, op
  <1>5. Elsewhere(g)
    BY <1>1, ActorElsewhere DEF TypeOK
  <1>6. NoneTwice' /\ Flying' = Flying \ {op}
    BY <1>2, <1>4, <1>5, HandFlight
  <1>7. op \in Flying
    BY <1>2, <1>4 DEF Flying, At
  <1>8. \A c \in Clients :
          result'[c] = Nothing <=> result[c] = Nothing /\ ~ \E m \in {op} \cap Flying : m.from = c
    BY <1>1, <1>3, <1>7 DEF TypeOK
  <1> QED BY <1>1, <1>6, <1>8, FlightFrom

LEMMA KvEndFlight == ASSUME TypeOK, FlightInv, NEW g \in Gens, KvEnd(g) PROVE FlightInv'
  <1> NoneTwice
    BY DEF FlightInv
  <1> DEFINE ops == ToSet(kch[g]) \cup ({khand[g]} \ {Nothing})
  <1>1. /\ Drop(ops) /\ kch' = [kch EXCEPT ![g] = <<>>] /\ khand' = [khand EXCEPT ![g] = Nothing]
        /\ UNCHANGED <<call, rch, rhand>>
    BY DEF KvEnd
  <1>2. /\ g \in Spots /\ Chan(g)' = <<>> /\ Hand(g)' = Nothing
        /\ Chan(g) = kch[g] /\ Hand(g) = khand[g] /\ kch[g] \in Seq(Requests)
    BY <1>1, SpotFacts DEF TypeOK
  <1>3. ops = At(g) /\ ops \subseteq Flying
    <2>1. ToSet(kch[g]) \subseteq Requests
      BY <1>2 DEF ToSet
    <2> QED BY <1>2, <2>1 DEF At, Flying
  <1>4. Elsewhere(g)
    BY <1>1, ActorElsewhere DEF TypeOK
  <1>5. NoneTwice' /\ Flying' = Flying \ ops
    BY <1>2, <1>3, <1>4, DropFlight
  <1> HIDE DEF ops
  <1>6. \A c \in Clients :
          result'[c] = Nothing <=> result[c] = Nothing /\ ~ \E m \in ops \cap Flying : m.from = c
    BY <1>1, <1>3, KvAssumption DEF Drop
  <1> QED BY <1>1, <1>5, <1>6, FlightFrom

LEMMA QuietFlight ==
    ASSUME FlightInv, UNCHANGED <<call, result, rch, rhand, kch, khand>>
    PROVE  FlightInv'
  BY DEF FlightInv, FlyingAreAwaited, AwaitedAreFlying, NoneTwice, Waiting, Flying, At, Chan, Hand

LEMMA InitFlight == ASSUME Init PROVE FlightInv
  <1>1. TypeOK
    BY InitCache DEF CacheInv
  <1>2. \A g \in Spots : Chan(g) = <<>> /\ Hand(g) = Nothing
    BY DEF Init, Spots, Chan, Hand
  <1>3. \A g \in Spots : At(g) = {}
    BY <1>2, EmptyToSet DEF At
  <1>4. Nothing \notin Requests
    BY NothingIsNoMessage
  <1>5. NoneTwice
    BY <1>2, <1>3, <1>4 DEF NoneTwice, OnceIn
  <1>6. Flying = {} /\ \A c \in Clients : ~Waiting(c)
    BY <1>3 DEF Init, Flying, Waiting
  <1> QED BY <1>5, <1>6 DEF FlightInv, FlyingAreAwaited, AwaitedAreFlying

LEMMA NextFlight == ASSUME CacheInv, FlightInv, [Next]_vars PROVE FlightInv'
  <1> TypeOK
    BY DEF CacheInv
  <1>1. CASE UNCHANGED vars
    BY <1>1, QuietFlight DEF vars
  <1>2. CASE \E c \in Clients : Call(c)
    BY <1>2, CallFlight
  <1>3. CASE SendReset
    BY <1>3, NoteFlight
  <1>4. CASE Router
    BY <1>4, RouterTakeFlight, RouterDeliverFlight, RouterSkipFlight DEF Router
  <1>5. ASSUME NEW g \in Gens, Kv(g) PROVE FlightInv'
    <2>1. CASE KvStart(g) \/ KvLoaded(g)
      BY <2>1, QuietFlight DEF KvStart, KvLoaded
    <2> QED BY <1>5, <2>1, KvGetFlight, KvTakeFlight, KvForwardFlight, NoteFlight, KvEndFlight DEF Kv
  <1>6. ASSUME NEW g \in Gens, Writer(g) PROVE FlightInv'
    <2>1. CASE WriterBeat(g)
      BY <2>1, NoteFlight
    <2>2. CASE ~WriterBeat(g)
      BY <1>6, <2>2, QuietFlight
         DEF Writer, WriterLoad, WriterCreate, WriterTake, WriterTruncate, WriterWrite, WriterDone
    <2> QED BY <2>1, <2>2
  <1>7. ASSUME NEW g \in Gens, KvTimeout(g) \/ WriterTimeout(g) \/ WriterFail(g) PROVE FlightInv'
    BY <1>7, QuietFlight DEF KvTimeout, WriterTimeout, WriterFail
  <1> QED BY <1>1, <1>2, <1>3, <1>4, <1>5, <1>6, <1>7 DEF Next

\* What is in a place of c is its call, which waits there.
LEMMA PlaceFacts ==
    ASSUME TypeOK, FlightInv, NEW c \in Clients, NEW g \in Spots, NEW i
    PROVE  i \in PlacesAt(g, c) <=>
             /\ Waiting(c)
             /\ \/ i \in 1 .. Len(Chan(g)) /\ Chan(g)[i] = call[c]
                \/ i = 0 /\ Hand(g) = call[c]
  <1> FlyingAreAwaited /\ AwaitedAreFlying
    BY DEF FlightInv
  <1>1. /\ Chan(g) \in Seq(RouterMessages) /\ Hand(g) \in Requests \cup {Nothing}
        /\ Nothing \notin Requests /\ DOMAIN Chan(g) = 1 .. Len(Chan(g))
    BY SpotTypes
  <1>2. \A j \in 1 .. Len(Chan(g)) :
          /\ Chan(g)[j] \in RouterMessages
          /\ Chan(g)[j].kind \in {"set", "get", "delete"} <=> Chan(g)[j] \in Requests
          /\ Chan(g)[j] \in Requests => Chan(g)[j] \in Flying
    <2>1. \A j \in 1 .. Len(Chan(g)) : Chan(g)[j] \in RouterMessages /\ Chan(g)[j] \in ToSet(Chan(g))
      BY <1>1 DEF ToSet
    <2> QED BY <2>1, RouterMessageFacts DEF Flying, At
  <1>3. Hand(g) # Nothing => Hand(g) \in Flying
    BY DEF Flying, At
  <1>4. \A m \in Flying : m \in Requests /\ (m.from = c => m = call[c] /\ Waiting(c))
    BY <1>1, FlyingAreRequests DEF FlyingAreAwaited, Waiting
  <1>5. Waiting(c) => call[c] \in Requests /\ call[c].from = c
    BY FlyingAreRequests DEF AwaitedAreFlying
  <1>6. i \in PlacesAt(g, c) <=>
          \/ /\ i \in 1 .. Len(Chan(g)) /\ Chan(g)[i].from = c
             /\ Chan(g)[i].kind \in {"set", "get", "delete"}
          \/ i = 0 /\ Hand(g) # Nothing /\ Hand(g).from = c
    BY <1>1 DEF PlacesAt
  <1>7. ASSUME i \in 1 .. Len(Chan(g))
        PROVE  Chan(g)[i].from = c /\ Chan(g)[i].kind \in {"set", "get", "delete"}
                 <=> Waiting(c) /\ Chan(g)[i] = call[c]
    BY <1>2, <1>4, <1>5, <1>7
  <1>8. Hand(g) # Nothing /\ Hand(g).from = c <=> Waiting(c) /\ Hand(g) = call[c]
    BY <1>1, <1>3, <1>4, <1>5
  <1> QED BY <1>6, <1>7, <1>8

LEMMA FlightCounts == ASSUME TypeOK, FlightInv PROVE RequestsInFlight
  <1> AwaitedAreFlying /\ NoneTwice
    BY DEF FlightInv
  <1>1. SUFFICES ASSUME NEW c \in Clients
                 PROVE  Cardinality(Places(c)) = IF Waiting(c) THEN 1 ELSE 0
    BY DEF RequestsInFlight, Waiting
  <1>2. \A p : p \in Places(c) <=> \E g \in Spots : \E i \in PlacesAt(g, c) : p = <<g, i>>
    BY DEF Places, Spots
  <1>3. CASE ~Waiting(c)
    <2>1. Places(c) = {}
      BY <1>2, <1>3, PlaceFacts
    <2> QED BY <1>3, <2>1, FS_EmptySet
  <1>4. CASE Waiting(c)
    <2> DEFINE m == call[c]
    <2>1. m \in Requests /\ Nothing \notin Requests /\ \E g \in Spots : m \in At(g)
      BY <1>4, FlyingAreRequests, NothingIsNoMessage DEF AwaitedAreFlying, Flying
    <2>2. \E g \in Spots : \E i : i \in PlacesAt(g, c)
      <3>1. PICK g \in Spots : m \in At(g)
        BY <2>1
      <3>2. CASE Hand(g) = m
        BY <1>4, <3>2, PlaceFacts
      <3>3. CASE m \in ToSet(Chan(g))
        <4>1. DOMAIN Chan(g) = 1 .. Len(Chan(g))
          BY SpotTypes
        <4>2. PICK i \in 1 .. Len(Chan(g)) : Chan(g)[i] = m
          BY <3>3, <4>1 DEF ToSet
        <4> QED BY <1>4, <4>2, PlaceFacts
      <3> QED BY <3>1, <3>2, <3>3 DEF At
    <2>3. ASSUME NEW g \in Spots, NEW h \in Spots, NEW i \in PlacesAt(g, c), NEW j \in PlacesAt(h, c)
          PROVE  g = h /\ i = j
      <3>1. /\ (i \in 1 .. Len(Chan(g)) /\ Chan(g)[i] = m) \/ (i = 0 /\ Hand(g) = m)
            /\ (j \in 1 .. Len(Chan(h)) /\ Chan(h)[j] = m) \/ (j = 0 /\ Hand(h) = m)
        BY PlaceFacts
      <3>2. \A s \in Spots : \A k \in 1 .. Len(Chan(s)) : Chan(s)[k] \in ToSet(Chan(s))
        <4>1. \A s \in Spots : DOMAIN Chan(s) = 1 .. Len(Chan(s))
          BY SpotTypes
        <4> QED BY <4>1 DEF ToSet
      <3>3. m \in At(g) /\ m \in At(h)
        BY <2>1, <3>1, <3>2 DEF At
      <3>4. g = h
        BY <3>3 DEF NoneTwice
      <3>5. i = j
        BY <2>1, <3>1, <3>2, <3>4 DEF NoneTwice, OnceIn
      <3> QED BY <3>4, <3>5
    <2>4. PICK g \in Spots : \E i : i \in PlacesAt(g, c)
      BY <2>2
    <2>5. PICK i : i \in PlacesAt(g, c)
      BY <2>4
    <2>6. Places(c) = {<<g, i>>}
      BY <1>2, <2>3, <2>5
    <2> QED BY <1>4, <2>6, FS_Singleton
  <1> QED BY <1>3, <1>4

\* The requests in an actor's channel are of different callers, and of others than
\* the one in the router's hand.
LEMMA FlightLeavesRoom == ASSUME TypeOK, FlightInv PROVE RouterNeverWaits
  <1> FlyingAreAwaited /\ NoneTwice
    BY DEF FlightInv
  <1>1. SUFFICES ASSUME rhand # Nothing, Cardinality(Clients) <= Cap PROVE Len(kch[gen]) < Cap
    BY DEF RouterNeverWaits, KvRoom
  <1> DEFINE q == kch[gen]
             others == Clients \ {rhand.from}
             f == [i \in 1 .. Len(q) |-> q[i].from]
  <1>2. gen \in Gens /\ gen \in Spots /\ 0 \in Spots /\ 0 # gen
    BY SpotFacts
  <1>3. rhand \in At(0) /\ rhand \in Requests /\ rhand.from \in Clients
    BY <1>1, SpotFacts, RequestFacts DEF At, TypeOK
  <1>4. q \in Seq(Requests) /\ Len(q) \in Nat /\ DOMAIN q = 1 .. Len(q) /\ Chan(gen) = q
    BY <1>2, SpotFacts
  <1>5. \A i \in 1 .. Len(q) : q[i] \in Requests /\ q[i] \in At(gen) /\ q[i].from \in Clients
    <2>1. \A i \in 1 .. Len(q) : q[i] \in Requests /\ q[i] \in ToSet(q)
      BY <1>4 DEF ToSet
    <2> QED BY <1>4, <2>1, RequestFacts DEF At
  <1>6. \A i \in 1 .. Len(q) : q[i] # rhand
    BY <1>2, <1>3, <1>5 DEF NoneTwice
  <1>7. \A m \in At(0) \cup At(gen) : call[m.from] = m
    BY <1>2 DEF FlyingAreAwaited, Flying
  <1>8. \A i \in 1 .. Len(q) : q[i].from \in others
    BY <1>3, <1>5, <1>6, <1>7
  <1>9. \A i, j \in 1 .. Len(q) : q[i].from = q[j].from => i = j
    <2>1. OnceIn(q, Requests)
      BY <1>2, <1>4 DEF NoneTwice
    <2> QED BY <1>5, <1>7, <2>1 DEF OnceIn
  <1>10. f \in Injection(1 .. Len(q), others)
    BY <1>8, <1>9 DEF Injection, IsInjective
  <1>11. IsFiniteSet(others) /\ Cardinality(others) = Cardinality(Clients) - 1
    BY <1>3, KvAssumption, FS_RemoveElement
  <1>12. Cardinality(1 .. Len(q)) = Len(q)
    BY <1>4, FS_Interval
  <1>13. Cardinality(1 .. Len(q)) <= Cardinality(others)
    BY <1>10, <1>11, FS_Injection
  <1>14. Cardinality(Clients) \in Nat
    BY KvAssumption, FS_CardinalityType
  <1> QED BY <1>1, <1>4, <1>11, <1>12, <1>13, <1>14, KvAssumption

LEMMA FlightInvariant == Spec => [](TypeOK /\ FlightInv)
  <1>1. Init => FlightInv
    BY InitFlight
  <1>2. CacheInv /\ CacheInv' /\ FlightInv /\ [Next]_vars => FlightInv'
    BY NextFlight
  <1>3. CacheInv => TypeOK
    BY DEF CacheInv
  <1> QED BY <1>1, <1>2, <1>3, CacheInvariant, PTL DEF Spec

\* Every call of set, get or delete is in exactly one place from the send to the
\* router until its oneshot is answered or dropped, across any number of Resets
\* and aborts: no caller is answered twice, and none waits for a request that is gone.
THEOREM RequestsAreInFlight == Spec => []RequestsInFlight
  <1>1. TypeOK /\ FlightInv => RequestsInFlight
    BY FlightCounts
  <1> QED BY <1>1, FlightInvariant, PTL

\* With at most as many callers as a channel has slots, the router's send to an
\* actor never has to wait.
THEOREM RouterIsFree == Spec => []RouterNeverWaits
  <1>1. TypeOK /\ FlightInv => RouterNeverWaits
    BY FlightLeavesRoom
  <1> QED BY <1>1, FlightInvariant, PTL

-----------------------------------------------------------------------------
(* Without Resets there is one generation.                                 *)

\* The writer truncates data.json before it writes.
FileInv ==
    /\ wpc[1] = "write" => file = EmptyFile
    /\ wpc[1] \in {"serve", "beat"} /\ loaded[1] # Nothing => file = Json(wmap[1])

LEMMA OneGen ==
    ASSUME MaxResets = 0, CacheInv
    PROVE  Gens = {1} /\ gen = 1 /\ ~SendReset /\ ~RouterReset
  <1> TypeOK /\ GensInOrder
    BY DEF CacheInv
  <1>1. Gens = {1} /\ gen = 1 /\ resets = 0
    BY DEF Gens, TypeOK
  <1>2. Count(rch, ResetMessage) = 0
    <2>1. Count(rch, ResetMessage) \in Nat
      BY RchType, CountType
    <2>2. gen + Count(rch, ResetMessage) = resets + 1
      BY ResetsCounted
    <2> QED BY <1>1, <2>1, <2>2
  <1>3. ~RouterReset
    <2>1. SUFFICES ASSUME RouterReset PROVE FALSE
      OBVIOUS
    <2>2. rch # <<>> /\ Head(rch).kind = "reset"
      BY <2>1 DEF RouterReset
    <2>3. Head(rch) = ResetMessage /\ Head(rch) \in ToSet(rch)
      BY <2>2, RchType, TailElements, RouterMessageFacts
    <2>4. Count(rch, ResetMessage) > 0
      BY <2>3, RchType, CountPositive
    <2> QED BY <1>2, <2>4
  <1> QED BY <1>1, <1>3 DEF SendReset

LEMMA NextFile ==
    ASSUME MaxResets = 0, CacheInv, FileInv, [Next]_vars PROVE FileInv'
  <1> TypeOK /\ FirstIsLoad
    BY DEF CacheInv
  <1>1. Gens = {1} /\ wmap[1] \in Maps
    BY OneGen DEF TypeOK
  <1>2. CASE UNCHANGED <<writerVars, file>>
    BY <1>2 DEF FileInv
  <1>3. CASE KvStart(1)
    BY <1>1, <1>3 DEF KvStart, FileInv, TypeOK
  <1>4. CASE KvForward(1)
    BY <1>4 DEF KvForward, FileInv
  <1>5. CASE WriterLoad(1) \/ WriterCreate(1)
    BY <1>1, <1>5 DEF WriterLoad, WriterCreate, FileInv, FirstIsLoad, TypeOK
  <1>6. CASE WriterTake(1)
    BY <1>1, <1>6 DEF WriterTake, FileInv, TypeOK
  <1>7. CASE WriterTruncate(1)
    BY <1>1, <1>7 DEF WriterTruncate, FileInv, TypeOK
  <1>8. CASE WriterWrite(1)
    <2>1. file' = Json(wmap[1])
      BY <1>1, <1>8, FileFacts DEF WriterWrite, FileInv
    <2> QED BY <1>1, <1>8, <2>1 DEF WriterWrite, FileInv, TypeOK
  <1>9. CASE WriterTimeout(1) \/ WriterBeat(1)
    BY <1>1, <1>9 DEF WriterTimeout, WriterBeat, FileInv, TypeOK
  <1>10. CASE WriterDone(1) \/ WriterFail(1)
    BY <1>1, <1>10 DEF WriterDone, WriterFail, FileInv, TypeOK
  <1>11. CASE UNCHANGED vars
    BY <1>2, <1>11 DEF vars
  <1>12. CASE (\E c \in Clients : Call(c)) \/ SendReset \/ Router
    BY <1>2, <1>12 DEF Call, SendReset, Router, RouterTake, RouterDeliver, RouterBeat, RouterReset
  <1>13. CASE KvLoaded(1) \/ KvGet(1) \/ KvTake(1) \/ KvTimeout(1) \/ KvBeat(1) \/ KvEnd(1)
    BY <1>2, <1>13 DEF KvLoaded, KvGet, KvTake, KvTimeout, KvBeat, KvEnd
  <1> QED
    BY <1>1, <1>3, <1>4, <1>5, <1>6, <1>7, <1>8, <1>9, <1>10, <1>11, <1>12, <1>13
       DEF Next, Kv, Writer

\* With one writer data.json holds its map whenever it is between two messages, so
\* what the file held is lost only by a stop in the middle of one.
THEOREM FileIsCurrent == Spec => []FileCurrentAtRest
  <1>1. CASE MaxResets = 0
    <2>1. Init => FileInv
      BY <1>1 DEF Init, FileInv, Gens
    <2>2. CacheInv /\ FileInv /\ [Next]_vars => FileInv'
      BY <1>1, NextFile
    <2>3. FileInv => FileCurrentAtRest
      BY DEF FileInv, FileCurrentAtRest
    <2> QED BY <2>1, <2>2, <2>3, CacheInvariant, PTL DEF Spec
  <1>2. CASE MaxResets # 0
    <2>1. FileCurrentAtRest
      BY <1>2 DEF FileCurrentAtRest
    <2> QED BY <2>1, PTL
  <1> QED BY <1>1, <1>2

-----------------------------------------------------------------------------
(* Without Resets and file errors the actors are one atomic map.           *)

\* Nobody is cancelled or gone, and what an actor has in hand is a write.
Calm ==
    /\ aborted[1] = FALSE /\ kpc[1] # "dead" /\ wpc[1] # "done"
    /\ khand[1] # Nothing => khand[1].kind # "get"

LEMMA NextCalm ==
    ASSUME MaxResets = 0, ~MayFail, CacheInv, Calm, [Next]_vars PROVE Calm'
  <1> TypeOK
    BY DEF CacheInv
  <1>1. Gens = {1} /\ gen = 1 /\ ~SendReset /\ ~RouterReset
    BY OneGen
  <1>2. CASE UNCHANGED <<aborted, kpc, wpc, khand>>
    BY <1>2 DEF Calm
  <1>3. CASE UNCHANGED vars
    BY <1>2, <1>3 DEF vars
  <1>4. CASE (\E c \in Clients : Call(c)) \/ Router
    BY <1>1, <1>2, <1>4 DEF Call, Router, RouterTake, RouterDeliver, RouterBeat
  <1>5. CASE KvStart(1) \/ KvLoaded(1) \/ KvGet(1) \/ KvTake(1)
    BY <1>1, <1>5 DEF KvStart, KvLoaded, KvGet, KvTake, Calm, TypeOK
  <1>6. CASE KvForward(1) \/ KvTimeout(1) \/ KvBeat(1)
    BY <1>1, <1>6 DEF KvForward, KvTimeout, KvBeat, Calm, TypeOK
  <1>7. ~KvEnd(1) /\ ~WriterDone(1) /\ ~WriterFail(1)
    BY DEF KvEnd, WriterDone, WriterFail, Calm
  <1>8. CASE WriterLoad(1) \/ WriterCreate(1) \/ WriterTake(1) \/ WriterTruncate(1)
    BY <1>1, <1>8 DEF WriterLoad, WriterCreate, WriterTake, WriterTruncate, Calm, TypeOK
  <1>9. CASE WriterWrite(1) \/ WriterTimeout(1) \/ WriterBeat(1)
    BY <1>1, <1>9 DEF WriterWrite, WriterTimeout, WriterBeat, Calm, TypeOK
  <1> QED
    BY <1>1, <1>3, <1>4, <1>5, <1>6, <1>7, <1>8, <1>9 DEF Next, Kv, Writer

\* The map the callers will meet stays what it is until a write is forwarded.
LEMMA SameMap ==
    ASSUME MaxResets = 0, CacheInv, Calm, [Next]_vars, ~KvForward(1), ~KvEnd(1),
           ~WriterDone(1), ~WriterFail(1)
    PROVE  CurrentMap' = CurrentMap
  <1> TypeOK /\ FirstIsLoad
    BY DEF CacheInv
  <1>1. Gens = {1} /\ gen = 1 /\ ~SendReset /\ ~RouterReset
    BY OneGen
  <1>2. CASE UNCHANGED <<kpc, kmap, wpc, wmap, loaded, file>>
    BY <1>2 DEF CurrentMap, Parse
  <1>3. CASE UNCHANGED vars
    BY <1>2, <1>3 DEF vars
  <1>4. CASE (\E c \in Clients : Call(c)) \/ Router
    BY <1>1, <1>2, <1>4 DEF Call, Router, RouterTake, RouterDeliver, RouterBeat
  <1>5. CASE KvGet(1) \/ KvStart(1) \/ KvLoaded(1)
    BY <1>1, <1>5 DEF KvGet, KvStart, KvLoaded, CurrentMap, Parse, FirstIsLoad, TypeOK
  <1>6. CASE KvTake(1) \/ KvTimeout(1) \/ KvBeat(1)
    BY <1>1, <1>6 DEF KvTake, KvTimeout, KvBeat, CurrentMap, Parse, TypeOK
  <1>7. CASE WriterLoad(1) \/ WriterCreate(1)
    BY <1>1, <1>7 DEF WriterLoad, WriterCreate, CurrentMap, Parse, FirstIsLoad, TypeOK
  <1>8. CASE WriterTake(1)
    <2>1. kpc[1] \in {"serve", "forward", "beat"} \/ kpc[1] = "load"
      BY <1>1, <1>8 DEF WriterTake, FirstIsLoad, Calm, TypeOK
    <2>2. CASE kpc[1] = "load"
      <3>1. wch[1] = <<LoadMessage>> /\ loaded[1] = Nothing /\ wpc[1] = "serve" /\ wmap[1] \in Maps
        BY <1>1, <1>8, <2>2 DEF WriterTake, FirstIsLoad, LoadMessage, TypeOK
      <3>2. Head(wch[1]).kind = "load"
        BY <3>1 DEF LoadMessage
      <3>3. loaded'[1] = wmap[1] /\ wmap[1] # Nothing
        BY <1>1, <1>8, <3>1, <3>2, NothingIsNoMessage DEF WriterTake, TypeOK
      <3> QED BY <1>8, <2>2, <3>1, <3>3 DEF WriterTake, CurrentMap
    <2> QED BY <1>8, <2>1, <2>2 DEF WriterTake, CurrentMap
  <1>9. CASE WriterTruncate(1) \/ WriterWrite(1) \/ WriterTimeout(1) \/ WriterBeat(1)
    BY <1>1, <1>9
       DEF WriterTruncate, WriterWrite, WriterTimeout, WriterBeat, CurrentMap, Parse, TypeOK
  <1> QED
    BY <1>1, <1>3, <1>4, <1>5, <1>6, <1>7, <1>8, <1>9 DEF Next, Kv, Writer

LEMMA StoreInit == ASSUME Init PROVE Store!Init
  <1>1. 1 \in Gens
    BY KvAssumption DEF Gens
  <1>2. CurrentMap = Parse(file)
    BY <1>1 DEF Init, CurrentMap
  <1>3. Parse(file) \in Maps
    BY DEF Init, Parse, EmptyFile, EmptyMap, Json, Maps
  <1> QED BY <1>2, <1>3 DEF Init, Store!Init, Maps

\* A request that is answered is one that its caller still waits for.
LEMMA ServedIsAwaited ==
    ASSUME TypeOK, FlightInv, NEW g \in Gens, NEW m \in Requests,
           m \in ToSet(kch[g]) \/ m = khand[g]
    PROVE  m.from \in Clients /\ call[m.from] = m /\ result[m.from] = Nothing /\ m # Nothing
  <1>1. m # Nothing /\ m.from \in Clients
    BY RequestFacts
  <1>2. m \in Flying
    BY <1>1, SpotFacts DEF Flying, At
  <1> QED BY <1>1, <1>2 DEF FlightInv, FlyingAreAwaited

LEMMA StoreNext ==
    ASSUME MaxResets = 0, ~MayFail, CacheInv, FlightInv, Calm, [Next]_vars
    PROVE  [Store!Next]_Store!svars
  <1> TypeOK /\ FirstIsLoad
    BY DEF CacheInv
  <1> USE DEF Store!Next, Store!svars
  <1>1. Gens = {1} /\ gen = 1 /\ ~SendReset /\ ~RouterReset
    BY OneGen
  <1>2. ~KvEnd(1) /\ ~WriterDone(1) /\ ~WriterFail(1)
    BY DEF KvEnd, WriterDone, WriterFail, Calm
  <1>3. CASE KvForward(1)
    <2> DEFINE op == khand[1]
               c == op.from
    <2>1. /\ kpc[1] = "forward" /\ kmap' = [kmap EXCEPT ![1] = Apply(@, op)]
          /\ result' = [result EXCEPT ![c] = Answer(kmap[1], op)]
          /\ kpc' = [kpc EXCEPT ![1] = "serve"] /\ UNCHANGED <<call, calls>>
      BY <1>3 DEF KvForward
    <2>2. op \in Requests /\ op # Nothing
      BY <1>1, <2>1 DEF FirstIsLoad, TypeOK
    <2>3. op.kind \in {"set", "delete"} /\ (op.kind = "delete" => op.val = Nothing)
      BY <2>2, RequestFacts DEF Calm
    <2>4. c \in Clients /\ call[c] = op /\ result[c] = Nothing
      BY <1>1, <2>2, ServedIsAwaited
    <2>5. CurrentMap = kmap[1] /\ CurrentMap' = Apply(kmap[1], op)
      BY <1>1, <2>1 DEF CurrentMap, TypeOK
    <2>6. Apply(kmap[1], op) = [kmap[1] EXCEPT ![op.key] = op.val]
      BY <2>3 DEF Apply
    <2>7. Answer(kmap[1], op) = "ok"
      BY <2>3 DEF Answer
    <2> HIDE DEF op
    <2>8. Store!Serve(c)
      BY <2>1, <2>2, <2>3, <2>4, <2>5, <2>6, <2>7 DEF Store!Serve
    <2> QED BY <2>4, <2>8
  <1>4. CASE KvGet(1)
    <2> DEFINE op == Head(kch[1])
               c == op.from
    <2>1. /\ kpc[1] = "serve" /\ kch[1] # <<>> /\ op.kind = "get"
          /\ result' = [result EXCEPT ![c] = Answer(kmap[1], op)] /\ UNCHANGED <<call, calls>>
      BY <1>4 DEF KvGet
    <2>2. op \in Requests /\ op \in ToSet(kch[1])
      BY <1>1, <2>1, TailElements DEF TypeOK
    <2> HIDE DEF op
    <2>3. c \in Clients /\ call[c] = op /\ result[c] = Nothing /\ op # Nothing
      BY <1>1, <2>2, ServedIsAwaited
    <2>4. CurrentMap = kmap[1]
      BY <2>1 DEF CurrentMap
    <2>5. CurrentMap' = CurrentMap
      <3>1. ~KvForward(1)
        BY <2>1 DEF KvForward
      <3> QED BY <1>2, <3>1, SameMap
    <2>6. Store!Serve(c)
      BY <2>1, <2>3, <2>4, <2>5 DEF Store!Serve, Answer
    <2> QED BY <2>3, <2>6
  <1>5. ASSUME NEW c \in Clients, Call(c) PROVE Store!Ask(c)
    <2>1. ~KvForward(1)
      BY <1>1, <1>5 DEF Call, KvForward, FirstIsLoad, TypeOK
    <2>2. CurrentMap' = CurrentMap
      BY <1>2, <2>1, SameMap
    <2> QED BY <1>5, <2>2 DEF Call, Free, Store!Ask, Op, Store!Requests
  <1>6. CASE UNCHANGED <<call, result, calls>> /\ ~KvForward(1)
    BY <1>2, <1>6, SameMap
  <1>7. CASE UNCHANGED vars /\ ~KvForward(1)
    BY <1>6, <1>7 DEF vars
  <1>8. CASE Router /\ ~KvForward(1)
    BY <1>1, <1>6, <1>8 DEF Router, RouterTake, RouterDeliver, RouterBeat, Calm
  <1>9. CASE (KvStart(1) \/ KvLoaded(1) \/ KvTake(1) \/ KvTimeout(1) \/ KvBeat(1)) /\ ~KvForward(1)
    BY <1>6, <1>9 DEF KvStart, KvLoaded, KvTake, KvTimeout, KvBeat
  <1>10. CASE (WriterLoad(1) \/ WriterCreate(1) \/ WriterTake(1) \/ WriterTruncate(1)) /\ ~KvForward(1)
    BY <1>6, <1>10 DEF WriterLoad, WriterCreate, WriterTake, WriterTruncate
  <1>11. CASE (WriterWrite(1) \/ WriterTimeout(1) \/ WriterBeat(1)) /\ ~KvForward(1)
    BY <1>6, <1>11 DEF WriterWrite, WriterTimeout, WriterBeat
  <1> QED
    BY <1>1, <1>2, <1>3, <1>4, <1>5, <1>7, <1>8, <1>9, <1>10, <1>11 DEF Next, Kv, Writer

\* Without Resets and file errors set, get and delete act on one map, each at one
\* moment between the send and the answer: cache, log and file are not seen.
THEOREM StoreIsRefined ==
    ASSUME MaxResets = 0, ~MayFail
    PROVE  Spec => Store!Steps
  <1>1. Init => Calm
    BY KvAssumption DEF Init, Calm, Gens
  <1>2. CacheInv /\ Calm /\ [Next]_vars => Calm'
    BY NextCalm
  <1>3. Init => Store!Init
    BY StoreInit
  <1>4. CacheInv /\ FlightInv /\ Calm /\ [Next]_vars => [Store!Next]_Store!svars
    BY StoreNext
  <1> QED BY <1>1, <1>2, <1>3, <1>4, CacheInvariant, FlightInvariant, PTL DEF Spec, Store!Steps
=============================================================================
