--------------------------- MODULE KeyValueActors ---------------------------
(***************************************************************************)
(* The key-value store of chap8/key_value_store_actor_model.rs: callers     *)
(* send requests to a router, the router forwards them to a key-value actor *)
(* that keeps the map in memory and logs every write to a writer actor,     *)
(* which rewrites data.json.  A Reset aborts the key-value actor and spawns *)
(* a new one with a writer of its own; the old writer lives on until it has *)
(* emptied its channel.  An actor pair is a generation.                     *)
(*                                                                          *)
(* Abstractions.  Keys and values have one size each, so the length of the  *)
(* file is a function of the number of keys.  The map sent in a reply is    *)
(* the value read.  heartbeat_actor only records the beats it gets (the     *)
(* check after its loop runs when the channel is closed, and the router     *)
(* never closes it), so the router's Heartbeat branch drops the beat.       *)
(***************************************************************************)
EXTENDS Integers, Sequences, FiniteSets, SequencesExt

CONSTANTS
    Clients, Keys, Vals,
    Nothing,        \* no value, no message, no answer yet
    Kinds,          \* kinds of calls the clients make: set, get, delete
    Cap,            \* capacity of every channel (32 in the code)
    MaxCalls,       \* bound on the calls of a client
    MaxResets,      \* bound on the Resets sent
    Timeouts,       \* the actors whose recv may time out
    MayFail         \* file operations may return an error

ASSUME KvAssumption ==
    /\ Kinds \subseteq {"set", "get", "delete"}
    /\ Cap \in Nat \ {0} /\ MaxCalls \in Nat /\ MaxResets \in Nat
    /\ Timeouts \subseteq {"kv", "writer"} /\ MayFail \in BOOLEAN
    /\ Nothing \notin Vals \cup {"ok", "none", "dropped"}
    /\ IsFiniteSet(Clients) /\ IsFiniteSet(Keys)

Gens == 1 .. MaxResets + 1
Maps == [Keys -> Vals \cup {Nothing}]

\* What a call asks for; from is the oneshot its answer goes to.
Op(c) ==
    [kind : Kinds \cap {"set"}, key : Keys, val : Vals, from : {c}]
      \cup [kind : Kinds \ {"set"}, key : Keys, val : {Nothing}, from : {c}]
Requests == UNION {Op(c) : c \in Clients}

ASSUME NothingIsNoMessage == Nothing \notin Requests \cup Maps

EmptyMap == [k \in Keys |-> Nothing]

VARIABLES
    call,       \* the call each client made last
    result,     \* its answer: none yet, a value, ok, or dropped with the request
    calls,      \* calls made by each client
    resets,     \* Resets sent
    rch, rhand, \* channel of the router, and the request it is forwarding
    gen,        \* the generation the router sends to
    kpc, kmap, kch, khand, aborted,     \* key-value actor of each generation
    wpc, wmap, wch, loaded,             \* its writer; loaded: the answer to its Get
    file        \* data.json: length and, if it parses, the map it holds

callVars == <<call, result, calls, resets>>
routerVars == <<rch, rhand, gen>>
kvVars == <<kpc, kmap, kch, khand, aborted>>
writerVars == <<wpc, wmap, wch, loaded>>
vars == <<callVars, routerVars, kvVars, writerVars, file>>

-----------------------------------------------------------------------------
(* data.json.                                                              *)

Length(m) == 1 + Cardinality({k \in Keys : m[k] # Nothing})
EmptyFile == [length |-> 0, holds |-> Nothing]
Json(m) == [length |-> Length(m), holds |-> m]

\* load_map: an error of any kind is an empty map.
Parse(f) == IF f.holds = Nothing THEN EmptyMap ELSE f.holds

\* A write from offset 0 leaves the tail of a longer content behind it.
Overwrite(f, m) ==
    IF f.length <= Length(m) THEN Json(m) ELSE [length |-> f.length, holds |-> Nothing]

Apply(m, op) ==
    CASE op.kind = "set" -> [m EXCEPT ![op.key] = op.val]
      [] op.kind = "delete" -> [m EXCEPT ![op.key] = Nothing]
      [] OTHER -> m

Answer(m, op) ==
    IF op.kind # "get" THEN "ok" ELSE IF m[op.key] = Nothing THEN "none" ELSE m[op.key]

Init ==
    /\ call = [c \in Clients |-> Nothing]
    /\ result = [c \in Clients |-> Nothing]
    /\ calls = [c \in Clients |-> 0]
    /\ resets = 0
    /\ rch = <<>> /\ rhand = Nothing /\ gen = 1
    /\ kpc = [g \in Gens |-> IF g = 1 THEN "spawned" ELSE "none"]
    /\ kmap = [g \in Gens |-> EmptyMap]
    /\ kch = [g \in Gens |-> <<>>]
    /\ khand = [g \in Gens |-> Nothing]
    /\ aborted = [g \in Gens |-> FALSE]
    /\ wpc = [g \in Gens |-> "none"]
    /\ wmap = [g \in Gens |-> EmptyMap]
    /\ wch = [g \in Gens |-> <<>>]
    /\ loaded = [g \in Gens |-> Nothing]
    /\ file \in {EmptyFile} \cup {Json(m) : m \in Maps}

-----------------------------------------------------------------------------
(* Callers: set, get and delete send to the router and await the oneshot.   *)
(* A dropped oneshot is an Err that the caller unwraps: it panics.          *)

Free(c) == call[c] = Nothing \/ result[c] \notin {Nothing, "dropped"}

Call(c) ==
    /\ Free(c) /\ calls[c] < MaxCalls /\ Len(rch) < Cap
    /\ \E op \in Op(c) : call' = [call EXCEPT ![c] = op] /\ rch' = Append(rch, op)
    /\ result' = [result EXCEPT ![c] = Nothing]
    /\ calls' = [calls EXCEPT ![c] = @ + 1]
    /\ UNCHANGED <<resets, rhand, gen, kvVars, writerVars, file>>

SendReset ==
    /\ resets < MaxResets /\ Len(rch) < Cap
    /\ resets' = resets + 1
    /\ rch' = Append(rch, [kind |-> "reset"])
    /\ UNCHANGED <<call, result, calls, rhand, gen, kvVars, writerVars, file>>

\* (mutant: the oneshot senders outlive the actor)
DropSilently(ops) == UNCHANGED result
\* The requests in ops are dropped with the oneshot senders in them.
Drop(ops) ==
    result' = [c \in Clients |->
                 IF \E op \in ops : op.from = c THEN "dropped" ELSE result[c]]

-----------------------------------------------------------------------------
(* The router.                                                             *)

RouterTake ==
    /\ rhand = Nothing /\ rch # <<>> /\ Head(rch).kind \in {"set", "get", "delete"}
    /\ rhand' = Head(rch)
    /\ rch' = Tail(rch)
    /\ UNCHANGED <<callVars, gen, kvVars, writerVars, file>>

\* (mutant: one slot of the channel is never used)
KvRoomForOneLess(g) == Len(kch[g]) < Cap - 1
KvRoom(g) == Len(kch[g]) < Cap

\* (mutant: the router waits for an actor that is gone)
RouterDeliverToLiving ==
    /\ rhand # Nothing /\ kpc[gen] # "dead" /\ KvRoom(gen)
    /\ kch' = [kch EXCEPT ![gen] = Append(@, rhand)]
    /\ rhand' = Nothing
    /\ UNCHANGED <<callVars, rch, gen, kpc, kmap, khand, aborted, writerVars, file>>
\* The send waits while the channel is full; it fails, and the request is
\* dropped, when the actor is gone.
RouterDeliver ==
    /\ rhand # Nothing
    /\ IF kpc[gen] = "dead"
       THEN Drop({rhand}) /\ UNCHANGED kch
       ELSE /\ KvRoom(gen)
            /\ kch' = [kch EXCEPT ![gen] = Append(@, rhand)]
            /\ UNCHANGED result
    /\ rhand' = Nothing
    /\ UNCHANGED <<call, calls, resets, rch, gen, kpc, kmap, khand, aborted, writerVars, file>>

RouterBeat ==
    /\ rhand = Nothing /\ rch # <<>> /\ Head(rch).kind = "beat"
    /\ rch' = Tail(rch)
    /\ UNCHANGED <<callVars, rhand, gen, kvVars, writerVars, file>>

\* abort only asks for the cancellation; the new actor is spawned right away.
RouterReset ==
    /\ rhand = Nothing /\ rch # <<>> /\ Head(rch).kind = "reset"
    /\ rch' = Tail(rch)
    /\ aborted' = [aborted EXCEPT ![gen] = TRUE]
    /\ gen' = gen + 1
    /\ kpc' = [kpc EXCEPT ![gen + 1] = "spawned"]
    /\ UNCHANGED <<callVars, rhand, kmap, kch, khand, writerVars, file>>

-----------------------------------------------------------------------------
(* The key-value actor of generation g.                                    *)

\* Spawns its writer and asks it for the map.
KvStart(g) ==
    /\ kpc[g] = "spawned"
    /\ kpc' = [kpc EXCEPT ![g] = "load"]
    /\ wpc' = [wpc EXCEPT ![g] = "load"]
    /\ wch' = [wch EXCEPT ![g] = <<[kind |-> "load"]>>]
    /\ UNCHANGED <<callVars, routerVars, kmap, kch, khand, aborted, wmap, loaded, file>>

KvLoaded(g) ==
    /\ kpc[g] = "load" /\ loaded[g] # Nothing
    /\ kmap' = [kmap EXCEPT ![g] = loaded[g]]
    /\ kpc' = [kpc EXCEPT ![g] = "serve"]
    /\ UNCHANGED <<callVars, routerVars, kch, khand, aborted, writerVars, file>>

\* A get is answered from the map at once.
KvGet(g) ==
    /\ kpc[g] = "serve" /\ kch[g] # <<>> /\ Head(kch[g]).kind = "get"
    /\ LET op == Head(kch[g])
       IN result' = [result EXCEPT ![op.from] = Answer(kmap[g], op)]
    /\ kch' = [kch EXCEPT ![g] = Tail(@)]
    /\ UNCHANGED <<call, calls, resets, routerVars, kpc, kmap, khand, aborted, writerVars, file>>

\* (mutant: the map is changed before the writer has the message)
KvTakeAndApply(g) ==
    /\ kpc[g] = "serve" /\ kch[g] # <<>> /\ Head(kch[g]).kind # "get"
    /\ kmap' = [kmap EXCEPT ![g] = Apply(@, Head(kch[g]))]
    /\ khand' = [khand EXCEPT ![g] = Head(kch[g])]
    /\ kch' = [kch EXCEPT ![g] = Tail(@)]
    /\ kpc' = [kpc EXCEPT ![g] = "forward"]
    /\ UNCHANGED <<callVars, routerVars, aborted, writerVars, file>>
\* A write is taken from the channel, to be logged first.
KvTake(g) ==
    /\ kpc[g] = "serve" /\ kch[g] # <<>> /\ Head(kch[g]).kind # "get"
    /\ khand' = [khand EXCEPT ![g] = Head(kch[g])]
    /\ kch' = [kch EXCEPT ![g] = Tail(@)]
    /\ kpc' = [kpc EXCEPT ![g] = "forward"]
    /\ UNCHANGED <<callVars, routerVars, kmap, aborted, writerVars, file>>

\* A write goes to the writer (the error of a closed channel is ignored), then
\* into the map, then the caller is answered; nothing is awaited in between.
KvForward(g) ==
    /\ kpc[g] = "forward"
    /\ IF wpc[g] = "done"
       THEN UNCHANGED wch
       ELSE /\ Len(wch[g]) < Cap
            /\ wch' = [wch EXCEPT ![g] = Append(@, khand[g])]
    /\ kmap' = [kmap EXCEPT ![g] = Apply(@, khand[g])]
    /\ result' = [result EXCEPT ![khand[g].from] = Answer(kmap[g], khand[g])]
    /\ khand' = [khand EXCEPT ![g] = Nothing]
    /\ kpc' = [kpc EXCEPT ![g] = "serve"]
    /\ UNCHANGED <<call, calls, resets, routerVars, kch, aborted, wpc, wmap, loaded, file>>

\* A task that was waiting when it was aborted is not polled again.
KvTimeout(g) ==
    /\ "kv" \in Timeouts /\ ~aborted[g]
    /\ kpc[g] = "serve" /\ kch[g] = <<>>
    /\ kpc' = [kpc EXCEPT ![g] = "beat"]
    /\ UNCHANGED <<callVars, routerVars, kmap, kch, khand, aborted, writerVars, file>>

KvBeat(g) ==
    /\ kpc[g] = "beat" /\ Len(rch) < Cap
    /\ rch' = Append(rch, [kind |-> "beat"])
    /\ kpc' = [kpc EXCEPT ![g] = "serve"]
    /\ UNCHANGED <<callVars, rhand, gen, kmap, kch, khand, aborted, writerVars, file>>

\* The actor ends at an await: cancelled after an abort (a recv on the channel
\* the router has dropped ends it the same way), or by the unwrap of an answer
\* that its writer did not live to give.  Its requests are dropped.
KvEnd(g) ==
    /\ \/ aborted[g] /\ kpc[g] \in {"spawned", "load", "serve", "forward", "beat"}
       \/ kpc[g] = "load" /\ wpc[g] = "done" /\ loaded[g] = Nothing
    /\ Drop(ToSet(kch[g]) \cup ({khand[g]} \ {Nothing}))
    /\ kch' = [kch EXCEPT ![g] = <<>>]
    /\ khand' = [khand EXCEPT ![g] = Nothing]
    /\ kpc' = [kpc EXCEPT ![g] = "dead"]
    /\ UNCHANGED <<call, calls, resets, routerVars, kmap, aborted, writerVars, file>>

-----------------------------------------------------------------------------
(* The writer of generation g.                                             *)

\* (mutant: the file is created before it is read)
WriterLoadCreated(g) ==
    /\ wpc[g] = "load"
    /\ wmap' = [wmap EXCEPT ![g] = EmptyMap]
    /\ wpc' = [wpc EXCEPT ![g] = "create"]
    /\ UNCHANGED <<callVars, routerVars, kvVars, wch, loaded, file>>
WriterLoad(g) ==
    /\ wpc[g] = "load"
    /\ wmap' = [wmap EXCEPT ![g] = Parse(file)]
    /\ wpc' = [wpc EXCEPT ![g] = "create"]
    /\ UNCHANGED <<callVars, routerVars, kvVars, wch, loaded, file>>

\* File::create truncates what was just read.
WriterCreate(g) ==
    /\ wpc[g] = "create"
    /\ file' = EmptyFile
    /\ wpc' = [wpc EXCEPT ![g] = "serve"]
    /\ UNCHANGED <<callVars, routerVars, kvVars, wmap, wch, loaded>>

\* The message is applied, a Get also answered; every message rewrites the file.
WriterTake(g) ==
    /\ wpc[g] = "serve" /\ wch[g] # <<>>
    /\ wmap' = [wmap EXCEPT ![g] = Apply(@, Head(wch[g]))]
    /\ loaded' = IF Head(wch[g]).kind = "load" THEN [loaded EXCEPT ![g] = wmap[g]] ELSE loaded
    /\ wch' = [wch EXCEPT ![g] = Tail(@)]
    /\ wpc' = [wpc EXCEPT ![g] = "truncate"]
    /\ UNCHANGED <<callVars, routerVars, kvVars, file>>

\* (mutant: set_len is forgotten)
WriterNoTruncate(g) ==
    /\ wpc[g] = "truncate"
    /\ wpc' = [wpc EXCEPT ![g] = "write"]
    /\ UNCHANGED <<callVars, routerVars, kvVars, wmap, wch, loaded, file>>
WriterTruncate(g) ==
    /\ wpc[g] = "truncate"
    /\ file' = EmptyFile
    /\ wpc' = [wpc EXCEPT ![g] = "write"]
    /\ UNCHANGED <<callVars, routerVars, kvVars, wmap, wch, loaded>>

\* (mutant: write_all without flush)
WriterNoFlush(g) ==
    /\ wpc[g] = "write"
    /\ wpc' = [wpc EXCEPT ![g] = "serve"]
    /\ UNCHANGED <<callVars, routerVars, kvVars, wmap, wch, loaded, file>>
WriterWrite(g) ==
    /\ wpc[g] = "write"
    /\ file' = Overwrite(file, wmap[g])
    /\ wpc' = [wpc EXCEPT ![g] = "serve"]
    /\ UNCHANGED <<callVars, routerVars, kvVars, wmap, wch, loaded>>

WriterTimeout(g) ==
    /\ "writer" \in Timeouts
    /\ wpc[g] = "serve" /\ wch[g] = <<>> /\ kpc[g] # "dead"
    /\ wpc' = [wpc EXCEPT ![g] = "beat"]
    /\ UNCHANGED <<callVars, routerVars, kvVars, wmap, wch, loaded, file>>

WriterBeat(g) ==
    /\ wpc[g] = "beat" /\ Len(rch) < Cap
    /\ rch' = Append(rch, [kind |-> "beat"])
    /\ wpc' = [wpc EXCEPT ![g] = "serve"]
    /\ UNCHANGED <<callVars, rhand, gen, kvVars, wmap, wch, loaded, file>>

\* The channel is closed and empty.
WriterDone(g) ==
    /\ wpc[g] = "serve" /\ wch[g] = <<>> /\ kpc[g] = "dead"
    /\ wpc' = [wpc EXCEPT ![g] = "done"]
    /\ UNCHANGED <<callVars, routerVars, kvVars, wmap, wch, loaded, file>>

\* An error of the file ends the actor (? and unwrap), and its channel with it.
WriterFail(g) ==
    /\ MayFail /\ wpc[g] \in {"create", "truncate", "write"}
    /\ wpc' = [wpc EXCEPT ![g] = "done"]
    /\ wch' = [wch EXCEPT ![g] = <<>>]
    /\ UNCHANGED <<callVars, routerVars, kvVars, wmap, loaded, file>>

-----------------------------------------------------------------------------
Router == RouterTake \/ RouterDeliver \/ RouterBeat \/ RouterReset

Kv(g) ==
    KvStart(g) \/ KvLoaded(g) \/ KvGet(g) \/ KvTake(g) \/ KvForward(g) \/ KvBeat(g) \/ KvEnd(g)

Writer(g) ==
    \/ WriterLoad(g) \/ WriterCreate(g) \/ WriterTake(g) \/ WriterTruncate(g)
    \/ WriterWrite(g) \/ WriterBeat(g) \/ WriterDone(g)

Next ==
    \/ \E c \in Clients : Call(c)
    \/ SendReset
    \/ Router
    \/ \E g \in Gens : Kv(g) \/ Writer(g) \/ KvTimeout(g) \/ WriterTimeout(g) \/ WriterFail(g)

Spec == Init /\ [][Next]_vars

\* The runtime polls every task that can go on, and the senders that wait for
\* room in a channel get it first come, first served.  Callers owe nothing, and
\* neither timeouts nor file errors have to happen.
FairSpec ==
    /\ Spec
    /\ WF_vars(Router)
    /\ \A g \in Gens :
         WF_vars(Kv(g)) /\ WF_vars(Writer(g)) /\ SF_vars(KvBeat(g)) /\ SF_vars(WriterBeat(g))

-----------------------------------------------------------------------------
(* Properties.                                                             *)

LogMessages == Requests \cup {[kind |-> "load"]}

\* The type of every variable.
TypeOK ==
    /\ call \in [Clients -> Requests \cup {Nothing}]
    /\ result \in [Clients -> Vals \cup {Nothing, "ok", "dropped", "none"}]
    /\ calls \in [Clients -> 0 .. MaxCalls]
    /\ resets \in 0 .. MaxResets
    /\ rch \in Seq(Requests \cup {[kind |-> "beat"], [kind |-> "reset"]})
    /\ rhand \in Requests \cup {Nothing}
    /\ gen \in Gens
    /\ kpc \in [Gens -> {"none", "spawned", "load", "serve", "forward", "beat", "dead"}]
    /\ kmap \in [Gens -> Maps]
    /\ kch \in [Gens -> Seq(Requests)]
    /\ khand \in [Gens -> Requests \cup {Nothing}]
    /\ aborted \in [Gens -> BOOLEAN]
    /\ wpc \in [Gens -> {"none", "load", "create", "serve", "truncate", "write", "beat", "done"}]
    /\ wmap \in [Gens -> Maps]
    /\ wch \in [Gens -> Seq(LogMessages)]
    /\ loaded \in [Gens -> Maps \cup {Nothing}]
    /\ file.length \in Nat /\ file.holds \in Maps \cup {Nothing}

\* The messages of a log that write to k.
Writes(log, k) == {i \in DOMAIN log : log[i].kind \in {"set", "delete"} /\ log[i].key = k}

\* m is the map w with the log applied to it in order: under each key is the last
\* value that the log has for it, or w's.
LogAhead(m, log, w) ==
    \A k \in Keys :
        IF Writes(log, k) = {}
        THEN m[k] = w[k]
        ELSE \E i \in Writes(log, k) :
                m[k] = log[i].val /\ \A j \in Writes(log, k) : j <= i

\* The cached map is the writer's map with the log still in the channel applied.
\* Forwarding, applying and answering a write leave no moment, not even an abort,
\* at which a caller knows of a write that the log does not have.
CacheIsLogAhead ==
    \A g \in Gens :
        kpc[g] \in {"serve", "forward", "beat"} /\ wpc[g] # "done" =>
            LogAhead(kmap[g], wch[g], wmap[g])

\* The first message of a writer is the Get of the actor that spawned it, and its
\* answer is the map the actor starts from.
FirstIsLoad ==
    \A g \in Gens :
        /\ kpc[g] \in {"none", "spawned"} => wpc[g] = "none"
        /\ kpc[g] = "load" => wpc[g] # "none"
        /\ wpc[g] \in {"none", "load", "create"} =>
             loaded[g] = Nothing /\ kpc[g] \notin {"serve", "forward", "beat"}
        /\ kpc[g] = "load" /\ wpc[g] # "done" =>
             \/ loaded[g] = Nothing /\ wch[g] = <<[kind |-> "load"]>>
             \/ loaded[g] = wmap[g] /\ wch[g] = <<>>
        /\ kpc[g] = "forward" <=> khand[g] # Nothing

\* A generation for every Reset the router has handled, and none after that.
GensInOrder ==
    /\ gen + Cardinality({i \in DOMAIN rch : rch[i] = [kind |-> "reset"]}) = resets + 1
    /\ \A g \in Gens : kpc[g] = "none" <=> g > gen

\* What every step of router, actors and writers leaves in order: the variables
\* have their types, generations follow each other, and in each of them the cache
\* is ahead of the writer by the log between them.
CacheInv == TypeOK /\ GensInOrder /\ FirstIsLoad /\ CacheIsLogAhead

\* With one generation, data.json holds the writer's map whenever the writer is
\* between messages, from its first one on: it is short or empty only while a
\* message is being written (and between File::create and the first message).
FileCurrentAtRest ==
    MaxResets = 0 =>
        (wpc[1] \in {"serve", "beat"} /\ loaded[1] # Nothing => file = Json(wmap[1]))

\* Where requests of c are: 0 is the router, a number of Gens an actor, and the
\* position 0 its hand.
Chan(g) == IF g = 0 THEN rch ELSE kch[g]
Hand(g) == IF g = 0 THEN rhand ELSE khand[g]
PlacesAt(g, c) ==
    {i \in DOMAIN Chan(g) : Chan(g)[i].kind \in {"set", "get", "delete"} /\ Chan(g)[i].from = c}
      \cup (IF Hand(g) # Nothing /\ Hand(g).from = c THEN {0} ELSE {})
Places(c) == UNION {{g} \X PlacesAt(g, c) : g \in Gens \cup {0}}

\* A request is in one place: the router's channel or hand, an actor's channel
\* or hand; and it is there exactly while its caller waits.  So no caller is
\* answered twice, and none waits for a request that is gone.
RequestsInFlight ==
    \A c \in Clients :
        Cardinality(Places(c)) = IF call[c] # Nothing /\ result[c] = Nothing THEN 1 ELSE 0

\* The router, which everybody's heartbeats wait for, never waits itself: with
\* at most Cap callers no actor's channel is full when it delivers.
RouterNeverWaits ==
    rhand # Nothing /\ Cardinality(Clients) <= Cap => KvRoom(gen)

\* The map the callers will meet: the actor's, once it has one; before that
\* what is on its way from data.json.
CurrentMap ==
    IF kpc[1] \in {"serve", "forward", "beat"} THEN kmap[1]
    ELSE IF loaded[1] # Nothing THEN loaded[1]
    ELSE IF wpc[1] \in {"none", "load"} THEN Parse(file) ELSE wmap[1]

Store == INSTANCE KvStore WITH store <- CurrentMap
=============================================================================
