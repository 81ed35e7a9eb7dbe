------------------------------ MODULE EventBus ------------------------------
(***************************************************************************)
(* The event bus of chap6/event_bus.rs: every subscriber has a queue of its *)
(* own in the chamber, send puts the event into every queue, and a garbage  *)
(* collector takes out the queues of handles that were dropped.  The chamber *)
(* is behind a tokio mutex; dead_ids is behind a mutex of its own, which    *)
(* unsubscribe takes without the chamber's.                                 *)
(*                                                                          *)
(* Abstractions.  fetch_add gives every subscription an id of its own, so a *)
(* subscriber is its id (2^32 subscriptions would have to come first).      *)
(* The events are numbered in the order they are sent.                      *)
(***************************************************************************)
EXTENDS Integers, Sequences

CONSTANTS
    Subs,       \* tasks that run consume_event_bus
    Events,     \* events sent (3 in main)
    Stops       \* events a consumer stops at (3.0 in the code)

ASSUME BusAssumption == Events \in Nat /\ Stops \subseteq 1 .. Events

VARIABLES
    sent,       \* events sent so far
    cpc,        \* each consumer: start, poll, drop, end
    from, last, \* events sent when it subscribed; the last event it took
    chamber,    \* the ids that have a queue
    queue,      \* their queues
    dead,       \* dead_ids
    gpc, copy   \* the collector: sleep, clone, clear, remove; its copy of dead_ids

busVars == <<sent, chamber, queue>>
vars == <<busVars, cpc, from, last, dead, gpc, copy>>

Init ==
    /\ sent = 0
    /\ cpc = [c \in Subs |-> "start"]
    /\ from = [c \in Subs |-> 0] /\ last = [c \in Subs |-> 0]
    /\ chamber = {} /\ queue = [c \in Subs |-> <<>>]
    /\ dead = {}
    /\ gpc = "sleep" /\ copy = {}

\* The chamber's lock is held across steps by the collector alone: everybody
\* else releases it before the next await.
ChamberFree == gpc = "sleep"

-----------------------------------------------------------------------------
Subscribe(c) ==
    /\ cpc[c] = "start" /\ ChamberFree
    /\ cpc' = [cpc EXCEPT ![c] = "poll"]
    /\ from' = [from EXCEPT ![c] = sent] /\ last' = [last EXCEPT ![c] = sent]
    /\ chamber' = chamber \cup {c}
    /\ queue' = [queue EXCEPT ![c] = <<>>]
    /\ UNCHANGED <<sent, dead, gpc, copy>>

\* Mutant: a queue that still has an event does not get another one.
SendIfEmpty ==
    /\ sent < Events /\ ChamberFree
    /\ sent' = sent + 1
    /\ queue' = [c \in Subs |->
                    IF c \in chamber /\ queue[c] = <<>> THEN <<sent + 1>> ELSE queue[c]]
    /\ UNCHANGED <<cpc, from, last, chamber, dead, gpc, copy>>

Send ==
    /\ sent < Events /\ ChamberFree
    /\ sent' = sent + 1
    /\ queue' = [c \in Subs |-> IF c \in chamber THEN Append(queue[c], sent + 1) ELSE queue[c]]
    /\ UNCHANGED <<cpc, from, last, chamber, dead, gpc, copy>>

\* Mutant: pop_back.
PollBack(c) ==
    /\ cpc[c] = "poll" /\ ChamberFree /\ queue[c] # <<>>
    /\ last' = [last EXCEPT ![c] = queue[c][Len(queue[c])]]
    /\ queue' = [queue EXCEPT ![c] = SubSeq(@, 1, Len(@) - 1)]
    /\ cpc' = [cpc EXCEPT ![c] = IF last'[c] \in Stops THEN "drop" ELSE "poll"]
    /\ UNCHANGED <<sent, from, chamber, dead, gpc, copy>>

\* The unwrap of get_mut is LiveIsSubscribed; a poll that finds nothing changes
\* nothing, and the consumer polls again.
Poll(c) ==
    /\ cpc[c] = "poll" /\ ChamberFree /\ queue[c] # <<>>
    /\ last' = [last EXCEPT ![c] = Head(queue[c])]
    /\ queue' = [queue EXCEPT ![c] = Tail(@)]
    /\ cpc' = [cpc EXCEPT ![c] = IF Head(queue[c]) \in Stops THEN "drop" ELSE "poll"]
    /\ UNCHANGED <<sent, from, chamber, dead, gpc, copy>>

\* The handle is dropped; only the lock of dead_ids is needed.
Unsubscribe(c) ==
    /\ cpc[c] = "drop"
    /\ dead' = dead \cup {c}
    /\ cpc' = [cpc EXCEPT ![c] = "end"]
    /\ UNCHANGED <<busVars, from, last, gpc, copy>>

-----------------------------------------------------------------------------
(* garbage_collector: dead_ids is locked once to copy it, once to clear it. *)

GcLock ==
    /\ gpc = "sleep"
    /\ gpc' = "clone"
    /\ UNCHANGED <<busVars, cpc, from, last, dead, copy>>

\* Mutant: dead_ids is cleared before it is copied.
GcClearFirst ==
    /\ gpc = "clone"
    /\ copy' = {} /\ dead' = {}
    /\ gpc' = "clear"
    /\ UNCHANGED <<busVars, cpc, from, last>>

GcClone ==
    /\ gpc = "clone"
    /\ copy' = dead
    /\ gpc' = "clear"
    /\ UNCHANGED <<busVars, cpc, from, last, dead>>

GcClear ==
    /\ gpc = "clear"
    /\ dead' = {}
    /\ gpc' = "remove"
    /\ UNCHANGED <<busVars, cpc, from, last, copy>>

\* Mutant: queues that are empty are collected too.
GcRemoveEmpty ==
    /\ gpc = "remove"
    /\ chamber' = {c \in chamber \ copy : queue[c] # <<>>}
    /\ copy' = {} /\ gpc' = "sleep"
    /\ UNCHANGED <<sent, queue, cpc, from, last, dead>>

GcRemove ==
    /\ gpc = "remove"
    /\ chamber' = chamber \ copy
    /\ copy' = {} /\ gpc' = "sleep"
    /\ UNCHANGED <<sent, queue, cpc, from, last, dead>>

-----------------------------------------------------------------------------
Collector == GcLock \/ GcClone \/ GcClear \/ GcRemove
Consumer(c) == Subscribe(c) \/ Poll(c) \/ Unsubscribe(c)
Next == Send \/ Collector \/ \E c \in Subs : Consumer(c)

Spec == Init /\ [][Next]_vars

\* tokio's mutex is first come, first served, so a task that keeps asking for the
\* chamber gets it between two rounds of the collector; main sends all events.
FairSpec ==
    /\ Spec
    /\ SF_vars(Send) /\ WF_vars(Collector)
    /\ \A c \in Subs : SF_vars(Subscribe(c) \/ Poll(c)) /\ WF_vars(Unsubscribe(c))

-----------------------------------------------------------------------------
(* Properties.                                                             *)

\* The type of every variable.
TypeOK ==
    /\ sent \in 0 .. Events
    /\ cpc \in [Subs -> {"start", "poll", "drop", "end"}]
    /\ from \in [Subs -> 0 .. Events] /\ last \in [Subs -> 0 .. Events]
    /\ chamber \subseteq Subs /\ queue \in [Subs -> Seq(1 .. Events)]
    /\ dead \subseteq Subs /\ copy \subseteq Subs
    /\ gpc \in {"sleep", "clone", "clear", "remove"}

\* A handle that is not dropped has its queue, whatever the collector takes out
\* meanwhile: the unwrap in poll never panics, and no event misses a subscriber.
LiveIsSubscribed == \A c \in Subs : cpc[c] \in {"poll", "drop"} => c \in chamber

\* Every subscriber gets every event sent since it subscribed, once and in order:
\* its queue holds the events between the last it took and the last that was sent.
NothingMissed ==
    \A c \in chamber :
        /\ from[c] <= last[c] /\ last[c] + Len(queue[c]) = sent
        /\ \A i \in 1 .. Len(queue[c]) : queue[c][i] = last[c] + i

\* The collector has only ids of dropped handles, and holds no copy between rounds.
OnlyDeadAreCollected ==
    /\ \A c \in dead \cup copy : cpc[c] = "end"
    /\ gpc \in {"sleep", "clone"} => copy = {}

IndInv == TypeOK /\ LiveIsSubscribed /\ NothingMissed /\ OnlyDeadAreCollected

\* A consumer that subscribed before an event it stops at was sent comes to its
\* end, although it has to take the chamber from collector and sender again and
\* again; one that subscribed later waits for ever.
ConsumersEnd ==
    \A c \in Subs :
        (cpc[c] = "poll" /\ \E e \in Stops : e > last[c]) ~> cpc[c] = "end"

\* A queue whose id is in dead_ids is taken out, unless the id came between the
\* copy and the clearing of dead_ids: those ids are lost and their queues, which
\* every send goes on filling, are never freed.
SeenDeadAreCollected ==
    \A c \in Subs : (c \in dead /\ gpc # "clear") ~> c \notin chamber
=============================================================================
