----------------------------- MODULE Coroutines -----------------------------
(***************************************************************************)
(* The hand-written schedulers: the Executor of chap5/executor.rs, the one    *)
(* of scheduled_coroutine.rs, whose tasks put themselves back through a       *)
(* channel, the one of chap10 with the test in its main.rs, the rounds over a *)
(* vector of coroutine_control.rs, and the loops that resume a reader and a   *)
(* writer (coroutine_manager.rs, generator.rs, coroutine.rs).  All of them    *)
(* give turns.  What a coroutine needs, random or the time, is a number of    *)
(* resumes chosen beforehand.                                                *)
(***************************************************************************)
EXTENDS Integers, Sequences, FiniteSets, SequencesExt

CONSTANT MaxTurns   \* at least the 4 of CountingFuture

\* A ring: the coroutines in the order in which they were added; turns: the resumes
\* each takes, 0 where it may be any number up to MaxTurns; awaited: those whose
\* end ends the loop; mayFail: those with an unwrap in resume.
Ring(order, turns, awaited, mayFail) ==
    [order |-> order, turns |-> turns, awaited |-> awaited, mayFail |-> mayFail]
Each(order, turns) == Ring(order, [c \in ToSet(order) |-> turns], ToSet(order), {})

SleepCoroutines == Each(<<"sleep1", "sleep2", "sleep3">>, 0)    \* until the time has elapsed
RandCoroutines == Each(<<"rand1", "rand2", "rand3">>, 0)        \* until the value is below 9
Hello == Each(<<"hello">>, 3)                                   \* Hello, World, End
CountingFutures == [Each(<<"counter", "counter_2">>, 4) EXCEPT !.awaited = {"counter"}]
ReadCoroutine == Each(<<"reader">>, 0)                          \* until a line is no number
WriteCoroutine == [Each(<<"writer">>, MaxTurns) EXCEPT !.mayFail = {"writer"}]

\* The writer is never complete: the loop ends with the reader.
Manager ==
    Ring(<<"reader", "writer">>, [c \in {"reader", "writer"} |-> IF c = "reader" THEN 0 ELSE MaxTurns],
         {"reader"}, {"writer"})

Rings == {SleepCoroutines, RandCoroutines, Hello, CountingFutures, ReadCoroutine, WriteCoroutine, Manager}

VARIABLES
    ring,       \* the program
    need,       \* resumes until each coroutine is complete
    resumed,
    queue,      \* coroutines, vec or channel; a vector's dead are skipped
    outcome     \* running, over, panicked

ringVars == <<ring, need, resumed, queue, outcome>>

Members == ToSet(ring.order)

Init ==
    /\ ring \in Rings
    /\ need \in {n \in [Members -> 1 .. MaxTurns] : \A c \in Members : ring.turns[c] \in {0, n[c]}}
    /\ resumed = [c \in Members |-> 0]
    /\ queue = ring.order /\ outcome = "running"

-----------------------------------------------------------------------------
\* Mutant: what yields is put where the next is taken from.
BackInFront(c) == queue' = <<c>> \o Tail(queue)

BackInQueue(c) == queue' = Append(Tail(queue), c)

Resume(c) ==
    /\ outcome = "running" /\ queue # <<>> /\ Head(queue) = c
    /\ resumed' = [resumed EXCEPT ![c] = @ + 1]
    /\ UNCHANGED <<ring, need>>

Yielded(c) ==
    /\ Resume(c) /\ resumed[c] + 1 < need[c]
    /\ BackInQueue(c)
    /\ UNCHANGED outcome

Complete(c) ==
    /\ Resume(c) /\ resumed[c] + 1 = need[c]
    /\ queue' = Tail(queue)
    /\ outcome' = IF \A d \in ring.awaited : resumed'[d] = need[d] THEN "over" ELSE outcome

Panics(c) ==
    /\ Resume(c) /\ c \in ring.mayFail
    /\ outcome' = "panicked"
    /\ UNCHANGED queue

Turn(c) == Yielded(c) \/ Complete(c) \/ Panics(c)
Everyone == UNION {ToSet(r.order) : r \in Rings}
Next == \E c \in Everyone : Turn(c)

FairSpec == Init /\ [][Next]_ringVars /\ WF_ringVars(Next)

-----------------------------------------------------------------------------
(* Properties.                                                             *)

\* Coroutines that are not complete take turns: none is resumed twice while
\* another waits, and those added first are never behind.
TurnsAreFair ==
    \A i, j \in DOMAIN ring.order :
        LET c == ring.order[i]
            d == ring.order[j]
        IN  i < j /\ resumed[c] < need[c] /\ resumed[d] < need[d]
            => resumed[c] - resumed[d] \in {0, 1}

\* Every loop comes to its end (that of scheduled_coroutine.rs to a channel that is
\* empty for ever, for run holds a sender itself): no turn is lost.
LoopEnds == <>(outcome # "running")
=============================================================================
