--------------------------- MODULE ParkingServer ----------------------------
(***************************************************************************)
(* The server of chap10: an acceptor thread deals connections out to worker *)
(* threads in turn; a worker polls its connections in a round-robin         *)
(* executor (chap10/async_runtime/src/executor.rs) and parks when it has    *)
(* none.  Worker and acceptor agree on the parking through an atomic flag   *)
(* per worker and the token of thread::park.                                *)
(*                                                                          *)
(* Abstractions.  A request is Pieces pieces, written one at a time; rx and *)
(* buf count the pieces in the socket and in handle_client's buffer.  Time  *)
(* is a bit per connection: the Sleep its task awaits is over or not.       *)
(***************************************************************************)
EXTENDS Integers, Sequences, FiniteSets, SequencesExt

CONSTANTS
    Workers,    \* number of workers (3 in the code), numbered from 0
    Conns,      \* client connections
    NoConn,
    Pieces,     \* pieces of a request
    PeerEnds    \* ways a client may end early: "left" (closed), "gone" (reset)

ASSUME ServerAssumption ==
    /\ Workers \in Nat \ {0} /\ Pieces \in Nat \ {0}
    /\ NoConn \notin Conns /\ PeerEnds \subseteq {"left", "gone"}

Worker == 0 .. Workers - 1

VARIABLES
    peer,       \* clients: away, open, left, gone
    nsent, rx,  \* pieces sent; pieces waiting in the socket
    backlog,    \* connections the listener has and the acceptor has not
    apc, ahand, index,      \* the acceptor, its connection, the next worker
    chan,       \* the mpsc channel of each worker
    flag,       \* FLAGS
    token,      \* the park token of each worker thread
    wpc, cur,   \* where each worker is, and the task it polls
    polling,    \* Executor.polling of each worker
    tpc,        \* handle_client: none, read, nap, wait, done, dropped
    buf,        \* pieces in its buffer
    got,        \* pieces it decoded
    slept       \* the Sleep it awaits is over

clientVars == <<peer, nsent>>
acceptorVars == <<apc, ahand, index>>
parkVars == <<flag, token>>
taskVars == <<tpc, buf, got, slept>>
vars == <<clientVars, rx, backlog, acceptorVars, chan, parkVars, wpc, cur, polling, taskVars>>

Init ==
    /\ peer = [c \in Conns |-> "away"]
    /\ nsent = [c \in Conns |-> 0] /\ rx = [c \in Conns |-> 0]
    /\ backlog = <<>>
    /\ apc = "accept" /\ ahand = NoConn /\ index = 0
    /\ chan = [w \in Worker |-> <<>>]
    /\ flag = [w \in Worker |-> FALSE] /\ token = [w \in Worker |-> FALSE]
    /\ wpc = [w \in Worker |-> "recv"] /\ cur = [w \in Worker |-> NoConn]
    /\ polling = [w \in Worker |-> <<>>]
    /\ tpc = [c \in Conns |-> "none"]
    /\ buf = [c \in Conns |-> 0] /\ got = [c \in Conns |-> 0]
    /\ slept = [c \in Conns |-> FALSE]

-----------------------------------------------------------------------------
(* Clients and time.                                                       *)

Connect(c) ==
    /\ peer[c] = "away"
    /\ peer' = [peer EXCEPT ![c] = "open"]
    /\ backlog' = Append(backlog, c)
    /\ UNCHANGED <<nsent, rx, acceptorVars, chan, parkVars, wpc, cur, polling, taskVars>>

Send(c) ==
    /\ peer[c] = "open" /\ nsent[c] < Pieces
    /\ nsent' = [nsent EXCEPT ![c] = @ + 1]
    /\ rx' = [rx EXCEPT ![c] = @ + 1]
    /\ UNCHANGED <<peer, backlog, acceptorVars, chan, parkVars, wpc, cur, polling, taskVars>>

End(c) ==
    /\ peer[c] = "open"
    /\ \E e \in PeerEnds : peer' = [peer EXCEPT ![c] = e]
    /\ UNCHANGED <<nsent, rx, backlog, acceptorVars, chan, parkVars, wpc, cur, polling, taskVars>>

Tick(c) ==
    /\ tpc[c] \in {"nap", "wait"} /\ ~slept[c]
    /\ slept' = [slept EXCEPT ![c] = TRUE]
    /\ UNCHANGED <<clientVars, rx, backlog, acceptorVars, chan, parkVars, wpc, cur, polling, tpc, buf, got>>

-----------------------------------------------------------------------------
(* The acceptor: send, load the flag, and if it is set clear it and unpark. *)

Accept ==
    /\ apc = "accept" /\ backlog # <<>>
    /\ ahand' = Head(backlog) /\ backlog' = Tail(backlog)
    /\ apc' = "send"
    /\ UNCHANGED <<clientVars, rx, index, chan, parkVars, wpc, cur, polling, taskVars>>

\* The error of a worker that is gone is ignored, and the stream dropped.
SendToWorker ==
    /\ apc = "send"
    /\ IF wpc[index] = "dead"
       THEN tpc' = [tpc EXCEPT ![ahand] = "dropped"] /\ UNCHANGED chan
       ELSE chan' = [chan EXCEPT ![index] = Append(@, ahand)] /\ UNCHANGED tpc
    /\ ahand' = NoConn
    /\ apc' = "load"
    /\ UNCHANGED <<clientVars, rx, backlog, index, parkVars, wpc, cur, polling, buf, got, slept>>

NextIndex == IF index + 1 = Workers THEN 0 ELSE index + 1

LoadFlag ==
    /\ apc = "load"
    /\ IF flag[index]
       THEN apc' = "clear" /\ UNCHANGED index
       ELSE apc' = "accept" /\ index' = NextIndex
    /\ UNCHANGED <<clientVars, rx, backlog, ahand, chan, parkVars, wpc, cur, polling, taskVars>>

ClearFlag ==
    /\ apc = "clear"
    /\ flag' = [flag EXCEPT ![index] = FALSE]
    /\ apc' = "unpark"
    /\ UNCHANGED <<clientVars, rx, backlog, ahand, index, chan, token, wpc, cur, polling, taskVars>>

\* Mutant: the index moves on before the unpark.
UnparkNext ==
    /\ apc = "unpark"
    /\ token' = [token EXCEPT ![NextIndex] = TRUE]
    /\ apc' = "accept" /\ index' = NextIndex
    /\ UNCHANGED <<clientVars, rx, backlog, ahand, chan, flag, wpc, cur, polling, taskVars>>

Unpark ==
    /\ apc = "unpark"
    /\ token' = [token EXCEPT ![index] = TRUE]
    /\ apc' = "accept" /\ index' = NextIndex
    /\ UNCHANGED <<clientVars, rx, backlog, ahand, chan, flag, wpc, cur, polling, taskVars>>

-----------------------------------------------------------------------------
(* A worker: try_recv, then one poll of the executor.                       *)

Dropped(S) == [c \in Conns |-> IF c \in S THEN "dropped" ELSE tpc[c]]

\* peer_addr fails on a connection that was reset, and its unwrap ends the
\* thread, with its channel and every connection of its executor.
TryRecv(w) ==
    /\ wpc[w] = "recv" /\ chan[w] # <<>>
    /\ LET c == Head(chan[w])
       IN IF peer[c] = "gone"
          THEN /\ wpc' = [wpc EXCEPT ![w] = "dead"]
               /\ tpc' = Dropped(ToSet(chan[w]) \cup ToSet(polling[w]))
               /\ chan' = [chan EXCEPT ![w] = <<>>]
               /\ polling' = [polling EXCEPT ![w] = <<>>]
          ELSE /\ wpc' = [wpc EXCEPT ![w] = "poll"]
               /\ tpc' = [tpc EXCEPT ![c] = "read"]
               /\ chan' = [chan EXCEPT ![w] = Tail(@)]
               /\ polling' = [polling EXCEPT ![w] = Append(@, c)]
    /\ UNCHANGED <<clientVars, rx, backlog, acceptorVars, parkVars, cur, buf, got, slept>>

\* Mutant: parks whenever no request is there, whatever the executor holds.
ParkWhenNoRequest(w) ==
    /\ wpc[w] = "recv" /\ chan[w] = <<>>
    /\ wpc' = [wpc EXCEPT ![w] = "store"]
    /\ UNCHANGED <<clientVars, rx, backlog, acceptorVars, chan, parkVars, cur, polling, taskVars>>

\* Nothing received: with an empty executor the worker goes on to park.
TryRecvEmpty(w) ==
    /\ wpc[w] = "recv" /\ chan[w] = <<>>
    /\ wpc' = [wpc EXCEPT ![w] = IF polling[w] = <<>> THEN "store" ELSE "poll"]
    /\ UNCHANGED <<clientVars, rx, backlog, acceptorVars, chan, parkVars, cur, polling, taskVars>>

\* Mutant: parks without raising the flag.
StoreNoFlag(w) ==
    /\ wpc[w] = "store"
    /\ wpc' = [wpc EXCEPT ![w] = "park"]
    /\ UNCHANGED <<clientVars, rx, backlog, acceptorVars, chan, parkVars, cur, polling, taskVars>>

StoreFlag(w) ==
    /\ wpc[w] = "store"
    /\ flag' = [flag EXCEPT ![w] = TRUE]
    /\ wpc' = [wpc EXCEPT ![w] = "park"]
    /\ UNCHANGED <<clientVars, rx, backlog, acceptorVars, chan, token, cur, polling, taskVars>>

\* park returns when the token is there, and takes it.
Park(w) ==
    /\ wpc[w] = "park" /\ token[w]
    /\ token' = [token EXCEPT ![w] = FALSE]
    /\ wpc' = [wpc EXCEPT ![w] = "poll"]
    /\ UNCHANGED <<clientVars, rx, backlog, acceptorVars, chan, flag, cur, polling, taskVars>>

\* It may also return for no reason.
SpuriousWake(w) ==
    /\ wpc[w] = "park"
    /\ wpc' = [wpc EXCEPT ![w] = "poll"]
    /\ UNCHANGED <<clientVars, rx, backlog, acceptorVars, chan, parkVars, cur, polling, taskVars>>

PollEmpty(w) ==
    /\ wpc[w] = "poll" /\ polling[w] = <<>>
    /\ wpc' = [wpc EXCEPT ![w] = "recv"]
    /\ UNCHANGED <<clientVars, rx, backlog, acceptorVars, chan, parkVars, cur, polling, taskVars>>

\* Mutant: looks at the first task and leaves it in the queue.
PollFront(w) ==
    /\ wpc[w] = "poll" /\ polling[w] # <<>>
    /\ cur' = [cur EXCEPT ![w] = Head(polling[w])]
    /\ wpc' = [wpc EXCEPT ![w] = "run"]
    /\ UNCHANGED <<clientVars, rx, backlog, acceptorVars, chan, parkVars, polling, taskVars>>

PollTask(w) ==
    /\ wpc[w] = "poll" /\ polling[w] # <<>>
    /\ cur' = [cur EXCEPT ![w] = Head(polling[w])]
    /\ polling' = [polling EXCEPT ![w] = Tail(@)]
    /\ wpc' = [wpc EXCEPT ![w] = "run"]
    /\ UNCHANGED <<clientVars, rx, backlog, acceptorVars, chan, parkVars, taskVars>>

\* Mutant: the pending task goes back to the front of the queue.
PendingToFront(w) ==
    /\ polling' = [polling EXCEPT ![w] = <<cur[w]>> \o @]
    /\ wpc' = [wpc EXCEPT ![w] = "recv"]
    /\ cur' = [cur EXCEPT ![w] = NoConn]

\* The poll of w's task is over: Pending puts the task at the end of the queue.
Pending(w) ==
    /\ polling' = [polling EXCEPT ![w] = Append(@, cur[w])]
    /\ wpc' = [wpc EXCEPT ![w] = "recv"]
    /\ cur' = [cur EXCEPT ![w] = NoConn]

-----------------------------------------------------------------------------
(* handle_client, as far as one poll takes it.                              *)

Running(w, pc) == wpc[w] = "run" /\ tpc[cur[w]] = pc

\* Mutant: a second read overwrites what the first one left in the buffer.
ReadOver(w) ==
    /\ Running(w, "read") /\ rx[cur[w]] > 0
    /\ buf' = [buf EXCEPT ![cur[w]] = rx[cur[w]]]
    /\ rx' = [rx EXCEPT ![cur[w]] = 0]
    /\ UNCHANGED <<clientVars, backlog, acceptorVars, chan, parkVars, wpc, cur, polling, tpc, got, slept>>

\* What is there goes to the buffer, and the loop reads again.  (A reset is one
\* failed read, which the loop prints and repeats, and then the end of the stream.)
ReadSome(w) ==
    /\ Running(w, "read") /\ rx[cur[w]] > 0
    /\ buf' = [buf EXCEPT ![cur[w]] = @ + rx[cur[w]]]
    /\ rx' = [rx EXCEPT ![cur[w]] = 0]
    /\ UNCHANGED <<clientVars, backlog, acceptorVars, chan, parkVars, wpc, cur, polling, tpc, got, slept>>

\* WouldBlock with nothing in the buffer: sleep for 10 ms and read again.
ReadNothing(w) ==
    /\ Running(w, "read") /\ rx[cur[w]] = 0 /\ peer[cur[w]] = "open" /\ buf[cur[w]] = 0
    /\ tpc' = [tpc EXCEPT ![cur[w]] = "nap"]
    /\ slept' = [slept EXCEPT ![cur[w]] = FALSE]
    /\ Pending(w)
    /\ UNCHANGED <<clientVars, rx, backlog, acceptorVars, chan, parkVars, buf, got>>

\* WouldBlock with something in the buffer, or the end of the stream: what is in
\* the buffer is decoded, and the task sleeps for a second.
Decode(w) ==
    /\ Running(w, "read") /\ rx[cur[w]] = 0
    /\ peer[cur[w]] # "open" \/ buf[cur[w]] > 0
    /\ got' = [got EXCEPT ![cur[w]] = buf[cur[w]]]
    /\ tpc' = [tpc EXCEPT ![cur[w]] = "wait"]
    /\ slept' = [slept EXCEPT ![cur[w]] = FALSE]
    /\ Pending(w)
    /\ UNCHANGED <<clientVars, rx, backlog, acceptorVars, chan, parkVars, buf>>

\* Sleep::poll before its time.
StillSleeping(w) ==
    /\ wpc[w] = "run" /\ tpc[cur[w]] \in {"nap", "wait"} /\ ~slept[cur[w]]
    /\ Pending(w)
    /\ UNCHANGED <<clientVars, rx, backlog, acceptorVars, chan, parkVars, taskVars>>

NapOver(w) ==
    /\ Running(w, "nap") /\ slept[cur[w]]
    /\ tpc' = [tpc EXCEPT ![cur[w]] = "read"]
    /\ UNCHANGED <<clientVars, rx, backlog, acceptorVars, chan, parkVars, wpc, cur, polling, buf, got, slept>>

\* The answer is written, or the error returned: Ready, and the stream is closed.
Reply(w) ==
    /\ Running(w, "wait") /\ slept[cur[w]]
    /\ tpc' = [tpc EXCEPT ![cur[w]] = "done"]
    /\ wpc' = [wpc EXCEPT ![w] = "recv"]
    /\ cur' = [cur EXCEPT ![w] = NoConn]
    /\ UNCHANGED <<clientVars, rx, backlog, acceptorVars, chan, parkVars, polling, buf, got, slept>>

-----------------------------------------------------------------------------
Acceptor == Accept \/ SendToWorker \/ LoadFlag \/ ClearFlag \/ Unpark

WorkerStep(w) ==
    \/ TryRecv(w) \/ TryRecvEmpty(w) \/ StoreFlag(w) \/ Park(w)
    \/ PollEmpty(w) \/ PollTask(w)
    \/ ReadSome(w) \/ ReadNothing(w) \/ Decode(w) \/ StillSleeping(w) \/ NapOver(w) \/ Reply(w)

Next ==
    \/ \E c \in Conns : Connect(c) \/ Send(c) \/ End(c) \/ Tick(c)
    \/ Acceptor
    \/ \E w \in Worker : WorkerStep(w) \/ SpuriousWake(w)

Spec == Init /\ [][Next]_vars

\* Threads run and time passes; clients owe nothing, and nobody may count on a
\* spurious wake-up.
FairSpec ==
    /\ Spec
    /\ WF_vars(Acceptor)
    /\ \A w \in Worker : WF_vars(WorkerStep(w))
    /\ \A c \in Conns : WF_vars(Tick(c))

-----------------------------------------------------------------------------
(* Properties.                                                             *)

\* The type of every variable.
TypeOK ==
    /\ peer \in [Conns -> {"away", "open", "left", "gone"}]
    /\ nsent \in [Conns -> 0 .. Pieces] /\ rx \in [Conns -> 0 .. Pieces]
    /\ backlog \in Seq(Conns)
    /\ apc \in {"accept", "send", "load", "clear", "unpark"}
    /\ ahand \in Conns \cup {NoConn} /\ index \in Worker
    /\ chan \in [Worker -> Seq(Conns)]
    /\ flag \in [Worker -> BOOLEAN] /\ token \in [Worker -> BOOLEAN]
    /\ wpc \in [Worker -> {"recv", "store", "park", "poll", "run", "dead"}]
    /\ cur \in [Worker -> Conns \cup {NoConn}]
    /\ polling \in [Worker -> Seq(Conns)]
    /\ tpc \in [Conns -> {"none", "read", "nap", "wait", "done", "dropped"}]
    /\ buf \in [Conns -> Nat] /\ got \in [Conns -> Nat]
    /\ slept \in [Conns -> BOOLEAN]

\* No worker is deaf: one that is parked, or about to, with its flag down has
\* the token or an acceptor that is about to give it.  So the acceptor, which
\* wakes only workers whose flag is up, can wake every parked worker, however
\* its load, clear and unpark fall between try_recv, store and park, and
\* whatever spurious wake-ups do.
NoDeafWorker ==
    \A w \in Worker :
        wpc[w] = "park" /\ ~flag[w] => token[w] \/ (apc = "unpark" /\ index = w)

\* A parked worker has no task it should be polling.
ParkedIsIdle ==
    \A w \in Worker : wpc[w] \in {"store", "park"} => polling[w] = <<>> /\ cur[w] = NoConn

\* Where connections are: in the backlog, in the acceptor's hand, and of each
\* worker in its channel, in its executor's queue and being polled.
Spots == {<<"backlog", 0>>, <<"hand", 0>>} \cup ({"chan", "polling", "cur"} \X Worker)

InHand(c) == IF c = NoConn THEN <<>> ELSE <<c>>

Line(p) ==
    CASE p[1] = "backlog" -> backlog
      [] p[1] = "hand" -> InHand(ahand)
      [] p[1] = "chan" -> chan[p[2]]
      [] p[1] = "polling" -> polling[p[2]]
      [] p[1] = "cur" -> InHand(cur[p[2]])

Places(c) == UNION {{p} \X {i \in DOMAIN Line(p) : Line(p)[i] = c} : p \in Spots}

Live == {c \in Conns : peer[c] # "away" /\ tpc[c] \notin {"done", "dropped"}}

\* A connection the server has not finished is in one place, and a finished one in
\* none: no hand-over between acceptor, channel, queue and poll loses or doubles one.
OnePlace == \A c \in Conns : Cardinality(Places(c)) = IF c \in Live THEN 1 ELSE 0

\* What was decoded is the beginning of what the client sent, with nothing lost
\* or counted twice between socket, buffer and decoder.
DecodedIsPrefix ==
    \A c \in Conns :
        /\ buf[c] + rx[c] = nsent[c]
        /\ tpc[c] \in {"wait", "done"} => got[c] = buf[c] /\ (got[c] > 0 \/ peer[c] # "open")

\* "true ならリクエスト到着時にスレッドを起こす" (if true, the thread is woken when
\* a request arrives; chap10/server/src/main.rs:14): no worker stays parked with
\* its flag up, a request in its channel and nobody about to wake it.
FlaggedWorkerIsWoken ==
    \A w \in Worker :
        wpc[w] = "park" /\ flag[w] /\ chan[w] # <<>> =>
            \/ token[w]
            \/ apc \in {"load", "clear", "unpark"} /\ index = w

\* A worker that missed the request it parked beside is woken by the next one:
\* when the acceptor looks at its flag, it leaves park.
NextRequestWakes ==
    \A w \in Worker :
        (wpc[w] = "park" /\ apc = "load" /\ index = w) ~> wpc[w] # "park"

\* Every connection in an executor that has sent something, or whose client is
\* gone, is answered (or tried to be), however many others share the executor,
\* unless a panic takes the worker down.
ExecutorServesAll ==
    \A c \in Conns :
        (tpc[c] \in {"read", "nap", "wait"} /\ (nsent[c] > 0 \/ peer[c] # "open"))
            ~> tpc[c] \in {"done", "dropped"}

\* What the proofs add: only connected clients are inside the server, and there
\* is a task or a connection in hand exactly while it is being passed on.
Connected == {c \in Conns : peer[c] # "away"}

ConnectedOnly ==
    /\ backlog \in Seq(Connected) /\ ahand \in Connected \cup {NoConn}
    /\ chan \in [Worker -> Seq(Connected)] /\ polling \in [Worker -> Seq(Connected)]
    /\ \A c \in Conns \ Connected : tpc[c] = "none"

Hands ==
    /\ apc = "send" <=> ahand # NoConn
    /\ \A w \in Worker : wpc[w] = "run" <=> cur[w] # NoConn

\* No connection is twice in a line or in two lines, and those in a line are the
\* ones the server has not finished.
LinesApart ==
    /\ \A p \in Spots : \A i, j \in 1 .. Len(Line(p)) : Line(p)[i] = Line(p)[j] => i = j
    /\ \A p, q \in Spots : ToSet(Line(p)) \cap ToSet(Line(q)) # {} => p = q
    /\ UNION {ToSet(Line(p)) : p \in Spots} = Live

IndInv == TypeOK /\ ConnectedOnly /\ Hands /\ NoDeafWorker /\ ParkedIsIdle /\ DecodedIsPrefix
=============================================================================
