--------------------------- MODULE IoMultiplexing ---------------------------
(***************************************************************************)
(* The echo server of kohno_book_chap5/io_multiplexing.rs: an executor      *)
(* thread that polls tasks, a selector thread that waits in epoll, and the  *)
(* clients on the other end of the sockets.  The two threads share the      *)
(* request queue (under a mutex), the eventfd that announces requests and   *)
(* the channel of runnable tasks.                                           *)
(*                                                                          *)
(* Abstractions.  What a client sends is a sequence of numbered pieces, and *)
(* Ends says which pieces finish a line.  What a line is like matters in    *)
(* two ways: Long says which pieces make theirs as long as the BufWriter or *)
(* longer (8 KiB), Garbled which are not UTF-8.                             *)
(* rx[c] is what was sent and not yet read, whether it sits in the kernel or in the BufReader: the two     *)
(* agree whenever the selector looks, because a pending reader has drained  *)
(* its BufReader.  A connection's two descriptors (try_clone) are one       *)
(* member of Fds: both are opened and closed by one poll.                   *)
(***************************************************************************)
EXTENDS Integers, Sequences, FiniteSets, SequencesExt

CONSTANTS
    Conns,      \* client connections; a connection is also the name of its task
    Server,     \* the task of the accept loop
    NoTask,
    Fds,        \* descriptors the process may still open for connections
    ListenFd,   \* the descriptor of the listener
    EventFd,    \* the descriptor of the eventfd
    NoFd,
    Cap,        \* capacity of the channel of runnable tasks (1024 in the code)
    MaxPieces,  \* bound on the pieces a client sends
    Ends,       \* the pieces that end with a newline
    Long,       \* pieces of clients that make a line too long for the BufWriter
    Garbled,    \* pieces of clients that are not UTF-8
    PeerMoves   \* what a client may do besides sending

ASSUME ConstantsAssumption ==
    /\ Server \notin Conns /\ NoTask \notin Conns \cup {Server}
    /\ ListenFd \notin Fds /\ EventFd \notin Fds \cup {ListenFd}
    /\ NoFd \notin Fds \cup {ListenFd, EventFd}
    /\ Cap \in Nat \ {0} /\ MaxPieces \in Nat
    /\ Ends \subseteq 1 .. MaxPieces
    /\ Long \subseteq Conns \X (1 .. MaxPieces)
    /\ Garbled \subseteq Conns \X (1 .. MaxPieces)
    /\ PeerMoves \subseteq {"open", "stalled", "fin", "left", "gone"}

Tasks == Conns \cup {Server}
IoFds == Fds \cup {ListenFd}

VARIABLES
    peer,       \* the client: not connected, open, not reading, half closed, closed, reset
    backlog,    \* connections the kernel has and the server has not accepted
    nsent,      \* pieces the client sent
    rx,         \* pieces sent and not yet read by the server
    echoed,     \* pieces written back to the client
    cut,        \* pieces written back without the end of their line
    fd,         \* the descriptor a task reads or accepts from
    task,       \* Task objects: not spawned, live, future completed
    chan,       \* the sync_channel of runnable tasks
    current,    \* the task the executor is polling
    epc,        \* where the executor thread is
    queue,      \* IOSelector.queue
    event,      \* counter of the eventfd
    epoll,      \* interest list of epfd: descriptor -> none, armed, disarmed
    wakers,     \* IOSelector.wakers: descriptor -> task
    events,     \* what is left of the batch epoll_wait returned
    spc         \* where the selector thread is

netVars  == <<peer, backlog, nsent, rx, echoed, cut>>
taskVars == <<fd, task, chan, current, epc>>
selVars  == <<epoll, wakers, events, spc>>
vars == <<netVars, taskVars, queue, event, selVars>>

Ops == [op : {"add", "remove"}, fd : IoFds, task : Tasks \cup {NoTask}]

Init ==
    /\ peer = [c \in Conns |-> "away"]
    /\ backlog = <<>>
    /\ nsent = [c \in Conns |-> 0]
    /\ rx = [c \in Conns |-> <<>>]
    /\ echoed = [c \in Conns |-> <<>>]
    /\ cut = [c \in Conns |-> {}]
    /\ fd = [t \in Tasks |-> NoFd]
    /\ task = [t \in Tasks |-> IF t = Server THEN "live" ELSE "none"]
    /\ chan = <<Server>>
    /\ current = NoTask
    /\ epc = "recv"
    /\ queue = <<>>
    /\ event = 0
    /\ epoll = [f \in IoFds |-> "none"]
    /\ wakers = [f \in IoFds |-> NoTask]
    /\ events = {}
    /\ spc = "start"

\* A panic of the executor ends the process; one of the selector thread poisons
\* the mutexes it holds and nothing is woken any more.  The model stops there.
Crashed == epc = "panic" \/ spc = "panic"

-----------------------------------------------------------------------------
(* The clients.                                                            *)

Connect(c) ==
    /\ peer[c] = "away" /\ fd[Server] # NoFd
    /\ peer' = [peer EXCEPT ![c] = "open"]
    /\ backlog' = Append(backlog, c)
    /\ UNCHANGED <<nsent, rx, echoed, cut, taskVars, queue, event, selVars>>

Send(c) ==
    /\ peer[c] \in {"open", "stalled"} /\ nsent[c] < MaxPieces
    /\ nsent' = [nsent EXCEPT ![c] = @ + 1]
    /\ rx' = [rx EXCEPT ![c] = Append(@, nsent[c] + 1)]
    /\ UNCHANGED <<peer, backlog, echoed, cut, taskVars, queue, event, selVars>>

\* An open client stops reading until the server's send buffer is full, shuts
\* its sending side down, closes, or resets; a stalled one may read again.
PeerMove(c) ==
    \E s \in PeerMoves :
        /\ \/ peer[c] = "open" /\ s # "open"
           \/ peer[c] = "stalled" /\ s \in {"open", "gone"}
        /\ peer' = [peer EXCEPT ![c] = s]
        /\ UNCHANGED <<backlog, nsent, rx, echoed, cut, taskVars, queue, event, selVars>>

-----------------------------------------------------------------------------
(* The executor thread.                                                    *)

\* Executor::run: take a task from the channel and poll it.
Recv ==
    /\ epc = "recv" /\ chan # <<>>
    /\ current' = Head(chan)
    /\ chan' = Tail(chan)
    /\ epc' = "poll"
    /\ UNCHANGED <<netVars, fd, task, queue, event, selVars>>

\* AsyncListener::listen, the first thing the server task does.
Listen ==
    /\ epc = "poll" /\ current = Server /\ fd[Server] = NoFd
    /\ fd' = [fd EXCEPT ![Server] = ListenFd]
    /\ UNCHANGED <<netVars, task, chan, current, epc, queue, event, selVars>>

FreeFds == {f \in Fds : \A t \in Tasks : fd[t] # f}

\* Accept::poll with a connection waiting: any error but WouldBlock panics, and
\* accept or try_clone fail when no descriptor is left.
Accept ==
    /\ epc = "poll" /\ current = Server /\ fd[Server] # NoFd /\ backlog # <<>>
    /\ IF FreeFds = {}
       THEN epc' = "panic" /\ UNCHANGED <<backlog, fd>>
       ELSE /\ \E f \in FreeFds : fd' = [fd EXCEPT ![Head(backlog)] = f]
            /\ backlog' = Tail(backlog)
            /\ epc' = "spawn"
    /\ UNCHANGED <<peer, nsent, rx, echoed, cut, task, chan, current, queue, event, selVars>>

\* The send of a task (Spawner::spawn, Task::wake_by_ref): it blocks while the
\* channel is full, and the only thread that receives is the executor.
SendTask(t) == Len(chan) < Cap /\ chan' = Append(chan, t)

\* Spawner::spawn for the accepted connection, called by the executor itself.
Spawn ==
    /\ epc = "spawn"
    /\ \E c \in Conns :
         /\ task[c] = "none" /\ fd[c] # NoFd
         /\ task' = [task EXCEPT ![c] = "live"]
         /\ SendTask(c)
    /\ epc' = "poll"
    /\ UNCHANGED <<netVars, fd, current, queue, event, selVars>>

AcceptWouldBlock ==
    /\ epc = "poll" /\ current = Server /\ fd[Server] # NoFd /\ backlog = <<>>
    /\ epc' = "register"
    /\ UNCHANGED <<netVars, fd, task, chan, current, queue, event, selVars>>

HasLine(s) == \E i \in DOMAIN s : s[i] \in Ends
FirstEnd(s) == CHOOSE i \in DOMAIN s : s[i] \in Ends /\ \A j \in 1 .. i - 1 : s[j] \notin Ends

\* How many pieces BufReader::read_line returns as a line: up to the newline, or
\* what is left before the end of the stream; 0 when it returns no line.
LineLength(c) ==
    IF HasLine(rx[c]) THEN FirstEnd(rx[c])
    ELSE IF peer[c] \in {"fin", "left"} THEN Len(rx[c])
    ELSE 0

\* What write and flush may return: the first write to a closed client can still
\* succeed; the socket is non-blocking, so a full send buffer is an error too.
WriteResults(c) ==
    CASE peer[c] \in {"open", "fin"} -> {"ok"}
      [] peer[c] = "left" -> {"ok", "err"}
      [] OTHER -> {"err"}

\* What the reader still holds after a line of n pieces was taken.
AfterLine(c, n) == SubSeq(rx[c], n + 1, Len(rx[c]))

\* The line read_line returns holds a piece of the given kind.
LineHas(c, kind) == \E i \in 1 .. LineLength(c) : <<c, rx[c][i]>> \in kind

\* How many pieces of a line a write that succeeds may pass on.  BufWriter hands
\* a line of its capacity or more to the socket at once, which takes what it has
\* room for, and the count that write returns is not looked at.
Written(c) == IF LineHas(c, Long) THEN 1 .. LineLength(c) ELSE {LineLength(c)}

\* ReadLine::poll is ready with a line, which the task writes back and unwraps.
\* A short write may end inside its last piece.
EchoLine ==
    /\ epc = "poll" /\ current \in Conns
    /\ LineLength(current) > 0 /\ ~LineHas(current, Garbled)
    /\ \/ /\ "ok" \in WriteResults(current)
          /\ \E n \in Written(current) :
               /\ echoed' = [echoed EXCEPT ![current] = @ \o SubSeq(rx[current], 1, n)]
               /\ \/ n = LineLength(current) /\ UNCHANGED cut
                  \/ /\ LineHas(current, Long)
                     /\ cut' = [cut EXCEPT ![current] = @ \cup {rx[current][n]}]
          /\ rx' = [rx EXCEPT ![current] = AfterLine(current, LineLength(current))]
          /\ UNCHANGED epc
       \/ /\ "err" \in WriteResults(current)
          /\ epc' = "panic" /\ UNCHANGED <<echoed, cut, rx>>
    /\ UNCHANGED <<peer, backlog, nsent, fd, task, chan, current, queue, event, selVars>>

\* Ok(0), or an error that is not WouldBlock: the loop of the task ends, with
\* the reader and what it holds.  A line that is not UTF-8 is such an error,
\* and the client is still there.
ReadClosed ==
    /\ epc = "poll" /\ current \in Conns
    /\ \/ LineLength(current) = 0 /\ peer[current] \in {"fin", "left", "gone"}
       \/ LineHas(current, Garbled)
    /\ rx' = [rx EXCEPT ![current] = <<>>]
    /\ epc' = "unregister"
    /\ UNCHANGED <<peer, backlog, nsent, echoed, cut, fd, task, chan, current, queue, event, selVars>>

\* read_line consumed an unfinished line into a String of this poll, then met
\* WouldBlock: the String is dropped with the poll.
AfterWouldBlock(c) == <<>>

ReadWouldBlock ==
    /\ epc = "poll" /\ current \in Conns /\ LineLength(current) = 0
    /\ peer[current] \in {"open", "stalled"}
    /\ rx' = [rx EXCEPT ![current] = AfterWouldBlock(current)]
    /\ epc' = "register"
    /\ UNCHANGED <<peer, backlog, nsent, echoed, cut, fd, task, chan, current, queue, event, selVars>>

\* The selector holds the queue's mutex from the first pop_front of a drain to
\* the read of the eventfd.
QueueFree == spc # "drain"

\* (mutants: the eventfd is not written; the request overtakes older ones)
SilentRequest(op) == QueueFree /\ queue' = Append(queue, op) /\ UNCHANGED event
FrontRequest(op) == QueueFree /\ queue' = <<op>> \o queue /\ event' = event + 1
\* The body both share: one push and one write of 1 under the queue's mutex.
Request(op) == QueueFree /\ queue' = Append(queue, op) /\ event' = event + 1

\* (mutant: the waker is registered and also woken at once)
RegisterAndWake ==
    /\ epc = "register"
    /\ Request([op |-> "add", fd |-> fd[current], task |-> current])
    /\ chan' = Append(chan, current)
    /\ epc' = "recv" /\ current' = NoTask
    /\ UNCHANGED <<netVars, fd, task, selVars>>
\* IOSelector::register and the Pending that follows it.
Register ==
    /\ epc = "register"
    /\ Request([op |-> "add", fd |-> fd[current], task |-> current])
    /\ epc' = "recv" /\ current' = NoTask
    /\ UNCHANGED <<netVars, fd, task, chan, selVars>>

\* IOSelector::unregister, from the Drop of the AsyncReader.
Unregister ==
    /\ epc = "unregister"
    /\ Request([op |-> "remove", fd |-> fd[current], task |-> NoTask])
    /\ epc' = "close"
    /\ UNCHANGED <<netVars, fd, task, chan, current, selVars>>

\* The streams are dropped after it: the kernel frees the descriptor and forgets
\* it in the interest list.  The future has completed.
Close ==
    /\ epc = "close"
    /\ epoll' = [epoll EXCEPT ![fd[current]] = "none"]
    /\ fd' = [fd EXCEPT ![current] = NoFd]
    /\ task' = [task EXCEPT ![current] = "done"]
    /\ epc' = "recv" /\ current' = NoTask
    /\ UNCHANGED <<netVars, chan, queue, event, wakers, events, spc>>

-----------------------------------------------------------------------------
(* The selector thread.                                                    *)

\* The eventfd enters the interest list when the thread starts.
SelectorStart ==
    /\ spc = "start"
    /\ spc' = "wait"
    /\ UNCHANGED <<netVars, taskVars, queue, event, epoll, wakers, events>>

Readable(f) ==
    \/ f = ListenFd /\ backlog # <<>>
    \/ \E c \in Conns : fd[c] = f /\ (rx[c] # <<>> \/ peer[c] \in {"fin", "left", "gone"})

Ready == {f \in IoFds : epoll[f] = "armed" /\ Readable(f)}
           \cup (IF event > 0 THEN {EventFd} ELSE {})

\* (mutant: the flag is forgotten)
StillArmed(batch) == epoll
\* EPOLLONESHOT: what a batch reports is disarmed until it is registered again.
Disarmed(batch) ==
    [f \in IoFds |-> IF f \in batch THEN "disarmed" ELSE epoll[f]]

EpollWait ==
    /\ spc = "wait" /\ Ready # {}
    /\ events' = Ready
    /\ epoll' = Disarmed(Ready)
    /\ spc' = "dispatch"
    /\ UNCHANGED <<netVars, taskVars, queue, event, wakers>>

\* (mutant: the map is read with get, not remove)
WakersKeeping(f) == wakers
WakersWithout(f) == [wakers EXCEPT ![f] = NoTask]

\* An event of a socket: its waker leaves the map and its task enters the
\* channel.
DispatchFd ==
    /\ spc = "dispatch"
    /\ \E f \in events \ {EventFd} :
         IF wakers[f] = NoTask
         THEN spc' = "panic" /\ UNCHANGED <<chan, wakers, events>>
         ELSE /\ SendTask(wakers[f])
              /\ wakers' = WakersWithout(f)
              /\ events' = events \ {f}
              /\ UNCHANGED spc
    /\ UNCHANGED <<netVars, fd, task, current, epc, queue, event, epoll>>

\* (mutant: the queue is drained in every batch, announced or not)
DrainAnyBatch ==
    /\ spc = "dispatch"
    /\ spc' = "drain"
    /\ UNCHANGED <<netVars, taskVars, queue, event, epoll, wakers, events>>
\* The event of the eventfd: the queue is locked and drained.
BeginDrain ==
    /\ spc = "dispatch" /\ EventFd \in events
    /\ spc' = "drain"
    /\ UNCHANGED <<netVars, taskVars, queue, event, epoll, wakers, events>>

\* add_event panics on a descriptor that is closed, and on one that has a waker;
\* one that epoll already knows (EEXIST) is armed again by EPOLL_CTL_MOD.
\* (mutant: EEXIST is ignored)
ArmedIfNew(f) == IF epoll[f] = "none" THEN [epoll EXCEPT ![f] = "armed"] ELSE epoll
Armed(f) == [epoll EXCEPT ![f] = "armed"]
AddFails(f) == (\A t \in Tasks : fd[t] # f) \/ wakers[f] # NoTask

AddEvent ==
    /\ spc = "drain" /\ queue # <<>> /\ Head(queue).op = "add"
    /\ queue' = Tail(queue)
    /\ IF AddFails(Head(queue).fd)
       THEN spc' = "panic" /\ UNCHANGED <<epoll, wakers>>
       ELSE /\ epoll' = Armed(Head(queue).fd)
            /\ wakers' = [wakers EXCEPT ![Head(queue).fd] = Head(queue).task]
            /\ UNCHANGED spc
    /\ UNCHANGED <<netVars, taskVars, event, events>>

\* rm_event: the error of EPOLL_CTL_DEL is ignored.
RmEvent ==
    /\ spc = "drain" /\ queue # <<>> /\ Head(queue).op = "remove"
    /\ queue' = Tail(queue)
    /\ epoll' = [epoll EXCEPT ![Head(queue).fd] = "none"]
    /\ wakers' = [wakers EXCEPT ![Head(queue).fd] = NoTask]
    /\ UNCHANGED <<netVars, taskVars, event, events, spc>>

\* (mutant: one request is taken for each notification)
DrainEndEarly ==
    /\ spc = "drain" /\ event > 0
    /\ event' = 0
    /\ events' = events \ {EventFd}
    /\ spc' = "dispatch"
    /\ UNCHANGED <<netVars, taskVars, queue, epoll, wakers>>
\* The read of the eventfd clears the counter, and blocks when it is zero.
DrainEnd ==
    /\ spc = "drain" /\ queue = <<>> /\ event > 0
    /\ event' = 0
    /\ events' = events \ {EventFd}
    /\ spc' = "dispatch"
    /\ UNCHANGED <<netVars, taskVars, queue, epoll, wakers>>

BatchDone ==
    /\ spc = "dispatch" /\ events = {}
    /\ spc' = "wait"
    /\ UNCHANGED <<netVars, taskVars, queue, event, epoll, wakers, events>>

-----------------------------------------------------------------------------
Executor ==
    \/ Recv \/ Listen \/ Accept \/ Spawn \/ AcceptWouldBlock
    \/ EchoLine \/ ReadClosed \/ ReadWouldBlock \/ Register \/ Unregister \/ Close

Selector ==
    \/ SelectorStart \/ EpollWait \/ DispatchFd
    \/ BeginDrain \/ AddEvent \/ RmEvent \/ DrainEnd \/ BatchDone

Clients == \E c \in Conns : Connect(c) \/ Send(c) \/ PeerMove(c)

Next == ~Crashed /\ (Executor \/ Selector \/ Clients)

Spec == Init /\ [][Next]_vars

\* Both threads are OS threads, and their loops have no step that waits for
\* anything but what their guards say.  Clients owe nothing.
FairSpec ==
    /\ Spec
    /\ WF_vars(~Crashed /\ Executor)
    /\ WF_vars(~Crashed /\ Selector)
-----------------------------------------------------------------------------
(* Properties.                                                             *)

\* The type of every variable; every batch is a set of known descriptors and a
\* request names the descriptor and the task it is for.
TypeOK ==
    /\ peer \in [Conns -> {"away", "open", "stalled", "fin", "left", "gone"}]
    /\ backlog \in Seq(Conns)
    /\ nsent \in [Conns -> 0 .. MaxPieces]
    /\ rx \in [Conns -> Seq(1 .. MaxPieces)]
    /\ echoed \in [Conns -> Seq(1 .. MaxPieces)]
    /\ cut \in [Conns -> SUBSET (1 .. MaxPieces)]
    /\ fd \in [Tasks -> IoFds \cup {NoFd}]
    /\ task \in [Tasks -> {"none", "live", "done"}]
    /\ chan \in Seq(Tasks)
    /\ current \in Tasks \cup {NoTask}
    /\ epc \in {"recv", "poll", "spawn", "register", "unregister", "close", "panic"}
    /\ queue \in Seq(Ops)
    /\ event \in Nat
    /\ epoll \in [IoFds -> {"none", "armed", "disarmed"}]
    /\ wakers \in [IoFds -> Tasks \cup {NoTask}]
    /\ events \subseteq IoFds \cup {EventFd}
    /\ spc \in {"start", "wait", "dispatch", "drain", "panic"}

IsAdd(i) == queue[i].op = "add"
InChan(t) == \E i \in 1 .. Len(chan) : chan[i] = t
InQueue(t) == \E i \in 1 .. Len(queue) : IsAdd(i) /\ queue[i].task = t
InWakers(t) == \E f \in IoFds : wakers[f] = t

\* None of the selector thread's panics happens (the unwrap of a missing waker
\* at 111, the assert on a second waker at 79, epoll_ctl on a closed descriptor
\* at 74), although tasks register, close and reuse descriptors while a batch
\* is being dispatched.
SelectorNeverPanics == spc # "panic"

\* A task is in one place at a time: polled, in the channel, in a request, or
\* in the waker map under its own descriptor.  So no task is polled by two
\* wake-ups, none is polled after its future completed, and the channel never
\* holds more entries than there are tasks.
AtMostOneHome ==
    /\ \A i, j \in 1 .. Len(chan) : chan[i] = chan[j] => i = j
    /\ \A i, j \in 1 .. Len(queue) :
         IsAdd(i) /\ IsAdd(j) /\ queue[i].task = queue[j].task => i = j
    /\ \A f \in IoFds : wakers[f] # NoTask => fd[wakers[f]] = f
    /\ \A t \in Tasks :
         /\ InChan(t) => ~InQueue(t) /\ ~InWakers(t) /\ current # t
         /\ InQueue(t) => ~InWakers(t) /\ current # t
         /\ InWakers(t) => current # t
         /\ InChan(t) \/ InQueue(t) \/ InWakers(t) \/ current = t => task[t] = "live"

\* No wake-up is lost: a live task is in one of those places, a waker in the
\* map belongs to an armed descriptor or to an event still to be dispatched,
\* and requests in the queue have their notification in the eventfd.
NoLostTask ==
    /\ \A t \in Tasks :
         task[t] = "live" => current = t \/ InChan(t) \/ InQueue(t) \/ InWakers(t)
    /\ \A f \in IoFds : wakers[f] # NoTask => epoll[f] = "armed" \/ f \in events
    /\ queue # <<>> => event > 0

\* A request to remove a descriptor outlives the descriptor, whose number may be
\* given to the next connection: when it is executed it never takes away a
\* waker, an armed registration or an event of the new owner, and no request to
\* add precedes it.
StaleRemoveHarmless ==
    \A i \in 1 .. Len(queue) :
        ~IsAdd(i) =>
            /\ wakers[queue[i].fd] = NoTask
            /\ epoll[queue[i].fd] # "armed"
            /\ queue[i].fd \notin events
            /\ \A j \in 1 .. i - 1 : IsAdd(j) => queue[j].fd # queue[i].fd

\* The executor is the only receiver of the channel it sends new tasks to, so a
\* full channel would stop it for ever.  With room for every task there never
\* is a full channel when either thread sends.
SendsNeverBlock ==
    epc = "spawn" \/ (spc = "dispatch" /\ events \ {EventFd} # {}) => Len(chan) < Cap

\* The thread that clears the eventfd holds the queue's mutex: it would take
\* both threads down with it if it ever found the counter at zero.
DrainNeverBlocks == spc = "drain" => event > 0

-----------------------------------------------------------------------------
(* The inductive invariant behind the properties above.                    *)

\* The executor polls a task whenever it is not receiving, and what it does
\* next fits the task.
ControlInv ==
    /\ current = NoTask <=> epc = "recv"
    /\ epc = "spawn" => current = Server
    /\ epc = "register" => fd[current] # NoFd
    /\ epc \in {"unregister", "close"} => current \in Conns

\* Descriptors: one owner each, held exactly by the live connections and by the
\* one accepted connection whose task is about to be spawned.
FdInv ==
    /\ fd[Server] \in {NoFd, ListenFd} /\ task[Server] = "live"
    /\ \A c \in Conns : fd[c] \in Fds \cup {NoFd}
    /\ \A t, u \in Tasks : fd[t] # NoFd /\ fd[t] = fd[u] => t = u
    /\ \A c \in Conns :
         /\ task[c] = "live" => fd[c] # NoFd
         /\ task[c] = "done" => fd[c] = NoFd
         /\ task[c] = "none" /\ fd[c] # NoFd => epc = "spawn"
    /\ \A c, d \in Conns :
         task[c] = "none" /\ fd[c] # NoFd /\ task[d] = "none" /\ fd[d] # NoFd => c = d

\* A connection waits in the backlog once, before it has a task.
BacklogInv ==
    /\ \A i, j \in 1 .. Len(backlog) : backlog[i] = backlog[j] => i = j
    /\ \A i \in 1 .. Len(backlog) : task[backlog[i]] = "none" /\ fd[backlog[i]] = NoFd
    /\ \A c \in Conns : peer[c] = "away" =>
         /\ task[c] = "none" /\ fd[c] = NoFd
         /\ \A i \in 1 .. Len(backlog) : backlog[i] # c

\* A request to add carries a task and the descriptor that task owns.
QueueInv ==
    \A i \in 1 .. Len(queue) :
        IsAdd(i) => queue[i].task # NoTask /\ fd[queue[i].task] = queue[i].fd

\* What epoll may still report has a waker; what it reported is disarmed.
SelectorInv ==
    /\ \A f \in IoFds : epoll[f] = "armed" => wakers[f] # NoTask
    /\ \A f \in IoFds : f \in events => wakers[f] # NoTask /\ epoll[f] # "armed"
    /\ EventFd \in events => event > 0
    /\ spc = "drain" => EventFd \in events
    /\ spc \in {"start", "wait"} => events = {}

\* Inductive: AtMostOneHome and StaleRemoveHarmless need each other (a request
\* to add finds its slot free because its task is nowhere else, a request to
\* remove hits nobody because its descriptor's owner was running when it was
\* made), and both need to know who owns which descriptor.
IndInv ==
    /\ TypeOK /\ ControlInv /\ FdInv /\ BacklogInv /\ QueueInv /\ SelectorInv
    /\ AtMostOneHome /\ NoLostTask /\ StaleRemoveHarmless /\ SelectorNeverPanics

-----------------------------------------------------------------------------
\* The server as its clients see it, when every piece is a line of its own.
Echo == INSTANCE LineEcho WITH
    MaxLines <- MaxPieces,
    Capacity <- Cardinality(Fds),
    client <- peer,
    sent <- nsent,
    closed <- {c \in Conns : task[c] = "done"},
    up <- ~Crashed
=============================================================================
