---------------------------- MODULE EchoServers -----------------------------
(***************************************************************************)
(* Two more echo servers: epoll_server.rs, one thread that waits with epoll   *)
(* (level-triggered) and then reads with a blocking read_line, and            *)
(* tokio_echo_server.rs, one task for each connection.  A peer sends the      *)
(* pieces 1 .. Pieces, some in one segment; those in Ends end a line, those    *)
(* in Garbled are not UTF-8.  Until it is gone, a peer reads what it is sent.  *)
(***************************************************************************)
EXTENDS Integers, Sequences, FiniteSets, SequencesExt

CONSTANTS
    Peers, Pieces, Ends,
    Garbled,    \* pairs of a peer and a piece
    OutRoom     \* capacity of the BufWriter, in pieces

VARIABLES
    server,     \* epoll, tokio, or down after a panic
    sent,       \* pieces each peer has sent
    ended,      \* each peer: open, eof (it will send no more), reset
    net,        \* received by the kernel, not read
    inBuf,      \* the BufReader
    outBuf,     \* the BufWriter of tokio's server; epoll's is flushed at once
    echoed,     \* sent back
    accepted, closed,
    batch       \* the events of one epoll_wait that are not handled yet

echoVars == <<server, sent, ended, net, inBuf, outBuf, echoed, accepted, closed, batch>>

Listen == "listen"
Empty == [p \in Peers |-> <<>>]

Init ==
    /\ server \in {"epoll", "tokio"}
    /\ sent = [p \in Peers |-> 0] /\ ended = [p \in Peers |-> "open"]
    /\ net = Empty /\ inBuf = Empty /\ outBuf = Empty /\ echoed = Empty
    /\ accepted = {} /\ closed = {} /\ batch = <<>>

-----------------------------------------------------------------------------
(* The peers.                                                              *)

PeerSends(p) ==
    /\ ended[p] = "open"
    /\ \E k \in sent[p] + 1 .. Pieces :
        /\ sent' = [sent EXCEPT ![p] = k]
        /\ net' = [net EXCEPT ![p] = @ \o [i \in 1 .. k - sent[p] |-> sent[p] + i]]
    /\ UNCHANGED <<server, ended, inBuf, outBuf, echoed, accepted, closed, batch>>

PeerLeaves(p) ==
    /\ ended[p] = "open"
    /\ \E how \in {"eof", "reset"} : ended' = [ended EXCEPT ![p] = how]
    /\ UNCHANGED <<server, sent, net, inBuf, outBuf, echoed, accepted, closed, batch>>

\* One that has closed both sides answers what is sent to it by a reset.
PeerIsGone(p) ==
    /\ ended[p] = "eof" /\ echoed[p] # <<>>
    /\ ended' = [ended EXCEPT ![p] = "reset"]
    /\ UNCHANGED <<server, sent, net, inBuf, outBuf, echoed, accepted, closed, batch>>

-----------------------------------------------------------------------------
(* read_line on a BufReader, which reads the socket when it is empty, and     *)
(* then all there is.                                                        *)

HasLine(s) == \E i \in DOMAIN s : s[i] \in Ends
Buffered(p) == IF HasLine(inBuf[p]) THEN inBuf[p] ELSE inBuf[p] \o net[p]

FirstEnd(s) == CHOOSE i \in DOMAIN s : s[i] \in Ends /\ \A j \in 1 .. i - 1 : s[j] \notin Ends

\* Up to the end of the line, or of the stream.
LineLength(s) == IF HasLine(s) THEN FirstEnd(s) ELSE Len(s)
Line(p) == SubSeq(Buffered(p), 1, LineLength(Buffered(p)))

\* read_line returns; until then it waits for more.
LineReturns(p) == HasLine(Buffered(p)) \/ ended[p] = "eof"

\* What read_line has taken is an error if it is not text.
IsText(p) == \A i \in DOMAIN Line(p) : <<p, Line(p)[i]>> \notin Garbled

\* Mutant: the line is not cleared, and the next is appended to it.
TakeLineAgain(p) ==
    /\ inBuf' = [inBuf EXCEPT ![p] = Buffered(p)]
    /\ net' = IF HasLine(inBuf[p]) THEN net ELSE [net EXCEPT ![p] = <<>>]

TakeLine(p) ==
    /\ inBuf' = [inBuf EXCEPT ![p] = SubSeq(Buffered(p), Len(Line(p)) + 1, Len(Buffered(p)))]
    /\ net' = IF HasLine(inBuf[p]) THEN net ELSE [net EXCEPT ![p] = <<>>]

-----------------------------------------------------------------------------
(* epoll_server.rs.                                                        *)

Readable == {p \in accepted \ closed : net[p] # <<>> \/ ended[p] # "open"}

EpollWait ==
    /\ server = "epoll" /\ batch = <<>>
    /\ LET ready == Readable \cup (IF accepted = Peers THEN {} ELSE {Listen})
       IN  ready # {} /\ \E s \in SetToSeqs(ready) : batch' = s
    /\ UNCHANGED <<server, sent, ended, net, inBuf, outBuf, echoed, accepted, closed>>

Event(e) == server = "epoll" /\ batch # <<>> /\ Head(batch) = e

EpollAccept ==
    /\ Event(Listen)
    /\ \E p \in Peers \ accepted : accepted' = accepted \cup {p}
    /\ batch' = Tail(batch)
    /\ UNCHANGED <<server, sent, ended, net, inBuf, outBuf, echoed, closed>>

\* One line for one event, echoed and flushed.  A line as long as the BufWriter goes
\* to the socket by one write, whose count is not looked at.  The socket blocks, so
\* that it takes the whole line, unless the peer is gone in the middle of it.
EpollEcho(p) ==
    /\ Event(p) /\ ended[p] # "reset" /\ LineReturns(p) /\ Line(p) # <<>> /\ IsText(p)
    /\ TakeLine(p)
    /\ \/ echoed' = [echoed EXCEPT ![p] = @ \o Line(p)] /\ UNCHANGED ended
       \/ /\ Len(Line(p)) >= OutRoom
          /\ \E n \in 1 .. Len(Line(p)) - 1 : echoed' = [echoed EXCEPT ![p] = @ \o SubSeq(Line(p), 1, n)]
          /\ ended' = [ended EXCEPT ![p] = "reset"]
    /\ batch' = Tail(batch)
    /\ UNCHANGED <<server, sent, outBuf, accepted, closed>>

\* n == 0.
EpollClose(p) ==
    /\ Event(p) /\ ended[p] # "reset" /\ LineReturns(p) /\ Line(p) = <<>>
    /\ closed' = closed \cup {p}
    /\ batch' = Tail(batch)
    /\ UNCHANGED <<server, sent, ended, net, inBuf, outBuf, echoed, accepted>>

\* The line is not text, or the read or the write fails for a reset, and main
\* unwraps the error: every connection ends with it.
EpollPanics(p) ==
    /\ Event(p) /\ (ended[p] = "reset" \/ (LineReturns(p) /\ ~IsText(p)))
    /\ server' = "down"
    /\ UNCHANGED <<sent, ended, net, inBuf, outBuf, echoed, accepted, closed, batch>>

-----------------------------------------------------------------------------
(* tokio_echo_server.rs.                                                   *)

TokioAccept(p) ==
    /\ server = "tokio" /\ p \notin accepted
    /\ accepted' = accepted \cup {p}
    /\ UNCHANGED <<server, sent, ended, net, inBuf, outBuf, echoed, closed, batch>>

Task(p) == server = "tokio" /\ p \in accepted \ closed

\* What does not fit into the BufWriter pushes out what is in it, and a line as long
\* as the BufWriter does not go through it; nothing else is sent.
WriteAll(p, line) ==
    IF Len(line) >= OutRoom
    THEN outBuf' = [outBuf EXCEPT ![p] = <<>>] /\ echoed' = [echoed EXCEPT ![p] = @ \o outBuf[p] \o line]
    ELSE IF Len(outBuf[p]) + Len(line) > OutRoom
         THEN outBuf' = [outBuf EXCEPT ![p] = line] /\ echoed' = [echoed EXCEPT ![p] = @ \o outBuf[p]]
         ELSE outBuf' = [outBuf EXCEPT ![p] = @ \o line] /\ UNCHANGED echoed

TokioEcho(p) ==
    /\ Task(p) /\ LineReturns(p) /\ Line(p) # <<>> /\ IsText(p)
    /\ TakeLine(p) /\ WriteAll(p, Line(p))
    /\ UNCHANGED <<server, sent, ended, accepted, closed, batch>>

\* The end of the stream, a line that is not text, an error of the read, or one of
\* the write, which is unwrapped: the task ends, by itself or by a panic, and drops
\* the BufWriter with what is in it.
TokioClose(p) ==
    /\ Task(p)
    /\ ended[p] = "reset" \/ (LineReturns(p) /\ (Line(p) = <<>> \/ ~IsText(p)))
    /\ closed' = closed \cup {p}
    /\ UNCHANGED <<server, sent, ended, net, inBuf, outBuf, echoed, accepted, batch>>

Serve ==
    \/ EpollWait \/ EpollAccept
    \/ \E p \in Peers : EpollEcho(p) \/ EpollClose(p) \/ EpollPanics(p)
    \/ \E p \in Peers : TokioAccept(p) \/ TokioEcho(p) \/ TokioClose(p)

Next == Serve \/ \E p \in Peers : PeerSends(p) \/ PeerLeaves(p) \/ PeerIsGone(p)

\* A server that can go on does; nobody has to send.
FairSpec == Init /\ [][Next]_echoVars /\ WF_echoVars(Serve)

-----------------------------------------------------------------------------
(* Properties.                                                             *)

\* Between socket, reader and writer no piece is lost, doubled or overtaken while
\* its connection is served and its peer there.
EchoedInOrder ==
    \A p \in Peers : ended[p] # "reset" =>
        echoed[p] \o outBuf[p] \o inBuf[p] \o net[p] = [i \in 1 .. sent[p] |-> i]

\* tokio_echo_server.rs comes to the end of each connection that its peer ends,
\* whatever the other peers do.
EveryEndIsSeen ==
    \A p \in Peers : server = "tokio" /\ ended[p] # "open" ~> p \in closed

\* epoll_server.rs has sent everything back, lines that waited in its BufReaders
\* included, and closed every connection, when all peers have ended their sides, and
\* none of them is gone or has sent what is not text.
AllHaveEnded ==
    \A p \in Peers : ended[p] = "eof" /\ \A i \in 1 .. sent[p] : <<p, i>> \notin Garbled
EveryoneIsAnswered ==
    <>[](server # "tokio" /\ AllHaveEnded =>
            closed = Peers /\ \A p \in Peers : Len(echoed[p]) = sent[p])

\* It reads whatever comes as long as it comes in whole lines of text, although
\* read_line blocks its only thread.
WholeLinesAreRead ==
    <>[](server = "epoll" /\ (\A p \in Peers : sent[p] \in Ends \cup {0}) => net = Empty)

ServersServe == EveryEndIsSeen /\ EveryoneIsAnswered /\ WholeLinesAreRead
=============================================================================
