---------------------------- MODULE TcpExchange -----------------------------
(***************************************************************************)
(* One exchange of the TCP client and server of chap10: send_data of the     *)
(* client awaits a TcpSender with the serialized Data and then a             *)
(* TcpReceiver that reads to the end of the stream; handle_client of the     *)
(* server reads, decodes, answers and closes.                               *)
(*                                                                          *)
(* Abstractions.  The serialized Data is the sequence of units 1 .. Size; a  *)
(* socket takes SendRoom of them that the server has not read.  TCP delivers *)
(* in any pieces: a read returns any part of what was sent, or WouldBlock.   *)
(* No other task has the stream, so try_lock never fails.                    *)
(***************************************************************************)
EXTENDS Integers, Sequences, SequencesExt

CONSTANTS
    Size,       \* units of a serialized Data
    SendRoom,   \* units the sockets hold on the way to the server
    ReplySize,  \* units of the server's answer
    MaxRetries  \* bound: polls of TcpSender that meet WouldBlock

Frame == [i \in 1 .. Size |-> i]
Reply == [i \in 1 .. ReplySize |-> -i]

VARIABLES
    cpc,        \* client: send, receive, done
    pos,        \* units of this poll's write_all that are written
    retries,    \* polls of TcpSender that met WouldBlock
    toServer, toClient,     \* units sent and not read
    spc,        \* handle_client: read, wait, closed
    buffer,     \* units it read
    decoded,    \* what Data::deserialize made of them: no, ok, error, garbled
    reset,      \* the server closed with units unread
    got,        \* TcpReceiver.buffer
    result      \* of send_data: none, ok, error

vars == <<cpc, pos, retries, toServer, toClient, spc, buffer, decoded, reset, got, result>>

Init ==
    /\ cpc = "send" /\ pos = 0 /\ retries = 0
    /\ toServer = <<>> /\ toClient = <<>>
    /\ spc = "read" /\ buffer = <<>> /\ decoded = "no" /\ reset = FALSE
    /\ got = <<>> /\ result = "none"

-----------------------------------------------------------------------------
(* TcpSender::poll.                                                        *)

SpaceLeft == SendRoom - Len(toServer)
Least(a, b) == IF a < b THEN a ELSE b

\* Mutant: what is left after a partial write is taken from the front.
WriteFromFront ==
    /\ cpc = "send" /\ spc # "closed" /\ SpaceLeft > 0
    /\ LET n == Least(Size - pos, SpaceLeft)
       IN  /\ toServer' = toServer \o SubSeq(Frame, 1, n)
           /\ pos' = pos + n
           /\ cpc' = IF pos + n = Size THEN "receive" ELSE "send"
    /\ UNCHANGED <<retries, toClient, spc, buffer, decoded, reset, got, result>>

\* One write of write_all takes what fits.
Write ==
    /\ cpc = "send" /\ spc # "closed" /\ SpaceLeft > 0
    /\ LET n == Least(Size - pos, SpaceLeft)
       IN  /\ toServer' = toServer \o SubSeq(Frame, pos + 1, pos + n)
           /\ pos' = pos + n
           /\ cpc' = IF pos + n = Size THEN "receive" ELSE "send"
    /\ UNCHANGED <<retries, toClient, spc, buffer, decoded, reset, got, result>>

\* WouldBlock: write_all does not say how much it wrote, and the next poll
\* writes the whole buffer again.
WriteWouldBlock ==
    /\ cpc = "send" /\ spc # "closed" /\ SpaceLeft = 0 /\ retries < MaxRetries
    /\ pos' = 0 /\ retries' = retries + 1
    /\ UNCHANGED <<cpc, toServer, toClient, spc, buffer, decoded, reset, got, result>>

Finish(res) ==
    /\ cpc' = "done" /\ result' = res

\* The server has closed: the write fails, or is taken and answered by a reset, which
\* may come when the client has read the answer and the end of the stream.
WriteToClosed ==
    /\ cpc = "send" /\ spc = "closed"
    /\ \/ Finish("error") /\ UNCHANGED reset
       \/ cpc' = "receive" /\ reset' \in {reset, TRUE} /\ UNCHANGED result
    /\ UNCHANGED <<pos, retries, toServer, toClient, spc, buffer, decoded, got>>

-----------------------------------------------------------------------------
(* TcpReceiver::poll.                                                      *)

\* Mutant: the buffer is replaced, not extended.
ReceiveOver ==
    /\ cpc = "receive" /\ toClient # <<>>
    /\ \E n \in 1 .. Len(toClient) :
         /\ got' = SubSeq(toClient, 1, n)
         /\ toClient' = SubSeq(toClient, n + 1, Len(toClient))
    /\ UNCHANGED <<cpc, pos, retries, toServer, spc, buffer, decoded, reset, result>>

Receive ==
    /\ cpc = "receive" /\ toClient # <<>>
    /\ \E n \in 1 .. Len(toClient) :
         /\ got' = got \o SubSeq(toClient, 1, n)
         /\ toClient' = SubSeq(toClient, n + 1, Len(toClient))
    /\ UNCHANGED <<cpc, pos, retries, toServer, spc, buffer, decoded, reset, result>>

\* Mutant: the end of the stream is waited for although a reset came.
ReceiveEndOnly ==
    /\ cpc = "receive" /\ spc = "closed" /\ ~reset /\ toClient = <<>>
    /\ Finish("ok")
    /\ UNCHANGED <<pos, retries, toServer, toClient, spc, buffer, decoded, reset, got>>

\* Ok(0) after everything, or the error of a reset at any moment.
ReceiveEnd ==
    /\ cpc = "receive" /\ spc = "closed"
    /\ \/ ~reset /\ toClient = <<>> /\ Finish("ok")
       \/ reset /\ Finish("error")
    /\ UNCHANGED <<pos, retries, toServer, toClient, spc, buffer, decoded, reset, got>>

-----------------------------------------------------------------------------
(* handle_client and Data::deserialize.                                    *)

\* read_exact of the fields: a part of a Data is an error; what comes after a
\* whole one is not looked at.  A part with another Data behind it may decode, the
\* length field being made of both.
Deserialize(s) ==
    IF IsPrefix(Frame, s) THEN {"ok"}
    ELSE IF IsPrefix(s, Frame) THEN {"error"} ELSE {"garbled", "error"}

Read ==
    /\ spc = "read" /\ toServer # <<>>
    /\ \E n \in 1 .. Len(toServer) :
         /\ buffer' = buffer \o SubSeq(toServer, 1, n)
         /\ toServer' = SubSeq(toServer, n + 1, Len(toServer))
    /\ UNCHANGED <<cpc, pos, retries, toClient, spc, decoded, reset, got, result>>

\* WouldBlock with something in the buffer.  (With nothing in it the task sleeps
\* and reads again; the client never ends before the server has answered.)
Decode ==
    /\ spc = "read" /\ buffer # <<>>
    /\ decoded' \in Deserialize(buffer)
    /\ spc' = "wait"
    /\ UNCHANGED <<cpc, pos, retries, toServer, toClient, buffer, reset, got, result>>

\* The answer is given whether decoding worked or not, and the stream dropped.
\* With units unread, or still on the way, the client will see a reset, unless
\* it has read the end of the stream before they come.
Answer ==
    /\ spc = "wait"
    /\ toClient' = Reply
    /\ reset' \in IF toServer = <<>> THEN {FALSE} ELSE {FALSE, TRUE}
    /\ spc' = "closed"
    /\ UNCHANGED <<cpc, pos, retries, toServer, buffer, decoded, got, result>>

-----------------------------------------------------------------------------
Client == Write \/ WriteWouldBlock \/ WriteToClosed \/ Receive \/ ReceiveEnd
Server == Read \/ Decode \/ Answer

Next == Client \/ Server

Spec == Init /\ [][Next]_vars

\* Both executors poll their pending tasks again and again.
FairSpec == Spec /\ WF_vars(Client) /\ WF_vars(Server)

-----------------------------------------------------------------------------
(* Properties.                                                             *)

\* The server never decodes a Data that was not sent, as long as no poll of
\* TcpSender was blocked: pieces alone make decoding fail, a second poll that
\* starts anew puts a whole message behind a part of itself.
GarbledOnlyByRetry == decoded = "garbled" => retries > 0

\* send_data returns Ok only with the whole answer, although the server may close
\* while units of the request are unread.
OkIsWholeReply == result = "ok" => got = Reply

\* send_data returns, whatever the server could read of its request, if a write
\* is not blocked again and again.
ExchangeEnds == <>(cpc = "done")
=============================================================================
