-------------------------- MODULE MCIoMultiplexing --------------------------
(***************************************************************************)
(* Instances of IoMultiplexing for TLC, and the properties that only make    *)
(* sense for a given shape of the input.                                    *)
(***************************************************************************)
EXTENDS IoMultiplexing, TLC

OpenMoves == {"open", "stalled", "left"}
FinOnly == {"fin"}
EveryPiece == 1 .. MaxPieces
LastPiece == {MaxPieces}

\* One client's first line is too long for the BufWriter and its second is not
\* UTF-8; the others' lines are short and clean.
Odd == CHOOSE c \in Conns : TRUE
LongLine == {<<Odd, 1>>}
GarbledLine == {<<Odd, 2>>}
NoPieces == {}

\* The two threads implement LineEcho: no line is lost, repeated or swapped
\* between a client's write and the write back, whatever the order of polls,
\* batches and drains, though the write of a long one may be short (line 329);
\* no task is lost on its way round channel, queue and waker map, so that under
\* fair threads every line is answered, and every connection closed that ended
\* or sent what is no line (241-242); and nothing but the stated conditions
\* stops the server.
RefinesLineEcho == Echo!Spec

\* "一行読み込む future 型" (a future that reads one line, io_multiplexing.rs:200):
\* what comes back to a client is made of whole lines.
WholeLines ==
    \A c \in Conns : \A i \in DOMAIN echoed[c] :
        echoed[c][i] - 1 \in 1 .. MaxPieces \ Ends
            => i > 1 /\ echoed[c][i - 1] = echoed[c][i] - 1
=============================================================================
