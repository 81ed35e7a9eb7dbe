------------------------------ MODULE LineEcho ------------------------------
(***************************************************************************)
(* What the echo server of io_multiplexing.rs promises its clients: the     *)
(* lines of each connection come back once each, in order, and only a line  *)
(* of 8 KiB or more may come back without its end; a connection is closed   *)
(* after its client ended it and every line of it was answered, or at a     *)
(* line that is not UTF-8; and the server stops only when it has more       *)
(* connections than descriptors, or a client it still owes a line does not  *)
(* take it.  Nothing is said of threads, tasks, wakers or descriptors.      *)
(***************************************************************************)
EXTENDS Integers, Sequences, FiniteSets

CONSTANTS
    Conns, MaxLines, Capacity,
    Long,       \* lines of clients that may come back in part
    Garbled     \* lines of clients that end their connection

VARIABLES
    client,     \* what each client does with its connection
    sent,       \* lines each client sent
    echoed,     \* the lines each client got back
    cut,        \* those of them that came back without their end
    closed,     \* connections the server is done with
    up          \* the server is running

evars == <<client, sent, echoed, cut, closed, up>>

Init ==
    /\ client = [c \in Conns |-> "away"]
    /\ sent = [c \in Conns |-> 0]
    /\ echoed = [c \in Conns |-> <<>>]
    /\ cut = [c \in Conns |-> {}]
    /\ closed = {}
    /\ up = TRUE

Owed(c) == sent[c] - Len(echoed[c])
NextLine(c) == <<c, Len(echoed[c]) + 1>>

Send(c) ==
    /\ client[c] \in {"open", "stalled"} /\ sent[c] < MaxLines
    /\ sent' = [sent EXCEPT ![c] = @ + 1]
    /\ UNCHANGED <<client, echoed, cut, closed, up>>

Become(c) ==
    /\ \/ client[c] = "away" /\ client' = [client EXCEPT ![c] = "open"]
       \/ /\ client[c] = "open"
          /\ \E s \in {"stalled", "fin", "left", "gone"} : client' = [client EXCEPT ![c] = s]
       \/ /\ client[c] = "stalled"
          /\ \E s \in {"open", "gone"} : client' = [client EXCEPT ![c] = s]
    /\ UNCHANGED <<sent, echoed, cut, closed, up>>

\* The next line goes back to a client that can take it.
Echo(c) ==
    /\ client[c] \in {"open", "fin", "left"} /\ c \notin closed
    /\ Owed(c) > 0 /\ NextLine(c) \notin Garbled
    /\ echoed' = [echoed EXCEPT ![c] = Append(@, Len(@) + 1)]
    /\ \/ UNCHANGED cut
       \/ NextLine(c) \in Long /\ cut' = [cut EXCEPT ![c] = @ \cup {Len(echoed[c]) + 1}]
    /\ UNCHANGED <<client, sent, closed, up>>

Close(c) ==
    /\ c \notin closed
    /\ \/ client[c] \in {"fin", "left", "gone"} /\ Owed(c) = 0
       \/ Owed(c) > 0 /\ NextLine(c) \in Garbled
    /\ closed' = closed \cup {c}
    /\ UNCHANGED <<client, sent, echoed, cut, up>>

Served == {c \in Conns : client[c] # "away"} \ closed

Stop ==
    /\ \/ Cardinality(Served) > Capacity
       \/ \E c \in Conns \ closed :
            client[c] \in {"stalled", "left", "gone"} /\ Owed(c) > 0 /\ NextLine(c) \notin Garbled
    /\ up' = FALSE
    /\ UNCHANGED <<client, sent, echoed, cut, closed>>

Next ==
    /\ up
    /\ \/ \E c \in Conns : Send(c) \/ Become(c) \/ Echo(c) \/ Close(c)
       \/ Stop

\* The lines are right, and nothing else stops the server.
Steps == Init /\ [][Next]_evars

\* A running server answers every line and closes every ended connection,
\* whatever the other connections do.
Spec == Steps /\ \A c \in Conns : WF_evars(up /\ Echo(c)) /\ WF_evars(up /\ Close(c))
=============================================================================
