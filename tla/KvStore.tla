------------------------------ MODULE KvStore -------------------------------
(***************************************************************************)
(* The store as its callers should see it: a map, and calls that each take  *)
(* effect at one moment between the request and its answer.  This is what   *)
(* set, get and delete of key_value_store_actor_model.rs promise as long as *)
(* nobody resets the actors.                                                *)
(***************************************************************************)
EXTENDS Integers

CONSTANTS Clients, Keys, Vals, Nothing, Kinds, MaxCalls

VARIABLES store, call, result, calls

svars == <<store, call, result, calls>>

Requests(c) ==
    [kind : Kinds \cap {"set"}, key : Keys, val : Vals, from : {c}]
      \cup [kind : Kinds \ {"set"}, key : Keys, val : {Nothing}, from : {c}]

Init ==
    /\ store \in [Keys -> Vals \cup {Nothing}]
    /\ call = [c \in Clients |-> Nothing]
    /\ result = [c \in Clients |-> Nothing]
    /\ calls = [c \in Clients |-> 0]

Ask(c) ==
    /\ call[c] = Nothing \/ result[c] # Nothing
    /\ calls[c] < MaxCalls
    /\ \E op \in Requests(c) : call' = [call EXCEPT ![c] = op]
    /\ result' = [result EXCEPT ![c] = Nothing]
    /\ calls' = [calls EXCEPT ![c] = @ + 1]
    /\ UNCHANGED store

Serve(c) ==
    /\ call[c] # Nothing /\ result[c] = Nothing
    /\ LET op == call[c]
       IN \/ /\ op.kind = "get"
             /\ result' = [result EXCEPT ![c] =
                              IF store[op.key] = Nothing THEN "none" ELSE store[op.key]]
             /\ UNCHANGED store
          \/ /\ op.kind \in {"set", "delete"}
             /\ store' = [store EXCEPT ![op.key] = op.val]
             /\ result' = [result EXCEPT ![c] = "ok"]
    /\ UNCHANGED <<call, calls>>

Next == \E c \in Clients : Ask(c) \/ Serve(c)

\* The answers are right.
Steps == Init /\ [][Next]_svars

\* And they come.
Spec == Steps /\ \A c \in Clients : WF_svars(Serve(c))
=============================================================================
