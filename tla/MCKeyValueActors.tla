-------------------------- MODULE MCKeyValueActors --------------------------
(***************************************************************************)
(* Instances of KeyValueActors for TLC, its refinement of KvStore and its   *)
(* temporal properties.                                                     *)
(***************************************************************************)
EXTENDS KeyValueActors

AllKinds == {"set", "get", "delete"}
SetGet == {"set", "get"}
BothTimeOut == {"kv", "writer"}
NoTimeouts == {}
SetOnly == {"set"}

\* Without resets and file errors the actors are one atomic map, starting from
\* what data.json held (although File::create truncates it before the actor has
\* it), and every call is answered.
RefinesKvStore == Store!Spec

\* Every call ends: it is answered, or its request is dropped and the caller's
\* unwrap tells it so, also across resets and file errors.
EveryCallEnds ==
    \A c \in Clients :
        call[c] # Nothing /\ result[c] = Nothing ~> result[c] # Nothing

\* What was acknowledged reaches data.json: again and again the file holds the
\* map of the actor.
FileCatchesUp ==
    \A g \in Gens : []<>(kpc[g] = "serve" => file = Json(kmap[g]))

\* "value.unwrap()" (key_value_store_actor_model.rs:278) on the get that main
\* makes after a Reset, of a key it set before: what was set stays set.
AckedSurvivesReset ==
    \A k \in Keys :
        [] ((\E c \in Clients : result[c] = "ok" /\ call[c].kind = "set" /\ call[c].key = k)
             => [] (\A c \in Clients :
                      call[c] # Nothing /\ call[c].kind = "get" /\ call[c].key = k
                        => result[c] # "none"))
=============================================================================
