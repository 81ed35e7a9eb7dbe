-------------------------- MODULE MCStealingQueue ---------------------------
(* The five programs of QueuePrograms on StealingQueue, for TLC.  One more     *)
(* main, ours, uses try_join!, which no main of the repository does: as many    *)
(* tasks as there are workers may panic, and one more is joined nevertheless.  *)
EXTENDS StealingQueue, QueuePrograms

TryJoin ==
    [Program(Stealing(1, 1),
               ("fails1" :> "High") @@ ("fails2" :> "Low") @@ ("count" :> "Low"),
               ("fails1" :> 1) @@ ("fails2" :> 1) @@ ("count" :> 2),
               <<Spawn("fails1"), Spawn("fails2"), Spawn("count"),
                 <<"try_join", "fails1">>, <<"try_join", "fails2">>, Join("count")>>)
     EXCEPT !.panics = {"fails1", "fails2"}]

ProgramSet == AllPrograms \cup {TryJoin}
=============================================================================
