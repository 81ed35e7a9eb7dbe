---------------------------- MODULE MCEventBus ------------------------------
(* Instances of EventBus for TLC. *)
EXTENDS EventBus

StopAtThird == {3}
=============================================================================
