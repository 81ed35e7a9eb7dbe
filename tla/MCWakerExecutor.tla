-------------------------- MODULE MCWakerExecutor ---------------------------
(* The instance of WakerExecutor for TLC. *)
EXTENDS WakerExecutor
=============================================================================
