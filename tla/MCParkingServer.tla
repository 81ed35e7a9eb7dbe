-------------------------- MODULE MCParkingServer ---------------------------
(* Instances of ParkingServer for TLC. *)
EXTENDS ParkingServer, TLC

Symmetry == Permutations(Conns)
BothEnds == {"left", "gone"}
NoEnds == {}
=============================================================================
