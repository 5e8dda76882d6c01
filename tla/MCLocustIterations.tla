------------------------- MODULE MCLocustIterations -------------------------
(* Instances of LocustIterations for TLC. *)
EXTENDS LocustIterations
CONSTANTS vu1, vu2, vu3

ThreeUsers == {vu1, vu2, vu3}
=============================================================================
