---------------------------- MODULE MCOAuthPortal ----------------------------
(* Instances of EntraPortals for TLC. *)
EXTENDS EntraPortals, TLC
CONSTANTS f1, f2, r1, r2

TwoFlows == {f1, f2}
TwoRequests == {r1, r2}
Symmetry == Permutations(TwoFlows) \cup Permutations(TwoRequests)
=============================================================================
