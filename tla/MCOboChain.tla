----------------------------- MODULE MCOboChain -----------------------------
(* Instances of OboChain for TLC. *)
EXTENDS OboChain, TLC
CONSTANTS c1, c2

TwoChats == {c1, c2}
Symmetry == Permutations(TwoChats)
=============================================================================
