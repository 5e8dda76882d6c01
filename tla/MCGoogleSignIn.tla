--------------------------- MODULE MCGoogleSignIn ---------------------------
(* Instances of GoogleSignIn for TLC. *)
EXTENDS GoogleSignIn, TLC
CONSTANTS f1, f2, c1, c2

TwoFlows == {f1, f2}
TwoCalls == {c1, c2}
Symmetry == Permutations(TwoFlows) \cup Permutations(TwoCalls)
=============================================================================
