-------------------------- MODULE MCDidAuthPortal --------------------------
(* Instances of DidAuthPortal for TLC. *)
EXTENDS DidAuthPortal
CONSTANTS auth1, auth2, send1, regen1, regen2, logout1

OneAuth == {auth1}
TwoAuths == {auth1, auth2}
OneSend == {send1}
OneRegen == {regen1}
TwoRegens == {regen1, regen2}
OneLogout == {logout1}
Nobody == {}
=============================================================================
