---------------------------- MODULE MCLogViewer ----------------------------
(* Instances of LogViewer for TLC. *)
EXTENDS LogViewer
CONSTANTS call1, call2, call3, poll1, poll2

ThreeCalls == {call1, call2, call3}
TwoPolls == {poll1, poll2}
=============================================================================
