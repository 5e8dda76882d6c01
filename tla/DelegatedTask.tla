---------------------------- MODULE DelegatedTask ----------------------------
(***************************************************************************)
(* What the personal agent promises for each prompt: its tool calls reach  *)
(* the MCP server in order and at most once each, and the task ends once,  *)
(* completed only after all of them, asking for consent only while the     *)
(* last one has not reached the server, so that the prompt can be sent     *)
(* again without repeating a write.                                        *)
(***************************************************************************)
EXTENDS Naturals

CONSTANTS Tasks, MaxCalls
VARIABLES state, planned, executed

vars == <<state, planned, executed>>

Init ==
  /\ state = [t \in Tasks |-> "none"]
  /\ planned = [t \in Tasks |-> 0]
  /\ executed = [t \in Tasks |-> 0]

Prompt(t) ==
  /\ state[t] = "none"
  /\ state' = [state EXCEPT ![t] = "working"]
  /\ \E n \in 0 .. MaxCalls : planned' = [planned EXCEPT ![t] = n]
  /\ UNCHANGED executed

\* A call, whose result may be the end of the plan.
Execute(t) ==
  /\ state[t] = "working" /\ executed[t] < planned[t]
  /\ executed' = [executed EXCEPT ![t] = @ + 1]
  /\ planned' \in {planned, [planned EXCEPT ![t] = executed'[t]]}
  /\ UNCHANGED state

\* A task that fails may have executed its call: its answer can be lost.
End(t, how) ==
  /\ state[t] = "working"
  /\ how = "completed" => executed[t] = planned[t]
  /\ how = "auth_required" => executed[t] < planned[t]
  /\ state' = [state EXCEPT ![t] = how]
  /\ UNCHANGED <<planned, executed>>

Next == \E t \in Tasks :
  \/ Prompt(t) \/ Execute(t)
  \/ \E how \in {"completed", "auth_required", "failed"} : End(t, how)

Spec == Init /\ [][Next]_vars
=============================================================================
