-------------------------- MODULE MCDelegateAgent --------------------------
(* Instances of DelegateAgent for TLC. *)
EXTENDS DelegateAgent, TLC
CONSTANTS task1, task2

TwoTasks == {task1, task2}
\* 2024-11-05, 2025-03-26 and, unknown to the client, 2026-07-28.
Known == <<2, 1>>
=============================================================================
