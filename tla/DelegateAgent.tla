---------------------------- MODULE DelegateAgent ----------------------------
(***************************************************************************)
(* The personal agent (delegate_agent.py): each prompt is an A2A task that *)
(* is answered locally or by tool calls over an MCP session of its own,    *)
(* and that ends completed, failed, or asking the user for consent.  Tasks *)
(* of several tabs run side by side; the user may approve or revoke at any *)
(* moment.                                                                 *)
(***************************************************************************)
EXTENDS McpGatewayClient

VARIABLE taskState

vars == <<clientVars, taskState>>

Terminal == {"completed", "auth_required", "failed"}

TypeOK == ClientTypeOK /\ taskState \in [Tasks -> {"none", "working"} \cup Terminal]

Init == ClientInit /\ taskState = [t \in Tasks |-> "none"]

\* execute: the task is created and started, and plan maps the prompt to the
\* tool calls it needs, none for a greeting or for a prompt it cannot place.
Prompt(t) ==
  /\ taskState[t] = "none"
  /\ taskState' = [taskState EXCEPT ![t] = "working"]
  /\ \E n \in 0 .. MaxCalls : planned' = [planned EXCEPT ![t] = n]
  /\ UNCHANGED <<conn, executed, supported, consent, sessions, faulty>>

\* The greeting or the help text.
ReplyLocally(t) ==
  /\ taskState[t] = "working" /\ planned[t] = 0
  /\ taskState' = [taskState EXCEPT ![t] = "completed"]
  /\ UNCHANGED clientVars

\* The async with block begins ...
OpenSession(t) ==
  /\ taskState[t] = "working" /\ planned[t] > 0
  /\ Enter(t)
  /\ UNCHANGED <<planned, taskState>>

\* Faulty variant: every error of the gateway asks for consent.
EndTaskAsksConsent(t) ==
  /\ taskState[t] = "working" /\ conn[t].at = "closed"
  /\ taskState' = [taskState EXCEPT ![t] =
                     IF conn[t].result = "ok" THEN "completed" ELSE "auth_required"]
  /\ UNCHANGED clientVars

\* Faulty variant: only the errors of the gateway that ask for consent are caught.
EndTaskUncaught(t) ==
  /\ taskState[t] = "working" /\ conn[t].at = "closed" /\ conn[t].result # "error"
  /\ taskState' = [taskState EXCEPT ![t] =
                     IF conn[t].result = "ok" THEN "completed" ELSE "auth_required"]
  /\ UNCHANGED clientVars

\* ... and the task ends as the block ended.
EndTask(t) ==
  /\ taskState[t] = "working" /\ conn[t].at = "closed"
  /\ taskState' = [taskState EXCEPT ![t] =
                     CASE conn[t].result = "ok"      -> "completed"
                       [] conn[t].result = "consent" -> "auth_required"
                       [] conn[t].result = "error"   -> "failed"]
  /\ UNCHANGED clientVars

TaskStep(t) ==
  \/ ReplyLocally(t) \/ OpenSession(t) \/ EndTask(t)
  \/ ClientStep(t) /\ UNCHANGED taskState

\* The user acts on an authorization URL that a task has brought, or revokes
\* the credential at the gateway.
UserStep ==
  /\ \/ Approve /\ \E t \in Tasks : taskState[t] = "auth_required"
     \/ Revoke
  /\ UNCHANGED <<conn, planned, executed, supported, sessions, faulty, taskState>>

Next == (\E t \in Tasks : Prompt(t) \/ TaskStep(t)) \/ UserStep

Spec == Init /\ [][Next]_vars

\* Coroutines are scheduled and exchanges end.  Nobody need approve.
FairSpec == Spec /\ \A t \in Tasks : WF_vars(TaskStep(t))

-----------------------------------------------------------------------------
\* Properties

\* "One MCP session ... for a single A2A task": whatever the calls of the task
\* and the user did, a task that has closed its client has left no session at
\* the server, unless an exchange that should have deleted or announced it
\* failed (a failed notifications/initialized, a lost answer, a failed DELETE).
LeakNeedsFault ==
  \A t \in Tasks : conn[t].at = "closed" /\ t \notin faulty =>
                     \A s \in sessions : s[1] # t

\* Whatever was refused, renegotiated or answered with another version before,
\* from the accepted initialize on (and in a second initialize) the headers
\* carry a version the server speaks, and never the session that a refused
\* initialize opened.
RequestsCarryAgreement ==
  \A t \in Tasks : conn[t].at \in {"reinitialize", "notify", "call", "delete"} =>
    /\ conn[t].version \in supported
    /\ conn[t].session \in {NoSession, <<t, "accepted">>}

\* Tool calls are executed in order and at most once, a task is completed
\* only after all of them, and asks for consent only while its last call (the
\* one that may write; get_me comes before it) has not been executed: sending
\* the prompt again then repeats no write.
Task == INSTANCE DelegatedTask WITH state <- taskState
ImplementsTask == Task!Spec

\* Every prompt comes to an answer, whatever the gateway does.
EveryPromptIsAnswered == \A t \in Tasks : (taskState[t] = "working") ~> (taskState[t] \in Terminal)
=============================================================================
