-------------------------- MODULE McpGatewayClient --------------------------
(***************************************************************************)
(* The MCP client of the personal agent (mcp_gateway_client.py of          *)
(* use-cases/agent-delegated-mcp-access): one MCP session per A2A task,    *)
(* over HTTP exchanges that the gateway may refuse and the network may     *)
(* lose.  The gateway and the MCP server behind it are external: they hold *)
(* the user's consent and the sessions.                                    *)
(***************************************************************************)
EXTENDS Integers, Sequences

CONSTANTS
  Tasks,          \* A2A tasks, one client each
  MaxCalls,       \* the most tools/call one prompt needs
  KnownVersions,  \* KNOWN_PROTOCOL_VERSIONS, most preferred first
  NumVersions,    \* every version a server may support, numbered in order
  FirstVersion,   \* MCP_PROTOCOL_VERSION
  NoSession

ASSUME MaxCallsAssumption == MaxCalls \in Nat
Versions == 1 .. NumVersions
ASSUME VersionsAssumption ==
  /\ NumVersions \in Nat /\ FirstVersion \in Versions
  /\ KnownVersions \in Seq(Versions)

\* A session is named by its task and how the initialize that opened it was
\* answered.
Sessions == Tasks \X {"accepted", "refused"}
ASSUME NoSessionAssumption == NoSession \notin Sessions

VARIABLES
  conn,       \* each client: the exchange it is in (at), the version and the
              \* session its headers carry, and how its block ended (result)
  planned,    \* tools/call each prompt needs
  executed,   \* tools/call the MCP server has executed for each task
  supported,  \* versions the gateway accepts
  consent,    \* the user has delegated a credential to the gateway
  sessions,   \* sessions open at the MCP server
  faulty      \* history: tasks with a session whose notification or DELETE
              \* failed, or whose initialize was refused or not answered

clientVars == <<conn, planned, executed, supported, consent, sessions, faulty>>

Exchanges == {"initialize", "reinitialize", "notify", "call", "delete"}
Conn == [at : {"none", "closed"} \cup Exchanges, version : Versions,
         session : Sessions \cup {NoSession}, result : {"none", "ok", "consent", "error"}]

ClientTypeOK ==
  /\ conn \in [Tasks -> Conn]
  /\ planned \in [Tasks -> 0 .. MaxCalls]
  /\ executed \in [Tasks -> 0 .. MaxCalls]
  /\ supported \subseteq Versions
  /\ consent \in BOOLEAN
  /\ sessions \subseteq Sessions
  /\ faulty \subseteq Tasks

\* The gateway accepts some versions and holds no credential of the user yet.
ClientInit ==
  /\ conn = [t \in Tasks |-> [at |-> "none", version |-> FirstVersion,
                              session |-> NoSession, result |-> "none"]]
  /\ planned = [t \in Tasks |-> 0] /\ executed = [t \in Tasks |-> 0]
  /\ supported \in (SUBSET Versions) \ {{}}
  /\ consent = FALSE
  /\ sessions = {} /\ faulty = {}

-----------------------------------------------------------------------------
\* _negotiate_version: of the versions a -32022 names, the one the client
\* prefers, or the newest if it knows none of them.
NegotiateVersion(versions) ==
  LET known == {i \in 1 .. Len(KnownVersions) : KnownVersions[i] \in versions}
  IN  IF known # {}
        THEN KnownVersions[CHOOSE i \in known : \A j \in known : i <= j]
        ELSE CHOOSE v \in versions : \A w \in versions : w <= v

\* The block is left with an exception, or at its end.  Inside the block
\* __aexit__ deletes the session; before it, __aenter__ only closes the client.
RaiseInside(t, why) ==
  [conn EXCEPT ![t].result = why,
               ![t].at = IF conn[t].session # NoSession THEN "delete" ELSE "closed"]
RaiseBefore(t, why) == [conn EXCEPT ![t].result = why, ![t].at = "closed"]

-----------------------------------------------------------------------------
\* __aenter__ posts initialize with the first version ...
Enter(t) ==
  /\ conn[t].at = "none"
  /\ conn' = [conn EXCEPT ![t].at = "initialize", ![t].version = FirstVersion,
                          ![t].session = NoSession]
  /\ UNCHANGED <<executed, supported, consent, sessions, faulty>>

\* ... the server accepts it, opening a session or answering without one, and
\* says which version it will speak: the one asked for, or another of its own ...
InitializeAccepted(t) ==
  /\ conn[t].at \in {"initialize", "reinitialize"}
  /\ \E version \in supported, session \in {NoSession, <<t, "accepted">>} :
       /\ conn[t].version \in supported => version = conn[t].version
       /\ sessions' = sessions \cup ({session} \ {NoSession})
       /\ conn' = [conn EXCEPT ![t].at = "notify", ![t].session = session,
                               ![t].version = version]
  /\ UNCHANGED <<planned, executed, supported, consent, faulty>>

\* Faulty variant: the session of the refused initialize is carried on.
RenegotiateKeepsSession(t) ==
  /\ conn[t].at = "initialize" /\ conn[t].version \notin supported
  /\ \E session \in {NoSession, <<t, "refused">>} :
       /\ sessions' = sessions \cup ({session} \ {NoSession})
       /\ conn' = [conn EXCEPT ![t].at = "reinitialize", ![t].session = session,
                               ![t].version = NegotiateVersion(supported)]
       /\ faulty' = IF session # NoSession THEN faulty \cup {t} ELSE faulty
  /\ UNCHANGED <<planned, executed, supported, consent>>

\* ... or refuses the version, naming those it supports: the client tries one
\* of them, forgetting the session that the refusal may have opened.
Renegotiate(t) ==
  /\ conn[t].at = "initialize" /\ conn[t].version \notin supported
  /\ \E session \in {NoSession, <<t, "refused">>} :
       /\ sessions' = sessions \cup ({session} \ {NoSession})
       /\ faulty' = IF session # NoSession THEN faulty \cup {t} ELSE faulty
  /\ conn' = [conn EXCEPT ![t].at = "reinitialize", ![t].session = NoSession,
                          ![t].version = NegotiateVersion(supported)]
  /\ UNCHANGED <<planned, executed, supported, consent>>

\* notifications/initialized is accepted: the block begins.
Notified(t) ==
  /\ conn[t].at = "notify"
  /\ conn' = [conn EXCEPT ![t].at = "call"]
  /\ UNCHANGED <<planned, executed, supported, consent, sessions, faulty>>

\* An exchange of __aenter__ fails: refused for want of consent or for any
\* other reason, or the answer is lost, perhaps after it opened a session.
EnterFails(t) ==
  /\ conn[t].at \in {"initialize", "reinitialize", "notify"}
  /\ \E why \in {"consent", "error"}, opened \in {NoSession, <<t, "accepted">>} :
       /\ why = "consent" => ~consent /\ opened = NoSession
       /\ conn[t].at = "notify" => opened = NoSession
       /\ conn' = RaiseBefore(t, why)
       /\ sessions' = sessions \cup ({opened} \ {NoSession})
       /\ faulty' = IF {opened, conn[t].session} # {NoSession} THEN faulty \cup {t} ELSE faulty
  /\ UNCHANGED <<planned, executed, supported, consent>>

-----------------------------------------------------------------------------
\* A tools/call with its result: the next one, or the end of the block.
CallSucceeds(t) ==
  /\ conn[t].at = "call" /\ executed[t] < planned[t] /\ consent
  /\ executed' = [executed EXCEPT ![t] = @ + 1]
  /\ conn' = IF executed'[t] = planned[t] THEN RaiseInside(t, "ok") ELSE conn
  /\ UNCHANGED <<planned, supported, consent, sessions, faulty>>

\* The answer ends the plan early: get_me names no login to go on with.
CallEndsPlan(t) ==
  /\ conn[t].at = "call" /\ executed[t] + 1 < planned[t] /\ consent
  /\ executed' = [executed EXCEPT ![t] = @ + 1]
  /\ planned' = [planned EXCEPT ![t] = executed'[t]]
  /\ conn' = RaiseInside(t, "ok")
  /\ UNCHANGED <<supported, consent, sessions, faulty>>

\* The gateway holds no credential: a consent_required answer.
CallNeedsConsent(t) ==
  /\ conn[t].at = "call" /\ ~consent
  /\ conn' = RaiseInside(t, "consent")
  /\ UNCHANGED <<planned, executed, supported, consent, sessions, faulty>>

\* Any other error, of the gateway, the server or the tool, or no answer: the
\* call may or may not have been executed.  It is not retried.
CallFails(t) ==
  /\ conn[t].at = "call"
  /\ \/ UNCHANGED executed
     \/ consent /\ executed' = [executed EXCEPT ![t] = @ + 1]
  /\ conn' = RaiseInside(t, "error")
  /\ UNCHANGED <<planned, supported, consent, sessions, faulty>>

\* Faulty variant: the client is closed, the session is not.
DeleteSkipped(t) ==
  /\ conn[t].at = "delete"
  /\ conn' = [conn EXCEPT ![t].at = "closed"]
  /\ UNCHANGED <<planned, executed, supported, consent, sessions, faulty>>

\* __aexit__ deletes the session; a failure to is ignored.
DeleteAnswered(t) ==
  /\ conn[t].at = "delete"
  /\ conn' = [conn EXCEPT ![t].at = "closed"]
  /\ \/ /\ sessions' = sessions \ {conn[t].session}
        /\ UNCHANGED faulty
     \/ /\ faulty' = faulty \cup {t}
        /\ UNCHANGED sessions
  /\ UNCHANGED <<planned, executed, supported, consent>>

\* The user approves at the authorization URL, or revokes.
Approve == ~consent /\ consent' = TRUE
Revoke == consent /\ consent' = FALSE

\* Every exchange ends: the client has a timeout of 30 s.
ClientStep(t) ==
  \/ InitializeAccepted(t) \/ Renegotiate(t) \/ EnterFails(t) \/ Notified(t)
  \/ CallSucceeds(t) \/ CallEndsPlan(t) \/ CallNeedsConsent(t) \/ CallFails(t)
  \/ DeleteAnswered(t)
=============================================================================
