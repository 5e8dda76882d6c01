---------------------------- MODULE EntraPortals ----------------------------
(***************************************************************************)
(* The three portals that sign a user in at Entra ID: of the personal      *)
(* agent (delegated), of the OBO lab (obo) and of the credential lab       *)
(* (credential).  Each is OAuthPortal with its own requests; their         *)
(* handlers are copies that differ in what they do with a failed exchange  *)
(* and in which requests ask for a session.                                *)
(***************************************************************************)
EXTENDS OAuthPortal

VARIABLE portal  \* which of the three this is

PInit == Init /\ portal \in {"delegated", "obo", "credential"}

\* The handlers and requests that all of them have, by the browser's side.
Browser ==
  \/ \E f \in Flows : Start(f) \/ Return(f) \/ TabClosed(f)
  \/ StateCookieExpires \/ SessionCookieExpires \/ Restart

Sends(r, kinds) == Send(r) /\ request'[r].kind \in kinds

-----------------------------------------------------------------------------
\* The OBO lab.  me, chat and trace look the session up; without one chat goes
\* on and trace is refused (401), as token is in the others.

OboStart(f) == AuthStart(f)
OboCallback(f) == AuthCallback(f) \/ ExchangeFails(f)
OboSignsIn(f) == ExchangeSucceeds(f) \/ Answered(f)
OboSession(f) == SessionExpires(f)
OboServes(r) == Sends(r, {"me", "chat", "logout"}) \/ Serve(r) \/ AgentAnswers(r)
OboLogout(r) == Logout(r) \/ RequestDone(r)

Obo ==
  \/ \E f \in Flows : OboStart(f) \/ OboCallback(f) \/ OboSignsIn(f) \/ OboSession(f)
  \/ \E r \in Requests : OboServes(r) \/ OboLogout(r)

-----------------------------------------------------------------------------
\* The credential lab.  A failed exchange is caught, but an answer that is no
\* JSON is not.  The page calls the agent itself, with the token it is handed;
\* the portal only relays to the gateway, for anyone.

CredentialStart(f) == AuthStart(f)
CredentialCallback(f) == AuthCallback(f) \/ ExchangeFails(f)
CredentialSignsIn(f) == ExchangeSucceeds(f) \/ Answered(f)
CredentialSession(f) == SessionExpires(f)
CredentialServes(r) == Sends(r, {"me", "logout"}) \/ Serve(r)
CredentialRelays(r) == Sends(r, {"relay"}) \/ Relay(r) \/ AgentAnswers(r)
CredentialLogout(r) == Logout(r) \/ RequestDone(r)

Credential ==
  \/ \E f \in Flows :
       CredentialStart(f) \/ CredentialCallback(f) \/ CredentialSignsIn(f) \/ CredentialSession(f)
  \/ \E r \in Requests : CredentialServes(r) \/ CredentialRelays(r) \/ CredentialLogout(r)

-----------------------------------------------------------------------------

Delegated ==
  \/ \E f \in Flows :
       AuthStart(f) \/ AuthCallback(f) \/ ExchangeSucceeds(f) \/ ExchangeFails(f)
         \/ Answered(f) \/ SessionExpires(f)
  \/ \E r \in Requests :
       \/ Sends(r, {"me", "chat", "logout"})
       \/ Serve(r) \/ AgentAnswers(r) \/ Logout(r) \/ RequestDone(r)

PNext ==
  /\ portal' = portal
  /\ \/ Browser
     \/ portal = "delegated" /\ Delegated
     \/ portal = "obo" /\ Obo
     \/ portal = "credential" /\ Credential

PSpec == PInit /\ [][PNext]_<<vars, portal>>
=============================================================================
