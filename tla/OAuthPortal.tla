----------------------------- MODULE OAuthPortal -----------------------------
(***************************************************************************)
(* Sign-in and sessions of the three portals with an Entra sign-in, first  *)
(* of the one before the personal agent (portal/server.py of               *)
(* use-cases/agent-delegated-mcp-access); EntraPortals says which portal   *)
(* has which handlers.  The browser                                        *)
(* keeps one cookie jar for all its tabs: the state of the last sign-in    *)
(* started, and the session.  A request carries the jar of the moment it   *)
(* is sent; its answer changes the jar of the moment it arrives.  Entra ID *)
(* is external.                                                            *)
(***************************************************************************)
EXTENDS Naturals

CONSTANTS
  Flows,        \* sign-ins; each names its state and the session it creates
  Requests,     \* other requests of the page
  MaxRestarts,  \* bound on restarts of the portal
  None

ASSUME NoneAssumption == None \notin Flows
ASSUME RestartsAssumption == MaxRestarts \in Nat

VARIABLES
  jar,        \* the browser's STATE_COOKIE and SESSION_COOKIE
  flow,       \* each sign-in: where it is, the state cookie and the query that
              \* its callback carried, and how the portal answered it
  sessions,   \* _SESSIONS: none, live, or expired and not yet looked up
  request,    \* each other request: the session cookie it carries, and the
              \* session the portal served it in
  restarts,
  disturbed,  \* history: sign-ins during whose stay at Entra another sign-in
              \* was started or ended, or ten minutes passed
  past        \* history: sign-ins that had ended when a logout was answered

vars == <<jar, flow, sessions, request, restarts, disturbed, past>>

FlowPlaces == {"idle", "starting", "entra", "callback", "exchanging", "answering",
               "done", "lost"}
Results == {"none", "ok", "cancelled", "state_mismatch", "failed", "crashed"}

Flow == [at : FlowPlaces, carried : Flows \cup {None}, query : {"none", "code", "error"}, result : Results]
Request == [at : {"idle", "sent", "agent", "answering", "done"},
            kind : {"none", "me", "chat", "relay", "logout"},
            cookie : Flows \cup {None}, session : Flows \cup {None}]

TypeOK ==
  /\ jar \in [state : Flows \cup {None}, session : Flows \cup {None}]
  /\ flow \in [Flows -> Flow]
  /\ sessions \in [Flows -> {"none", "live", "expired"}]
  /\ request \in [Requests -> Request]
  /\ restarts \in 0 .. MaxRestarts
  /\ disturbed \subseteq Flows /\ past \subseteq Flows

Init ==
  /\ jar = [state |-> None, session |-> None]
  /\ flow = [f \in Flows |-> [at |-> "idle", carried |-> None, query |-> "none", result |-> "none"]]
  /\ sessions = [f \in Flows |-> "none"]
  /\ request = [r \in Requests |-> [at |-> "idle", kind |-> "none",
                                    cookie |-> None, session |-> None]]
  /\ restarts = 0 /\ disturbed = {} /\ past = {}

AtEntra == {f \in Flows : flow[f].at = "entra"}

-----------------------------------------------------------------------------
\* A sign-in

\* A tab opens /api/auth/microsoft.
Start(f) ==
  /\ flow[f].at = "idle"
  /\ flow' = [flow EXCEPT ![f].at = "starting"]
  /\ UNCHANGED <<jar, sessions, request, restarts, disturbed, past>>

\* auth_start keeps nothing: its answer sets the state cookie and goes to Entra.
AuthStart(f) ==
  /\ flow[f].at = "starting"
  /\ flow' = [flow EXCEPT ![f].at = "entra"]
  /\ jar' = [jar EXCEPT !.state = f]
  /\ disturbed' = disturbed \cup AtEntra
  /\ UNCHANGED <<sessions, request, restarts, past>>

\* The user signs in or cancels: Entra sends the tab back, with the state.
Return(f) ==
  /\ flow[f].at = "entra"
  /\ \E query \in {"code", "error"} :
       flow' = [flow EXCEPT ![f].at = "callback", ![f].carried = jar.state, ![f].query = query]
  /\ UNCHANGED <<jar, sessions, request, restarts, disturbed, past>>

\* auth_callback up to its await: it refuses a callback without a code or with
\* another state than its cookie's, and posts the code of any other.
AuthCallback(f) ==
  /\ flow[f].at = "callback"
  /\ flow' = IF flow[f].query = "error"
               THEN [flow EXCEPT ![f].at = "answering", ![f].result = "cancelled"]
             ELSE IF flow[f].carried # f
               THEN [flow EXCEPT ![f].at = "answering", ![f].result = "state_mismatch"]
             ELSE [flow EXCEPT ![f].at = "exchanging"]
  /\ UNCHANGED <<jar, sessions, request, restarts, disturbed, past>>

\* Entra answers with tokens: the session exists from here on.
ExchangeSucceeds(f) ==
  /\ flow[f].at = "exchanging"
  /\ flow' = [flow EXCEPT ![f].at = "answering", ![f].result = "ok"]
  /\ sessions' = [sessions EXCEPT ![f] = "live"]
  /\ UNCHANGED <<jar, request, restarts, disturbed, past>>

\* Entra refuses or does not answer in 15 s, or its answer has no token: the
\* handler then raises, and the 500 touches no cookie.
ExchangeFails(f) ==
  /\ flow[f].at = "exchanging"
  /\ \E result \in {"failed", "crashed"} :
       flow' = [flow EXCEPT ![f].at = "answering", ![f].result = result]
  /\ UNCHANGED <<jar, sessions, request, restarts, disturbed, past>>

\* Faulty variant: a refused callback leaves the state cookie.
AnsweredKeepsState(f) ==
  LET result == flow[f].result
  IN  /\ flow[f].at = "answering"
      /\ flow' = [flow EXCEPT ![f].at = "done"]
      /\ jar' = [state   |-> IF result # "ok" THEN jar.state ELSE None,
                 session |-> IF result = "ok" THEN f ELSE jar.session]
      /\ disturbed' = IF result = "crashed" THEN disturbed ELSE disturbed \cup AtEntra
      /\ UNCHANGED <<sessions, request, restarts, past>>

\* The answer arrives: the state cookie is cleared, the session's is set.
Answered(f) ==
  LET result == flow[f].result
  IN  /\ flow[f].at = "answering"
      /\ flow' = [flow EXCEPT ![f].at = "done"]
      /\ jar' = [state   |-> IF result = "crashed" THEN jar.state ELSE None,
                 session |-> IF result = "ok" THEN f ELSE jar.session]
      /\ disturbed' = IF result = "crashed" THEN disturbed ELSE disturbed \cup AtEntra
      /\ UNCHANGED <<sessions, request, restarts, past>>

\* The tab is closed before an answer arrives: the portal does not notice.
TabClosed(f) ==
  /\ flow[f].at \in {"starting", "entra", "answering"}
  /\ flow' = [flow EXCEPT ![f].at = "lost"]
  /\ UNCHANGED <<jar, sessions, request, restarts, disturbed, past>>

-----------------------------------------------------------------------------
\* The page's requests

\* A tab asks who is signed in (me, token), sends a prompt, has a message
\* relayed to the gateway, or signs out.
Send(r) ==
  /\ request[r].at = "idle"
  /\ \E kind \in {"me", "chat", "relay", "logout"} :
       request' = [request EXCEPT ![r].at = "sent", ![r].kind = kind, ![r].cookie = jar.session]
  /\ UNCHANGED <<jar, flow, sessions, restarts, disturbed, past>>

\* _session: the session that the cookie names, unless it is no more or has
\* expired, and is then forgotten.
Lookup(cookie) == IF cookie # None /\ sessions[cookie] = "live" THEN cookie ELSE None
Forget(cookie) ==
  [f \in Flows |-> IF f = cookie /\ sessions[f] = "expired" THEN "none" ELSE sessions[f]]

\* me and token answer at once, chat awaits the agent, which is called with
\* the session's token or with none.
Serve(r) ==
  /\ request[r].at = "sent" /\ request[r].kind \in {"me", "chat"}
  /\ request' = [request EXCEPT ![r].session = Lookup(request[r].cookie),
                   ![r].at = IF request[r].kind = "chat" THEN "agent" ELSE "answering"]
  /\ sessions' = Forget(request[r].cookie)
  /\ UNCHANGED <<jar, flow, restarts, disturbed, past>>

\* gateway_chat asks for no session: the gateway is called with the portal's key.
Relay(r) ==
  /\ request[r].at = "sent" /\ request[r].kind = "relay"
  /\ request' = [request EXCEPT ![r].at = "agent"]
  /\ UNCHANGED <<jar, flow, sessions, restarts, disturbed, past>>

\* The agent, or the gateway, answers or fails to in 90 s.
AgentAnswers(r) ==
  /\ request[r].at = "agent"
  /\ request' = [request EXCEPT ![r].at = "answering"]
  /\ UNCHANGED <<jar, flow, sessions, restarts, disturbed, past>>

\* Faulty variant: the session is only marked for its next lookup.
LogoutExpires(r) ==
  /\ request[r].at = "sent" /\ request[r].kind = "logout"
  /\ request' = [request EXCEPT ![r].at = "answering"]
  /\ UNCHANGED <<jar, flow, sessions, restarts, disturbed, past>>

\* logout pops the session of the cookie it carries.
Logout(r) ==
  /\ request[r].at = "sent" /\ request[r].kind = "logout"
  /\ request' = [request EXCEPT ![r].at = "answering"]
  /\ sessions' = [f \in Flows |-> IF f = request[r].cookie THEN "none" ELSE sessions[f]]
  /\ UNCHANGED <<jar, flow, restarts, disturbed, past>>

\* Faulty variant: the answer of logout leaves the cookie.
RequestDoneKeepsCookie(r) ==
  /\ request[r].at = "answering"
  /\ request' = [request EXCEPT ![r].at = "done"]
  /\ past' = IF request[r].kind = "logout"
               THEN past \cup {f \in Flows : flow[f].at = "done"} ELSE past
  /\ UNCHANGED <<jar, flow, sessions, restarts, disturbed>>

\* The answer of a logout clears the cookie, whatever it names by then.
RequestDone(r) ==
  /\ request[r].at = "answering"
  /\ request' = [request EXCEPT ![r].at = "done"]
  /\ jar' = IF request[r].kind = "logout" THEN [jar EXCEPT !.session = None] ELSE jar
  /\ past' = IF request[r].kind = "logout"
               THEN past \cup {f \in Flows : flow[f].at = "done"} ELSE past
  /\ UNCHANGED <<flow, sessions, restarts, disturbed>>

-----------------------------------------------------------------------------
\* Time and restarts

SessionExpires(f) ==
  /\ sessions[f] = "live"
  /\ sessions' = [sessions EXCEPT ![f] = "expired"]
  /\ UNCHANGED <<jar, flow, request, restarts, disturbed, past>>

\* Both have the same lifetime, but the cookie was set later.
SessionCookieExpires ==
  /\ jar.session # None /\ sessions[jar.session] # "live"
  /\ jar' = [jar EXCEPT !.session = None]
  /\ UNCHANGED <<flow, sessions, request, restarts, disturbed, past>>

\* Ten minutes after the last sign-in was started.
StateCookieExpires ==
  /\ jar.state # None
  /\ jar' = [jar EXCEPT !.state = None]
  /\ disturbed' = disturbed \cup (AtEntra \cap {jar.state})
  /\ UNCHANGED <<flow, sessions, request, restarts, past>>

\* _SESSIONS is in memory; what was being handled is not answered.
Restart ==
  /\ restarts < MaxRestarts /\ restarts' = restarts + 1
  /\ sessions' = [f \in Flows |-> "none"]
  /\ flow' = [f \in Flows |-> IF flow[f].at \in {"callback", "exchanging"}
                                THEN [flow[f] EXCEPT !.at = "lost"] ELSE flow[f]]
  /\ request' = [r \in Requests |-> IF request[r].at \in {"sent", "agent"}
                                      THEN [request[r] EXCEPT !.at = "done", !.kind = "none"]
                                      ELSE request[r]]
  /\ UNCHANGED <<jar, disturbed, past>>

Next ==
  \/ \E f \in Flows :
       \/ Start(f) \/ AuthStart(f) \/ Return(f) \/ AuthCallback(f) \/ ExchangeSucceeds(f)
       \/ ExchangeFails(f) \/ Answered(f) \/ TabClosed(f) \/ SessionExpires(f)
  \/ \E r \in Requests :
       Send(r) \/ Serve(r) \/ Relay(r) \/ AgentAnswers(r) \/ Logout(r) \/ RequestDone(r)
  \/ SessionCookieExpires \/ StateCookieExpires \/ Restart

Spec == Init /\ [][Next]_vars

-----------------------------------------------------------------------------
\* Properties

\* A callback that brings a code is refused as state_mismatch exactly when,
\* while the user was at Entra, another sign-in of the same browser was started
\* or answered, or the cookie's ten minutes were over: no other interleaving of
\* tabs, logouts or restarts fails a sign-in, and none of these passes.
MismatchMeansDisturbed ==
  \A f \in Flows :
    /\ flow[f].result = "state_mismatch" => f \in disturbed
    /\ flow[f].at = "exchanging" \/ flow[f].result = "ok" => f \notin disturbed

\* A session whose sign-in was answered and that the browser no longer names
\* has been ended at the portal too, unless a second sign-in replaced its
\* cookie or the answer of a logout that carried another cookie cleared it.
OrphanNeedsOverlap ==
  \A f \in Flows :
    flow[f].at = "done" /\ sessions[f] = "live" /\ jar.session # f =>
      \/ \E g \in Flows \ {f} : flow[g].at = "done" /\ flow[g].result = "ok"
      \/ \E r \in Requests : request[r].kind = "logout" /\ request[r].at = "done"
                               /\ request[r].cookie # f

\* Once a logout is answered the browser is in no session of a sign-in that had
\* ended by then, whatever other tabs asked in between.
LogoutSticks == jar.session \notin past
=============================================================================
