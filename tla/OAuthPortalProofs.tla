-------------------------- MODULE OAuthPortalProofs --------------------------
(***************************************************************************)
(* Proofs about OAuthPortal, for any number of sign-ins, requests and      *)
(* restarts.  Each property is made inductive by saying where a sign-in is *)
(* while the cookies or the portal name it.                                *)
(***************************************************************************)
EXTENDS EntraPortals, TLAPS

USE NoneAssumption, RestartsAssumption

FlowStep(f) ==
  \/ Start(f) \/ AuthStart(f) \/ Return(f) \/ AuthCallback(f) \/ ExchangeSucceeds(f)
  \/ ExchangeFails(f) \/ Answered(f) \/ TabClosed(f) \/ SessionExpires(f)
RequestStep(r) ==
  Send(r) \/ Serve(r) \/ Relay(r) \/ AgentAnswers(r) \/ Logout(r) \/ RequestDone(r)
TimeStep == SessionCookieExpires \/ StateCookieExpires \/ Restart

\* The cases of a step, for the proofs below.
LEMMA StepCases ==
  ASSUME [Next]_vars
  PROVE  \/ \E f \in Flows : FlowStep(f)
         \/ \E r \in Requests : RequestStep(r)
         \/ TimeStep \/ UNCHANGED vars
BY DEF Next, FlowStep, RequestStep, TimeStep

-----------------------------------------------------------------------------
\* A sign-in that goes elsewhere, with or without an answer, is a sign-in.
LEMMA FlowMoves ==
  ASSUME NEW x \in Flow, NEW at \in FlowPlaces, NEW result \in Results
  PROVE  /\ [x EXCEPT !.at = at] \in Flow
         /\ [x EXCEPT !.at = at, !.result = result] \in Flow
BY DEF Flow

\* So is one whose callback is on its way.
LEMMA FlowReturns ==
  ASSUME NEW x \in Flow, NEW carried \in Flows \cup {None}, NEW query \in {"code", "error"}
  PROVE  [x EXCEPT !.at = "callback", !.carried = carried, !.query = query] \in Flow
BY DEF Flow, FlowPlaces

\* What a restart does to each sign-in, session and request.
LEMMA RestartEffects ==
  ASSUME TypeOK, Restart
  PROVE  /\ \A f \in Flows :
              /\ sessions'[f] = "none"
              /\ flow'[f].carried = flow[f].carried /\ flow'[f].result = flow[f].result
              /\ \/ flow'[f].at = flow[f].at
                 \/ flow[f].at \in {"callback", "exchanging"} /\ flow'[f].at = "lost"
         /\ \A r \in Requests :
              /\ request'[r].cookie = request[r].cookie
              /\ \/ request'[r] = request[r]
                 \/ request'[r].at = "done" /\ request'[r].kind = "none"
         /\ UNCHANGED <<jar, disturbed, past>>
<1>1. flow' = [f \in Flows |-> IF flow[f].at \in {"callback", "exchanging"}
                                 THEN [flow[f] EXCEPT !.at = "lost"] ELSE flow[f]]
  BY DEF Restart
<1>2. \A f \in Flows :
        /\ flow'[f].carried = flow[f].carried /\ flow'[f].result = flow[f].result
        /\ \/ flow'[f].at = flow[f].at
           \/ flow[f].at \in {"callback", "exchanging"} /\ flow'[f].at = "lost"
  <2> TAKE f \in Flows
  <2>1. flow[f] \in Flow
    BY DEF TypeOK
  <2> QED BY <1>1, <2>1 DEF Flow
<1>3. request' = [r \in Requests |-> IF request[r].at \in {"sent", "agent"}
                    THEN [request[r] EXCEPT !.at = "done", !.kind = "none"] ELSE request[r]]
  BY DEF Restart
<1>4. \A r \in Requests :
        /\ request'[r].cookie = request[r].cookie
        /\ \/ request'[r] = request[r]
           \/ request'[r].at = "done" /\ request'[r].kind = "none"
  <2> TAKE r \in Requests
  <2>1. request[r] \in Request
    BY DEF TypeOK
  <2> QED BY <1>3, <2>1 DEF Request
<1>5. \A f \in Flows : sessions'[f] = "none"
  BY DEF Restart
<1>6. UNCHANGED <<jar, disturbed, past>>
  BY DEF Restart
<1> QED BY <1>2, <1>4, <1>5, <1>6

\* The cookies, sign-ins, sessions and requests keep their types.
THEOREM TypeCorrect == Spec => []TypeOK
<1>1. Init => TypeOK
  BY DEF Init, TypeOK, Flow, Request, FlowPlaces, Results
<1>2. TypeOK /\ [Next]_vars => TypeOK'
  <2> SUFFICES ASSUME TypeOK, [Next]_vars PROVE TypeOK'
    OBVIOUS
  <2> USE DEF TypeOK
  <2>1. ASSUME NEW f \in Flows, FlowStep(f) PROVE TypeOK'
    <3>0. flow[f] \in Flow
      OBVIOUS
    <3>1. CASE Start(f)
      BY <3>1, <3>0, FlowMoves DEF Start, FlowPlaces, Results
    <3>2. CASE AuthStart(f)
      BY <3>2, <3>0, FlowMoves DEF AuthStart, AtEntra, FlowPlaces, Results
    <3>3. CASE Return(f)
      <4>1. PICK query \in {"code", "error"} :
              flow' = [flow EXCEPT ![f].at = "callback", ![f].carried = jar.state,
                                   ![f].query = query]
        BY <3>3 DEF Return
      <4>2. jar.state \in Flows \cup {None}
        OBVIOUS
      <4>3. [flow[f] EXCEPT !.at = "callback", !.carried = jar.state, !.query = query] \in Flow
        BY <3>0, <4>2, FlowReturns
      <4> QED BY <3>3, <4>1, <4>3 DEF Return
    <3>4. CASE AuthCallback(f)
      BY <3>4, <3>0, FlowMoves DEF AuthCallback, FlowPlaces, Results
    <3>5. CASE ExchangeSucceeds(f)
      BY <3>5, <3>0, FlowMoves DEF ExchangeSucceeds, FlowPlaces, Results
    <3>6. CASE ExchangeFails(f)
      <4>1. PICK result \in {"failed", "crashed"} :
              flow' = [flow EXCEPT ![f].at = "answering", ![f].result = result]
        BY <3>6 DEF ExchangeFails
      <4>2. [flow[f] EXCEPT !.at = "answering", !.result = result] \in Flow
        BY <3>0, FlowMoves DEF FlowPlaces, Results
      <4> QED BY <3>6, <4>1, <4>2 DEF ExchangeFails
    <3>7. CASE Answered(f)
      BY <3>7, <3>0, FlowMoves DEF Answered, AtEntra, FlowPlaces, Results
    <3>8. CASE TabClosed(f)
      BY <3>8, <3>0, FlowMoves DEF TabClosed, FlowPlaces, Results
    <3>9. CASE SessionExpires(f)
      BY <3>9 DEF SessionExpires
    <3> QED BY <2>1, <3>1, <3>2, <3>3, <3>4, <3>5, <3>6, <3>7, <3>8, <3>9 DEF FlowStep
  <2>2. ASSUME NEW r \in Requests, RequestStep(r) PROVE TypeOK'
    <3>1. CASE Send(r)
      <4>1. PICK kind \in {"me", "chat", "relay", "logout"} :
              request' = [request EXCEPT ![r].at = "sent", ![r].kind = kind,
                                         ![r].cookie = jar.session]
        BY <3>1 DEF Send
      <4>2. jar.session \in Flows \cup {None} /\ request[r] \in Request
        OBVIOUS
      <4>3. [request[r] EXCEPT !.at = "sent", !.kind = kind, !.cookie = jar.session] \in Request
        BY <4>2 DEF Request
      <4> QED BY <3>1, <4>1, <4>3 DEF Send
    <3>2. CASE Serve(r) BY <3>2 DEF Serve, Lookup, Forget, Request
    <3>3. CASE AgentAnswers(r) BY <3>3 DEF AgentAnswers, Request
    <3>4. CASE Logout(r) BY <3>4 DEF Logout, Request
    <3>5. CASE RequestDone(r) BY <3>5 DEF RequestDone, Request
    <3>6. CASE Relay(r) BY <3>6 DEF Relay, Request
    <3> QED BY <2>2, <3>1, <3>2, <3>3, <3>4, <3>5, <3>6 DEF RequestStep
  <2>3. CASE SessionCookieExpires BY <2>3 DEF SessionCookieExpires
  <2>4. CASE StateCookieExpires BY <2>4 DEF StateCookieExpires, AtEntra
  <2>5. CASE Restart
    <3>1. \A f \in Flows : flow'[f] \in Flow
      BY <2>5, FlowMoves DEF Restart, FlowPlaces, Results
    <3>2. \A r \in Requests : request'[r] \in Request
      <4> TAKE r \in Requests
      <4>1. request[r] \in Request
        OBVIOUS
      <4>2. [request[r] EXCEPT !.at = "done", !.kind = "none"] \in Request
        BY <4>1 DEF Request
      <4> QED BY <2>5, <4>1, <4>2 DEF Restart
    <3>3. flow' \in [Flows -> Flow]
      BY <2>5, <3>1 DEF Restart
    <3>4. request' \in [Requests -> Request]
      BY <2>5, <3>2 DEF Restart
    <3>5. sessions' = [f \in Flows |-> "none"] /\ restarts < MaxRestarts
            /\ restarts' = restarts + 1
      BY <2>5 DEF Restart
    <3>6. UNCHANGED <<jar, disturbed, past>>
      BY <2>5 DEF Restart
    <3>7. restarts' \in 0 .. MaxRestarts
      BY <3>5
    <3> QED BY <3>3, <3>4, <3>5, <3>6, <3>7
  <2>6. CASE UNCHANGED vars BY <2>6 DEF vars
  <2> QED BY StepCases, <2>1, <2>2, <2>3, <2>4, <2>5, <2>6 DEF TimeStep
<1> QED BY <1>1, <1>2, PTL DEF Spec

-----------------------------------------------------------------------------
\* At Entra a sign-in is undisturbed exactly while the cookie is its own, and
\* its callback then carries it.
StateInv ==
  \A f \in Flows :
    /\ flow[f].at \in {"idle", "starting"} => f \notin disturbed
    /\ flow[f].at = "entra" => (f \in disturbed <=> jar.state # f)
    /\ flow[f].at = "callback" => (f \in disturbed <=> flow[f].carried # f)
    /\ flow[f].at \in {"idle", "starting", "entra", "callback", "exchanging"}
         => flow[f].result = "none"

IMismatch == TypeOK /\ StateInv /\ MismatchMeansDisturbed

\* Each step of a sign-in keeps them, whichever sign-in is looked at.
LEMMA FlowStepKeepsState ==
  ASSUME IMismatch, NEW f \in Flows, FlowStep(f)
  PROVE  StateInv' /\ MismatchMeansDisturbed'
<1> USE DEF IMismatch, TypeOK, Flow, StateInv, MismatchMeansDisturbed
<1>1. CASE Start(f) BY <1>1 DEF Start
<1>2. CASE AuthStart(f) BY <1>2 DEF AuthStart, AtEntra
<1>3. CASE Return(f) BY <1>3 DEF Return
<1>4. CASE AuthCallback(f) BY <1>4 DEF AuthCallback
<1>5. CASE ExchangeSucceeds(f) BY <1>5 DEF ExchangeSucceeds
<1>6. CASE ExchangeFails(f) BY <1>6 DEF ExchangeFails
<1>7. CASE Answered(f) BY <1>7 DEF Answered, AtEntra
<1>8. CASE TabClosed(f) BY <1>8 DEF TabClosed
<1>9. CASE SessionExpires(f) BY <1>9 DEF SessionExpires
<1> QED BY <1>1, <1>2, <1>3, <1>4, <1>5, <1>6, <1>7, <1>8, <1>9 DEF FlowStep

\* A callback with a code is refused for its state exactly when another sign-in
\* of the browser, or ten minutes, came between.
THEOREM MismatchIsExact == Spec => []MismatchMeansDisturbed
<1>1. Init => StateInv /\ MismatchMeansDisturbed
  BY DEF Init, StateInv, MismatchMeansDisturbed
<1>2. IMismatch /\ [Next]_vars => StateInv' /\ MismatchMeansDisturbed'
  <2> SUFFICES ASSUME IMismatch, [Next]_vars PROVE StateInv' /\ MismatchMeansDisturbed'
    OBVIOUS
  <2>1. ASSUME NEW f \in Flows, FlowStep(f) PROVE StateInv' /\ MismatchMeansDisturbed'
    BY <2>1, FlowStepKeepsState
  <2> USE DEF IMismatch, TypeOK, Flow, StateInv, MismatchMeansDisturbed
  <2>2. ASSUME NEW r \in Requests, RequestStep(r) PROVE StateInv' /\ MismatchMeansDisturbed'
    <3>1. jar'.state = jar.state /\ UNCHANGED <<flow, disturbed>>
      BY <2>2 DEF RequestStep, Send, Serve, Relay, AgentAnswers, Logout, RequestDone
    <3> QED BY <3>1
  <2>3. CASE SessionCookieExpires BY <2>3 DEF SessionCookieExpires
  <2>4. CASE StateCookieExpires BY <2>4 DEF StateCookieExpires, AtEntra
  <2>5. CASE Restart BY <2>5, RestartEffects
  <2>6. CASE UNCHANGED vars BY <2>6 DEF vars
  <2> QED BY StepCases, <2>1, <2>2, <2>3, <2>4, <2>5, <2>6 DEF TimeStep
<1> QED BY <1>1, <1>2, TypeCorrect, PTL DEF Spec, IMismatch

-----------------------------------------------------------------------------
\* Cookies and requests name only sign-ins that have ended; a session is live
\* only after its exchange succeeded, and never after its logout was served.
SessionInv ==
  /\ \A f \in Flows : sessions[f] = "live" =>
       flow[f].result = "ok" /\ flow[f].at \in {"answering", "done", "lost"}
  /\ \A f \in Flows : flow[f].at \in {"idle", "starting", "entra", "callback", "exchanging"}
       => flow[f].result = "none"
  /\ jar.session # None => flow[jar.session].at = "done" /\ flow[jar.session].result = "ok"
  /\ \A r \in Requests : request[r].cookie # None => flow[request[r].cookie].at = "done"
  /\ \A r \in Requests :
       request[r].kind = "logout" /\ request[r].at \in {"answering", "done"}
         => \A f \in Flows : f = request[r].cookie => sessions[f] # "live"
  /\ \A r \in Requests : request[r].at = "agent" => request[r].kind # "logout"
  /\ \A f \in past : flow[f].at = "done"

ISession == TypeOK /\ SessionInv /\ OrphanNeedsOverlap /\ LogoutSticks

\* Steps of sign-ins keep them: a session is born before it is named.
LEMMA FlowStepKeepsSessions ==
  ASSUME ISession, NEW f \in Flows, FlowStep(f)
  PROVE  SessionInv' /\ OrphanNeedsOverlap' /\ LogoutSticks'
<1> USE DEF ISession, TypeOK, Flow, Request, SessionInv, OrphanNeedsOverlap, LogoutSticks
<1>1. CASE Start(f) BY <1>1 DEF Start
<1>2. CASE AuthStart(f) BY <1>2 DEF AuthStart
<1>3. CASE Return(f) BY <1>3 DEF Return
<1>4. CASE AuthCallback(f) BY <1>4 DEF AuthCallback
<1>5. CASE ExchangeSucceeds(f) BY <1>5 DEF ExchangeSucceeds
<1>6. CASE ExchangeFails(f) BY <1>6 DEF ExchangeFails
<1>7. CASE Answered(f) BY <1>7 DEF Answered
<1>8. CASE TabClosed(f) BY <1>8 DEF TabClosed
<1>9. CASE SessionExpires(f) BY <1>9 DEF SessionExpires
<1> QED BY <1>1, <1>2, <1>3, <1>4, <1>5, <1>6, <1>7, <1>8, <1>9 DEF FlowStep

\* So do the requests: a logout ends the session it carries before its answer
\* clears the cookie.
LEMMA RequestStepKeepsSessions ==
  ASSUME ISession, NEW r \in Requests, RequestStep(r)
  PROVE  SessionInv' /\ OrphanNeedsOverlap' /\ LogoutSticks'
<1> USE DEF ISession, TypeOK, Flow, Request, SessionInv, OrphanNeedsOverlap, LogoutSticks
<1>1. CASE Send(r) BY <1>1, SMTT(60) DEF Send
<1>2. CASE Serve(r) BY <1>2 DEF Serve, Forget
<1>3. CASE AgentAnswers(r)
  <2>1. /\ \A q \in Requests : q # r => request'[q] = request[q]
        /\ request[r].at = "agent" /\ request'[r].at = "answering"
        /\ request'[r].kind = request[r].kind /\ request'[r].cookie = request[r].cookie
    BY <1>3 DEF AgentAnswers
  <2>2. SessionInv' /\ LogoutSticks'
    <3>1. UNCHANGED <<jar, flow, sessions, past>>
      BY <1>3 DEF AgentAnswers
    <3>2. \A q \in Requests :
            /\ request'[q].kind = request[q].kind /\ request'[q].cookie = request[q].cookie
            /\ request'[q].at = request[q].at \/ (q = r /\ request'[q].at = "answering")
      BY <2>1
    <3>3. request[r].kind # "logout"
      BY <2>1
    <3> QED BY <3>1, <3>2, <3>3
  <2>3. OrphanNeedsOverlap'
    <3>1. UNCHANGED <<jar, flow, sessions>>
      BY <1>3 DEF AgentAnswers
    <3>2. \A q \in Requests : request[q].at = "done" =>
            request'[q].at = "done" /\ request'[q].kind = request[q].kind
              /\ request'[q].cookie = request[q].cookie
      BY <2>1
    <3> QED BY <3>1, <3>2
  <2> QED BY <2>2, <2>3
<1>4. CASE Logout(r) BY <1>4 DEF Logout
<1>5. CASE RequestDone(r) BY <1>5 DEF RequestDone
<1>6. CASE Relay(r)
  <2>1. UNCHANGED <<jar, flow, sessions, past>> /\ request[r].kind # "logout"
    BY <1>6 DEF Relay
  <2>2. \A q \in Requests :
          /\ request'[q].kind = request[q].kind /\ request'[q].cookie = request[q].cookie
          /\ request'[q].at = request[q].at \/ (q = r /\ request'[q].at = "agent")
    BY <1>6 DEF Relay
  <2>3. request[r].at = "sent"
    BY <1>6 DEF Relay
  <2>4. SessionInv' /\ LogoutSticks'
    BY <2>1, <2>2
  <2>5. OrphanNeedsOverlap'
    BY <2>1, <2>2, <2>3
  <2> QED BY <2>4, <2>5
<1> QED BY <1>1, <1>2, <1>3, <1>4, <1>5, <1>6 DEF RequestStep

\* The invariant of the sessions is one.
LEMMA SessionsInductive == Spec => []ISession
<1>1. Init => SessionInv /\ OrphanNeedsOverlap /\ LogoutSticks
  BY DEF Init, SessionInv, OrphanNeedsOverlap, LogoutSticks
<1>2. ISession /\ [Next]_vars => SessionInv' /\ OrphanNeedsOverlap' /\ LogoutSticks'
  <2> SUFFICES ASSUME ISession, [Next]_vars
               PROVE  SessionInv' /\ OrphanNeedsOverlap' /\ LogoutSticks'
    OBVIOUS
  <2>1. ASSUME NEW f \in Flows, FlowStep(f)
        PROVE  SessionInv' /\ OrphanNeedsOverlap' /\ LogoutSticks'
    BY <2>1, FlowStepKeepsSessions
  <2>2. ASSUME NEW r \in Requests, RequestStep(r)
        PROVE  SessionInv' /\ OrphanNeedsOverlap' /\ LogoutSticks'
    BY <2>2, RequestStepKeepsSessions
  <2> USE DEF ISession, TypeOK, Flow, Request, SessionInv, OrphanNeedsOverlap, LogoutSticks
  <2>3. CASE SessionCookieExpires BY <2>3 DEF SessionCookieExpires
  <2>4. CASE StateCookieExpires BY <2>4 DEF StateCookieExpires
  <2>5. CASE Restart
    <3>1. OrphanNeedsOverlap' /\ LogoutSticks'
      BY <2>5, RestartEffects
    <3>2. \A r \in Requests :
            /\ request'[r].cookie = request[r].cookie
            /\ request'[r].kind = "none" \/ request'[r] = request[r]
            /\ request'[r].at = "agent" => request'[r] = request[r]
      BY <2>5, RestartEffects
    <3>3. \A f \in Flows :
            /\ sessions'[f] = "none" /\ flow'[f].result = flow[f].result
            /\ \/ flow'[f].at = flow[f].at
               \/ flow[f].at \in {"callback", "exchanging"} /\ flow'[f].at = "lost"
      BY <2>5, RestartEffects, Zenon
    <3>4. UNCHANGED <<jar, past>>
      BY <2>5, RestartEffects
    <3>5. /\ \A f \in Flows : f \in past => flow[f].at = "done"
          /\ jar.session # None => jar.session \in Flows
          /\ past \subseteq Flows
      OBVIOUS
    <3>6. SessionInv'
      BY <3>2, <3>3, <3>4, <3>5
    <3> QED BY <3>1, <3>6
  <2>6. CASE UNCHANGED vars BY <2>6 DEF vars
  <2> QED BY StepCases, <2>1, <2>2, <2>3, <2>4, <2>5, <2>6 DEF TimeStep
<1> QED BY <1>1, <1>2, TypeCorrect, PTL DEF Spec, ISession

\* A live session that its browser no longer names was overtaken by a second
\* sign-in or by a logout that did not carry it.
THEOREM OrphansComeFromOverlaps == Spec => []OrphanNeedsOverlap
BY SessionsInductive, PTL DEF ISession

\* A logout's answer leaves no session of a sign-in that had ended by then.
THEOREM LogoutIsFinal == Spec => []LogoutSticks
BY SessionsInductive, PTL DEF ISession

-----------------------------------------------------------------------------
\* Each of the three portals only takes steps of OAuthPortal: what is proved of
\* its sign-ins, sessions and logouts holds of all of them.
THEOREM PortalsRefine == PSpec => Spec
<1>1. PInit => Init
  BY DEF PInit
<1>2. [PNext]_<<vars, portal>> => [Next]_vars
  BY DEF PNext, Browser, Sends, Delegated, Obo, Credential, OboStart, OboCallback,
     OboSignsIn, OboSession, OboServes, OboLogout, CredentialStart, CredentialCallback,
     CredentialSignsIn, CredentialSession, CredentialServes, CredentialRelays,
     CredentialLogout, Next
<1> QED BY <1>1, <1>2, PTL DEF PSpec, Spec
=============================================================================
