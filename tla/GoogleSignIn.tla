---------------------------- MODULE GoogleSignIn ----------------------------
(***************************************************************************)
(* The handlers of the two surfaces over SignInSurface: the Flask app of   *)
(* glean-mcp-surface (oauth_chat_app.py), which writes the cookie only     *)
(* when a handler changed the session, and the FastAPI backend of          *)
(* auth0-mcp-surface (backend/main.py), whose session middleware, in the   *)
(* versions its requirements allow, may send any session back.             *)
(***************************************************************************)
EXTENDS SignInSurface

Glean == setup.app = "glean"
Auth0 == setup.app = "auth0"

-----------------------------------------------------------------------------
\* A sign-in

\* login draws a state and looks at the clock before it walks the dictionary.
Login(f) ==
  /\ flow[f].at = "idle"
  /\ flow' = [flow EXCEPT ![f].at = "login", ![f].begun = now]
  /\ UNCHANGED <<setup, now, life, states, call, cookie, gone, late>>

LoginDone(f) ==
  /\ flow[f].at = "login"
  /\ Put(f)
  /\ flow' = [Shaken(flow, f) EXCEPT ![f].at = "google", ![f].valid = TRUE, ![f].shaken = FALSE]
  /\ UNCHANGED <<setup, now, life, call, cookie, gone, late>>

\* "dictionary changed size during iteration": a 500, and no state.
LoginRaises(f) ==
  /\ flow[f].at = "login" /\ flow[f].shaken
  /\ flow' = [flow EXCEPT ![f].at = "done", ![f].shaken = FALSE, ![f].result = "crashed"]
  /\ UNCHANGED <<setup, now, life, states, call, cookie, gone, late>>

\* Google sends the browser back, or the user opens the same address again.
Return(f) ==
  /\ flow[f].at \in {"google", "exchange", "done"}
  /\ flow' = [flow EXCEPT ![f].at = "callback", ![f].carried = Carried, ![f].result = "none"]
  /\ UNCHANGED <<setup, now, life, states, call, cookie, gone, late>>

\* Faulty variant: the session is emptied before the new token is put into it.
GleanSignsInFresh(f, result) ==
  IF result = "ok" THEN Writes([EmptySession EXCEPT !.token = f]) ELSE WritesNothing

\* Flask writes the cookie if the handler changed the session: the new token
\* joins what the request's session held.
GleanSignsIn(f, result) ==
  IF result = "ok" THEN Writes([flow[f].carried EXCEPT !.token = f]) ELSE WritesNothing

\* FastAPI: likewise, and a refusal may send the session back as it came; an
\* exception passes the session middleware by.
Auth0SignsIn(f, result) ==
  IF result = "ok" THEN Writes([flow[f].carried EXCEPT !.token = f])
  ELSE IF setup.resends /\ result # "crashed" /\ ~IsEmpty(flow[f].carried)
    THEN Writes(flow[f].carried)
  ELSE WritesNothing

\* The callback's answer arrives.
Ends(flows, f, result) ==
  /\ flow' = [flows EXCEPT ![f].at = "done", ![f].carried = EmptySession,
                ![f].valid = FALSE, ![f].begun = 0, ![f].result = result]
  /\ IF Glean THEN GleanSignsIn(f, result) ELSE Auth0SignsIn(f, result)

\* callback consumes the state before it looks at anything else; with an error
\* from Google, or without a code, it ends there.
Callback(f) ==
  LET flows == IF states[f] # 0 THEN Shaken(flow, f) ELSE flow
  IN  /\ flow[f].at = "callback"
      /\ Pop(f)
      /\ UNCHANGED <<setup, now, life, call>>
      /\ \/ ~PopAccepts(f) /\ Ends(flows, f, "mismatch")
         \/ PopAccepts(f) /\ Ends(flows, f, "refused")
         \/ /\ PopAccepts(f)
            /\ flow' = [flows EXCEPT ![f].at = "exchange", ![f].valid = FALSE, ![f].begun = 0,
                          ![f].asGuest = flow[f].carried.guest]
            /\ WritesNothing

\* Google answers the two requests with tokens and user, or with an error in
\* place of tokens, or one of them raises.
Exchange(f) ==
  /\ flow[f].at = "exchange"
  /\ UNCHANGED <<setup, now, life, states, call>>
  /\ \E result \in {"ok", "refused", "crashed"} : Ends(flow, f, result)

-----------------------------------------------------------------------------
\* The page's other requests

\* Enter sends while another request is under way: only the button is disabled.
Send(c) ==
  /\ call[c].kind = "none"
  /\ \E kind \in {"page", "logout"} \cup (IF Glean THEN {"guest"} ELSE {}) :
       call' = [call EXCEPT ![c] = [kind |-> kind, carried |-> Carried]]
  /\ UNCHANGED <<setup, now, life, states, flow, cookie, gone, late>>

Answered(c, kind) ==
  /\ call[c].kind = kind
  /\ call' = [call EXCEPT ![c] = NoCall]
  /\ UNCHANGED <<setup, now, life, states, flow>>

\* Faulty variant: Flask sends the session back with every answer.
GleanPageResends(c) == Glean /\ Answered(c, "page") /\ Writes(call[c].carried)

\* index shows the session; gateway_request and gateway_chat_request refuse one
\* without a token (401), and else wait up to 30 s for the gateway.  None of
\* them changes the session.
GleanPage(c) == Glean /\ Answered(c, "page") /\ WritesNothing

GleanLogout(c) == Glean /\ Answered(c, "logout") /\ Writes(EmptySession)

\* guest_login empties the session before it puts the guest into it.
GleanGuest(c) ==
  /\ Glean /\ Answered(c, "guest")
  /\ Writes([EmptySession EXCEPT !.guest = TRUE])

\* me, gateway_request and gateway_chat_request, which wait alike.
Auth0Page(c) ==
  /\ Auth0 /\ Answered(c, "page")
  /\ IF setup.resends /\ ~IsEmpty(call[c].carried) THEN Writes(call[c].carried)
     ELSE WritesNothing

\* A session that was empty when it came and is empty now leaves the cookie.
Auth0Logout(c) ==
  /\ Auth0 /\ Answered(c, "logout")
  /\ IF IsEmpty(call[c].carried) THEN WritesNothing ELSE Writes(EmptySession)

-----------------------------------------------------------------------------

Next ==
  \/ \E f \in Flows :
       Login(f) \/ LoginDone(f) \/ LoginRaises(f) \/ Return(f) \/ Callback(f) \/ Exchange(f)
  \/ \E c \in Calls :
       \/ Send(c) \/ GleanPage(c) \/ GleanLogout(c) \/ GleanGuest(c)
       \/ Auth0Page(c) \/ Auth0Logout(c)
  \/ Tick \/ Restart

Spec == Init /\ [][Next]_vars

-----------------------------------------------------------------------------
\* Properties

\* The callback accepts a state exactly when this start of the server issued
\* it, no callback brought it before, and at most Ttl has passed since its
\* login looked at the clock, whatever the purges of other sign-ins did in
\* between: they take no state that would be accepted.
StatesAreJudgedRight ==
  [][\A f \in Flows :
       flow[f].at = "callback" /\ flow'[f].at # "callback" /\ life' = life =>
         (flow'[f].result # "mismatch"
            <=> flow[f].valid /\ now <= flow[f].begun + Ttl)]_vars

\* A token that an answer has taken out of the cookie, by a logout or another
\* sign-in, comes back only where the middleware resends sessions, and only by
\* a request that was under way at that moment.  In the Flask app never.
RevivalNeedsSlowAnswer ==
  cookie.token \in gone => setup.resends /\ cookie.token \in late

\* The guest flag stands beside a token (the page then says "Guest" of a user
\* who is signed in) exactly when the sign-in was brought back by a browser
\* that was a guest's: nothing but a logout clears the flag.
GuestFlagIsInherited ==
  cookie.token # None => (cookie.guest <=> flow[cookie.token].asGuest)
=============================================================================
