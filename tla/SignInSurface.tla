--------------------------- MODULE SignInSurface ---------------------------
(***************************************************************************)
(* What the two chat surfaces with Google sign-in share: the store of      *)
(* sign-in states (_put_state, _pop_state; the FastAPI backend holds the   *)
(* same code), and the browser, which keeps the whole session in one       *)
(* signed cookie.  A request carries the session of the moment it is sent; *)
(* its answer writes a whole session back at the moment it arrives.        *)
(* Requests are handled in threads of their own.  Google and the gateway   *)
(* are external.                                                           *)
(* A handler's own steps touch nothing but the request's session and, where *)
(* it is said, the store: what it does after its last look at the store is *)
(* one step with the arrival of its answer.                                *)
(***************************************************************************)
EXTENDS Naturals

CONSTANTS
  Flows,        \* sign-ins; each names its state and the token it brings
  Calls,        \* other requests of the page
  Ttl,          \* _OAUTH_STATE_TTL
  MaxTime,      \* bound on the clock
  MaxRestarts,  \* bound on restarts of the server
  None

ASSUME TtlAssumption == Ttl \in Nat \ {0}
ASSUME TimeAssumption == MaxTime \in Nat
ASSUME RestartsAssumption == MaxRestarts \in Nat
ASSUME NoneAssumption == None \notin Flows

VARIABLES
  setup,   \* app: which surface; secretKept: its session secret is configured,
           \* not drawn at each start; resends: its session middleware sends a
           \* session that holds anything back with every answer
  now,
  life,    \* restarts so far
  states,  \* _oauth_states: the expiry of each state, 0 where there is none
  flow,    \* each sign-in
  call,    \* each other request
  cookie,  \* the browser's session cookie
  gone,    \* history: sign-ins whose token a later answer took out of the cookie
  late     \* history: those of gone that a request under way still carried

vars == <<setup, now, life, states, flow, call, cookie, gone, late>>

Session == [token : Flows \cup {None}, guest : BOOLEAN, life : 0 .. MaxRestarts]
EmptySession == [token |-> None, guest |-> FALSE, life |-> 0]
IsEmpty(s) == s.token = None /\ ~s.guest

FlowPlaces == {"idle", "login", "google", "callback", "exchange", "done"}
Results == {"none", "ok", "mismatch", "refused", "crashed"}
Flow == [at : FlowPlaces, begun : 0 .. MaxTime, valid : BOOLEAN, shaken : BOOLEAN,
         carried : Session, asGuest : BOOLEAN, result : Results]
Call == [kind : {"none", "page", "logout", "guest"}, carried : Session]

Setups == [app : {"glean"}, secretKept : BOOLEAN, resends : {FALSE}]
            \cup [app : {"auth0"}, secretKept : BOOLEAN, resends : BOOLEAN]

TypeOK ==
  /\ setup \in Setups
  /\ now \in 0 .. MaxTime /\ life \in 0 .. MaxRestarts
  /\ states \in [Flows -> 0 .. MaxTime + Ttl]
  /\ flow \in [Flows -> Flow] /\ call \in [Calls -> Call]
  /\ cookie \in Session
  /\ gone \subseteq Flows /\ late \subseteq Flows

IdleFlow == [at |-> "idle", begun |-> 0, valid |-> FALSE, shaken |-> FALSE,
             carried |-> EmptySession, asGuest |-> FALSE, result |-> "none"]
NoCall == [kind |-> "none", carried |-> EmptySession]

Init ==
  /\ setup \in Setups
  /\ now = 0 /\ life = 0
  /\ states = [f \in Flows |-> 0]
  /\ flow = [f \in Flows |-> IdleFlow]
  /\ call = [c \in Calls |-> NoCall]
  /\ cookie = EmptySession
  /\ gone = {} /\ late = {}

-----------------------------------------------------------------------------
\* The browser

\* The session that a request would bring: nothing if the cookie was signed
\* with the secret of an earlier start.
Carried ==
  IF cookie.life = life \/ setup.secretKept THEN [cookie EXCEPT !.life = 0] ELSE EmptySession

Signed(s) == IF IsEmpty(s) THEN EmptySession ELSE [s EXCEPT !.life = life]

\* Requests under way whose answer may bring the token of f back.
Holding(f) ==
  \/ \E c \in Calls : call[c].kind = "page" /\ call[c].carried.token = f
  \/ \E g \in Flows : flow[g].at \in {"callback", "exchange"} /\ flow[g].carried.token = f

\* An answer arrives that writes s to the cookie; the request is over by then.
Writes(s) ==
  LET leaves == {f \in Flows : cookie.token = f /\ s.token # f}
  IN  /\ cookie' = Signed(s)
      /\ gone' = gone \cup leaves
      /\ late' = late \cup {f \in leaves : Holding(f)'}

WritesNothing == UNCHANGED <<cookie, gone, late>>

-----------------------------------------------------------------------------
\* The store of states

\* Threads that iterate over the dictionary while g changes its size: their
\* next step raises or not.
Shaken(flows, g) ==
  [f \in Flows |-> IF f # g /\ flows[f].at = "login" THEN [flows[f] EXCEPT !.shaken = TRUE]
                   ELSE flows[f]]

\* Faulty variant: the purge takes the state that is at its last moment too.
PutPurgesEarly(f) ==
  states' = [g \in Flows |-> IF g = f THEN flow[f].begun + Ttl
                             ELSE IF states[g] <= flow[f].begun THEN 0 ELSE states[g]]

\* _put_state, from the purge on: what had expired when it looked at the clock
\* goes, and the new state comes.
Put(f) ==
  states' = [g \in Flows |-> IF g = f THEN flow[f].begun + Ttl
                             ELSE IF states[g] < flow[f].begun THEN 0 ELSE states[g]]

\* _pop_state takes the state out whether or not it accepts it.
Pop(f) == states' = [states EXCEPT ![f] = 0]
PopAccepts(f) == states[f] # 0 /\ states[f] >= now

-----------------------------------------------------------------------------
\* Time and restarts

Tick ==
  /\ now < MaxTime /\ now' = now + 1
  /\ UNCHANGED <<setup, life, states, flow, call, cookie, gone, late>>

\* The states are in memory; what was being handled gets no answer.
Restart ==
  /\ life < MaxRestarts /\ life' = life + 1
  /\ states' = [f \in Flows |-> 0]
  /\ flow' = [f \in Flows |->
       IF flow[f].at \in {"login", "callback", "exchange"}
         THEN [IdleFlow EXCEPT !.at = "done", !.asGuest = flow[f].asGuest]
       ELSE [flow[f] EXCEPT !.valid = FALSE, !.begun = 0]]
  /\ call' = [c \in Calls |-> NoCall]
  /\ UNCHANGED <<setup, now, cookie, gone, late>>
=============================================================================
