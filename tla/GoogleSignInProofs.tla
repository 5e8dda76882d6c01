-------------------------- MODULE GoogleSignInProofs --------------------------
(***************************************************************************)
(* Proofs about GoogleSignIn, for any number of sign-ins, requests and     *)
(* restarts.  The store of states is a matter of times alone.  For the     *)
(* cookie, three lemmas say once what any step can do to the sign-ins, to  *)
(* the requests and to the cookie; the invariants follow from these.       *)
(***************************************************************************)
EXTENDS GoogleSignIn, TLAPS

USE TtlAssumption, TimeAssumption, RestartsAssumption, NoneAssumption

FlowStep(f) ==
  Login(f) \/ LoginDone(f) \/ LoginRaises(f) \/ Return(f) \/ Callback(f) \/ Exchange(f)
CallStep(c) ==
  \/ Send(c) \/ GleanPage(c) \/ GleanLogout(c) \/ GleanGuest(c) \/ Auth0Page(c) \/ Auth0Logout(c)

-----------------------------------------------------------------------------
\* Types

LEMMA EmptyIsSession == EmptySession \in Session /\ EmptySession.token = None /\ ~EmptySession.guest
BY DEF EmptySession, Session

LEMMA CarriedIsSession ==
  ASSUME TypeOK
  PROVE  Carried \in Session /\ Carried.token \in {cookie.token, None}
<1>1. [cookie EXCEPT !.life = 0] \in Session /\ [cookie EXCEPT !.life = 0].token = cookie.token
  BY DEF TypeOK, Session
<1> QED BY <1>1, EmptyIsSession DEF Carried

\* What arrives in the browser is a session again, with the same contents.
LEMMA SignedIsSession ==
  ASSUME TypeOK, NEW s \in Session
  PROVE  Signed(s) \in Session /\ Signed(s).token = s.token /\ Signed(s).guest = s.guest
<1>1. CASE IsEmpty(s)
  BY <1>1, EmptyIsSession DEF Signed, IsEmpty, Session
<1>2. CASE ~IsEmpty(s)
  BY <1>2 DEF Signed, TypeOK, Session
<1> QED BY <1>1, <1>2

LEMMA WritesTypes ==
  ASSUME TypeOK, NEW s \in Session, Writes(s)
  PROVE  cookie' \in Session /\ gone' \subseteq Flows /\ late' \subseteq Flows
BY SignedIsSession DEF Writes, TypeOK

LEMMA GuestSession ==
  /\ [EmptySession EXCEPT !.guest = TRUE] \in Session
  /\ [EmptySession EXCEPT !.guest = TRUE].token = None
BY EmptyIsSession DEF Session

\* A session that a new token has joined.
LEMMA TokenJoins ==
  ASSUME NEW s \in Session, NEW f \in Flows
  PROVE  LET t == [s EXCEPT !.token = f]
         IN  t \in Session /\ t.token = f /\ t.guest = s.guest
BY DEF Session

\* The sessions that an answer may write to the cookie.
Source(s) ==
  \/ s.token = None
  \/ \E f \in Flows : /\ flow[f].at = "exchange" /\ flow'[f].at = "done"
                      /\ s.token = f /\ s.guest = flow[f].carried.guest
  \/ /\ setup.resends
     /\ \/ \E c \in Calls : call[c].kind = "page" /\ s = call[c].carried
        \/ \E f \in Flows : flow[f].at \in {"callback", "exchange"} /\ s = flow[f].carried

-----------------------------------------------------------------------------
\* What each step of a sign-in does to it

\* But for f, the sign-ins are what they were; one may have been shaken.
Others(f, flows) ==
  \A g \in Flows \ {f} :
    \E b \in BOOLEAN : flows[g] = [flow[g] EXCEPT !.shaken = b]

LEMMA ShakenStays ==
  ASSUME TypeOK, NEW f \in Flows
  PROVE  /\ Shaken(flow, f) \in [Flows -> Flow]
         /\ Shaken(flow, f)[f] = flow[f]
         /\ Others(f, Shaken(flow, f))
<1>1. ASSUME NEW g \in Flows, NEW b \in BOOLEAN
      PROVE  [flow[g] EXCEPT !.shaken = b] \in Flow
  BY DEF TypeOK, Flow
<1>2. \A g \in Flows : flow[g] = [flow[g] EXCEPT !.shaken = flow[g].shaken] /\ flow[g].shaken \in BOOLEAN
  BY DEF TypeOK, Flow
<1> QED BY <1>1, <1>2 DEF Shaken, Others, TypeOK

\* Its own next record, for each action; begins is what may become of its begun.
Own(f, at, begun, valid, carried, asGuest, result) ==
  /\ flow' \in [Flows -> Flow]
  /\ Others(f, flow')
  /\ flow'[f].at = at /\ flow'[f].begun = begun /\ flow'[f].valid = valid
  /\ flow'[f].carried = carried /\ flow'[f].asGuest = asGuest /\ flow'[f].result = result

\* Any one record put in the place of f's, and the others shaken or not.
LEMMA OwnRecord ==
  ASSUME TypeOK, NEW f \in Flows, NEW flows \in [Flows -> Flow], NEW x \in Flow,
         flows = flow \/ flows = Shaken(flow, f),
         flow' = [flows EXCEPT ![f] = x]
  PROVE  /\ flow' \in [Flows -> Flow] /\ Others(f, flow') /\ flow'[f] = x
<1>1. \A g \in Flows : flow[g] = [flow[g] EXCEPT !.shaken = flow[g].shaken] /\ flow[g].shaken \in BOOLEAN
  BY DEF TypeOK, Flow
<1>2. Others(f, flow)
  BY <1>1 DEF Others
<1>4. Others(f, flows)
  BY <1>2, ShakenStays
<1>3. \A g \in Flows \ {f} : flow'[g] = flows[g]
  OBVIOUS
<1> QED BY <1>3, <1>4 DEF Others

LEMMA LoginEffect ==
  ASSUME TypeOK, NEW f \in Flows, Login(f)
  PROVE  Own(f, "login", now, flow[f].valid, flow[f].carried, flow[f].asGuest, flow[f].result)
<1> DEFINE x == [flow[f] EXCEPT !.at = "login", !.begun = now]
<1>1. x \in Flow
  BY DEF TypeOK, Flow, FlowPlaces
<1>2. flow' = [flow EXCEPT ![f] = x]
  BY DEF Login, TypeOK
<1>3. flow[f] \in Flow
  BY DEF TypeOK
<1> QED BY <1>1, <1>2, <1>3, OwnRecord DEF Own, TypeOK, Flow

LEMMA LoginDoneEffect ==
  ASSUME TypeOK, NEW f \in Flows, LoginDone(f)
  PROVE  Own(f, "google", flow[f].begun, TRUE, flow[f].carried, flow[f].asGuest, flow[f].result)
<1> DEFINE x == [flow[f] EXCEPT !.at = "google", !.valid = TRUE, !.shaken = FALSE]
<1>1. x \in Flow
  BY DEF TypeOK, Flow, FlowPlaces
<1>2. Shaken(flow, f)[f] = flow[f] /\ Shaken(flow, f) \in [Flows -> Flow]
  BY ShakenStays
<1>3. flow' = [Shaken(flow, f) EXCEPT ![f] = x]
  BY <1>2 DEF LoginDone, TypeOK
<1>4. flow[f] \in Flow
  BY DEF TypeOK
<1> QED BY <1>1, <1>2, <1>3, <1>4, OwnRecord DEF Own, Flow

LEMMA LoginRaisesEffect ==
  ASSUME TypeOK, NEW f \in Flows, LoginRaises(f)
  PROVE  Own(f, "done", flow[f].begun, flow[f].valid, flow[f].carried, flow[f].asGuest, "crashed")
<1> DEFINE x == [flow[f] EXCEPT !.at = "done", !.shaken = FALSE, !.result = "crashed"]
<1>1. x \in Flow
  BY DEF TypeOK, Flow, FlowPlaces, Results
<1>2. flow' = [flow EXCEPT ![f] = x]
  BY DEF LoginRaises, TypeOK
<1>3. flow[f] \in Flow
  BY DEF TypeOK
<1> QED BY <1>1, <1>2, <1>3, OwnRecord DEF Own, TypeOK, Flow

LEMMA ReturnEffect ==
  ASSUME TypeOK, NEW f \in Flows, Return(f)
  PROVE  Own(f, "callback", flow[f].begun, flow[f].valid, Carried, flow[f].asGuest, "none")
<1> DEFINE x == [flow[f] EXCEPT !.at = "callback", !.carried = Carried, !.result = "none"]
<1>1. x \in Flow
  <2>1. flow[f] \in Flow /\ Carried \in Session /\ "callback" \in FlowPlaces /\ "none" \in Results
    BY CarriedIsSession DEF TypeOK, FlowPlaces, Results
  <2> QED BY <2>1 DEF Flow
<1>2. flow' = [flow EXCEPT ![f] = x]
  BY DEF Return, TypeOK
<1>3. flow[f] \in Flow
  BY DEF TypeOK
<1>4. /\ x.at = "callback" /\ x.begun = flow[f].begun /\ x.valid = flow[f].valid
      /\ x.carried = Carried /\ x.asGuest = flow[f].asGuest /\ x.result = "none"
  BY <1>3 DEF Flow
<1> HIDE DEF x
<1>5. flow' \in [Flows -> Flow] /\ Others(f, flow') /\ flow'[f] = x
  <2>1. flow \in [Flows -> Flow]
    BY DEF TypeOK
  <2> QED BY <1>1, <1>2, <2>1, OwnRecord
<1> QED BY <1>4, <1>5 DEF Own

\* Of what an answer writes to the cookie there is at most one session.
CookieStep == WritesNothing \/ \E s \in Session : Writes(s) /\ Source(s)

LEMMA EndsEffect ==
  ASSUME TypeOK, NEW f \in Flows, NEW flows \in [Flows -> Flow], NEW result \in Results,
         flows = flow \/ flows = Shaken(flow, f), Ends(flows, f, result),
         flow[f].at \in {"callback", "exchange"}, result = "ok" => flow[f].at = "exchange"
  PROVE  /\ Own(f, "done", 0, FALSE, EmptySession, flow[f].asGuest, result)
         /\ CookieStep
<1> DEFINE x == [flow[f] EXCEPT !.at = "done", !.carried = EmptySession,
                   !.valid = FALSE, !.begun = 0, !.result = result]
           t == [flow[f].carried EXCEPT !.token = f]
<1>1. flow[f] \in Flow /\ flow[f].carried \in Session
  BY DEF TypeOK, Flow
<1>2. x \in Flow
  <2>1. EmptySession \in Session /\ "done" \in FlowPlaces /\ 0 \in 0 .. MaxTime
    BY EmptyIsSession DEF FlowPlaces
  <2> QED BY <1>1, <2>1 DEF Flow
<1>3. flows[f] = flow[f]
  BY ShakenStays
<1>4. flow' = [flows EXCEPT ![f] = x]
  BY <1>3 DEF Ends
<1>5. Own(f, "done", 0, FALSE, EmptySession, flow[f].asGuest, result)
  BY <1>1, <1>2, <1>4, OwnRecord DEF Own, Flow
<1>6. t \in Session /\ t.token = f /\ t.guest = flow[f].carried.guest
  BY <1>1, TokenJoins
<1>7. CASE result = "ok"
  <2>1. Writes(t)
    BY <1>7 DEF Ends, GleanSignsIn, Auth0SignsIn
  <2>2. Source(t)
    BY <1>5, <1>6, <1>7 DEF Source, Own
  <2> QED BY <1>5, <1>6, <2>1, <2>2 DEF CookieStep
<1>8. CASE result # "ok"
  <2>1. WritesNothing \/ (setup.resends /\ Writes(flow[f].carried))
    BY <1>8 DEF Ends, GleanSignsIn, Auth0SignsIn
  <2>2. setup.resends => Source(flow[f].carried)
    BY DEF Source
  <2> QED BY <1>1, <1>5, <2>1, <2>2 DEF CookieStep
<1> QED BY <1>7, <1>8

\* The callback consumes the state, and goes on only when it accepts it.
LEMMA CallbackEffect ==
  ASSUME TypeOK, NEW f \in Flows, Callback(f)
  PROVE  /\ CookieStep
         /\ \/ /\ ~PopAccepts(f)
               /\ Own(f, "done", 0, FALSE, EmptySession, flow[f].asGuest, "mismatch")
            \/ /\ PopAccepts(f)
               /\ Own(f, "done", 0, FALSE, EmptySession, flow[f].asGuest, "refused")
            \/ /\ PopAccepts(f)
               /\ Own(f, "exchange", 0, FALSE, flow[f].carried, flow[f].carried.guest, flow[f].result)
<1> DEFINE flows == IF states[f] # 0 THEN Shaken(flow, f) ELSE flow
           x == [flow[f] EXCEPT !.at = "exchange", !.valid = FALSE, !.begun = 0,
                   !.asGuest = flow[f].carried.guest]
<1>1. flows \in [Flows -> Flow] /\ flows[f] = flow[f] /\ (flows = flow \/ flows = Shaken(flow, f))
  BY ShakenStays DEF TypeOK
<1>2. flow[f] \in Flow /\ flow[f].carried.guest \in BOOLEAN /\ flow[f].at = "callback"
  BY DEF TypeOK, Flow, Session, Callback
<1>3. x \in Flow
  <2>1. "exchange" \in FlowPlaces /\ 0 \in 0 .. MaxTime
    BY DEF FlowPlaces
  <2> QED BY <1>2, <2>1 DEF Flow
<1>4. "mismatch" \in Results /\ "refused" \in Results
  BY DEF Results
<1>5. CASE ~PopAccepts(f) /\ Ends(flows, f, "mismatch")
  <2> HIDE DEF flows
  <2> QED BY <1>1, <1>2, <1>4, <1>5, EndsEffect
<1>6. CASE PopAccepts(f) /\ Ends(flows, f, "refused")
  <2> HIDE DEF flows
  <2> QED BY <1>1, <1>2, <1>4, <1>6, EndsEffect
<1>7. CASE /\ PopAccepts(f)
           /\ flow' = [flows EXCEPT ![f].at = "exchange", ![f].valid = FALSE, ![f].begun = 0,
                          ![f].asGuest = flow[f].carried.guest]
           /\ WritesNothing
  <2>1. flow' = [flows EXCEPT ![f] = x]
    BY <1>1, <1>7
  <2> HIDE DEF flows
  <2>2. flow' \in [Flows -> Flow] /\ Others(f, flow') /\ flow'[f] = x
    BY <1>1, <1>3, <2>1, OwnRecord
  <2>3. Own(f, "exchange", 0, FALSE, flow[f].carried, flow[f].carried.guest, flow[f].result)
    BY <1>2, <2>2 DEF Own, Flow
  <2> QED BY <1>7, <2>3 DEF CookieStep
<1> QED BY <1>5, <1>6, <1>7 DEF Callback

LEMMA ExchangeEffect ==
  ASSUME TypeOK, NEW f \in Flows, Exchange(f)
  PROVE  /\ CookieStep
         /\ \E result \in {"ok", "refused", "crashed"} :
              Own(f, "done", 0, FALSE, EmptySession, flow[f].asGuest, result)
BY EndsEffect DEF Exchange, TypeOK, Results

-----------------------------------------------------------------------------
\* What the other steps do

LEMMA RestartEffect ==
  ASSUME TypeOK, Restart
  PROVE  /\ flow' \in [Flows -> Flow] /\ call' \in [Calls -> Call]
         /\ \A f \in Flows :
              /\ flow'[f].asGuest = flow[f].asGuest
              /\ ~flow'[f].valid /\ flow'[f].begun <= now
              /\ \/ flow'[f].at = "done" /\ flow'[f].carried = EmptySession /\ flow'[f].result = "none"
                 \/ /\ flow'[f].at = flow[f].at /\ flow'[f].carried = flow[f].carried
                    /\ flow'[f].result = flow[f].result
                    /\ flow[f].at \notin {"login", "callback", "exchange"}
         /\ \A c \in Calls : call'[c].kind = "none" /\ call'[c].carried = EmptySession
<1>1. ASSUME NEW f \in Flows
      PROVE  /\ [IdleFlow EXCEPT !.at = "done", !.asGuest = flow[f].asGuest] \in Flow
             /\ [flow[f] EXCEPT !.valid = FALSE, !.begun = 0] \in Flow
  <2>1. flow[f] \in Flow /\ EmptySession \in Session /\ 0 \in 0 .. MaxTime
    BY EmptyIsSession DEF TypeOK
  <2>2. "done" \in FlowPlaces /\ "none" \in Results
    BY DEF FlowPlaces, Results
  <2> QED BY <2>1, <2>2 DEF Flow, IdleFlow
<1>2. NoCall \in Call
  BY EmptyIsSession DEF NoCall, Call
<1>3. now \in Nat
  BY DEF TypeOK
<1>4. \A f \in Flows : flow[f] \in Flow
  BY DEF TypeOK
<1>5. flow' \in [Flows -> Flow] /\ call' \in [Calls -> Call]
  BY <1>1, <1>2 DEF Restart
<1>6. \A c \in Calls : call'[c].kind = "none" /\ call'[c].carried = EmptySession
  BY DEF Restart, NoCall
<1>7. ASSUME NEW f \in Flows
      PROVE  /\ flow'[f].asGuest = flow[f].asGuest
             /\ ~flow'[f].valid /\ flow'[f].begun <= now
             /\ \/ flow'[f].at = "done" /\ flow'[f].carried = EmptySession /\ flow'[f].result = "none"
                \/ /\ flow'[f].at = flow[f].at /\ flow'[f].carried = flow[f].carried
                   /\ flow'[f].result = flow[f].result
                   /\ flow[f].at \notin {"login", "callback", "exchange"}
  <2>1. CASE flow[f].at \in {"login", "callback", "exchange"}
    <3>1. flow'[f] = [IdleFlow EXCEPT !.at = "done", !.asGuest = flow[f].asGuest]
      BY <2>1 DEF Restart
    <3> QED BY <1>3, <3>1 DEF IdleFlow
  <2>2. CASE flow[f].at \notin {"login", "callback", "exchange"}
    <3>1. flow'[f] = [flow[f] EXCEPT !.valid = FALSE, !.begun = 0]
      BY <2>2 DEF Restart
    <3> QED BY <1>3, <1>4, <2>2, <3>1 DEF Flow
  <2> QED BY <2>1, <2>2
<1> QED BY <1>5, <1>6, <1>7

\* The kinds of requests, and what answers them.
LEMMA SendEffect ==
  ASSUME TypeOK, NEW c \in Calls, Send(c)
  PROVE  /\ call' \in [Calls -> Call]
         /\ call'[c].carried = Carried
         /\ \A d \in Calls \ {c} : call'[d] = call[d]
BY CarriedIsSession DEF Send, TypeOK, Call

LEMMA AnswerEffect ==
  ASSUME TypeOK, NEW c \in Calls, CallStep(c), ~Send(c)
  PROVE  /\ call' \in [Calls -> Call] /\ call'[c].kind = "none" /\ call'[c].carried = EmptySession
         /\ \A d \in Calls \ {c} : call'[d] = call[d]
         /\ UNCHANGED <<setup, now, life, states, flow>>
         /\ CookieStep
<1>1. \E kind \in {"page", "logout", "guest"} : Answered(c, kind)
  BY DEF CallStep, GleanPage, GleanLogout, GleanGuest, Auth0Page, Auth0Logout
<1>2. NoCall \in Call /\ NoCall.kind = "none" /\ NoCall.carried = EmptySession
  BY EmptyIsSession DEF NoCall, Call
<1>3. /\ call' \in [Calls -> Call] /\ call'[c].kind = "none" /\ call'[c].carried = EmptySession
      /\ \A d \in Calls \ {c} : call'[d] = call[d]
      /\ UNCHANGED <<setup, now, life, states, flow>>
  BY <1>1, <1>2 DEF Answered, TypeOK
<1>4. call[c].carried \in Session
  BY DEF TypeOK, Call
<1>5. CookieStep
  <2>1. Source(EmptySession) /\ Source([EmptySession EXCEPT !.guest = TRUE])
    BY EmptyIsSession, GuestSession DEF Source
  <2>2. ASSUME setup.resends, call[c].kind = "page"
        PROVE  Source(call[c].carried)
    BY <2>2 DEF Source
  <2> QED BY <1>4, <2>1, <2>2, EmptyIsSession, GuestSession
          DEF CookieStep, CallStep, GleanPage, GleanLogout, GleanGuest, Auth0Page, Auth0Logout, Answered
<1> QED BY <1>3, <1>5

-----------------------------------------------------------------------------
\* The cases of a step.
LEMMA StepCases ==
  ASSUME [Next]_vars
  PROVE  \/ \E f \in Flows : FlowStep(f)
         \/ \E c \in Calls : CallStep(c)
         \/ Tick \/ Restart \/ UNCHANGED vars
BY DEF Next, FlowStep, CallStep

LEMMA InitTypes == Init => TypeOK
<1> SUFFICES ASSUME Init PROVE TypeOK
  OBVIOUS
<1>1. IdleFlow \in Flow /\ NoCall \in Call
  BY EmptyIsSession DEF IdleFlow, Flow, FlowPlaces, Results, NoCall, Call
<1> QED BY <1>1, EmptyIsSession DEF Init, TypeOK

LEMMA FlowStepTypes ==
  ASSUME TypeOK, NEW f \in Flows, FlowStep(f)
  PROVE  TypeOK'
<1>1. flow' \in [Flows -> Flow]
  BY LoginEffect, LoginDoneEffect, LoginRaisesEffect, ReturnEffect, CallbackEffect, ExchangeEffect
     DEF FlowStep, Own
<1>2. states' \in [Flows -> 0 .. MaxTime + Ttl]
  <2>1. flow[f].begun \in 0 .. MaxTime
    BY DEF TypeOK, Flow
  <2>2. states' = states \/ Put(f) \/ Pop(f)
    BY DEF FlowStep, Login, LoginDone, LoginRaises, Return, Callback, Exchange
  <2>3. states \in [Flows -> 0 .. MaxTime + Ttl]
    BY DEF TypeOK
  <2>4. CASE Put(f)
    <3>1. flow[f].begun + Ttl \in 0 .. MaxTime + Ttl
      BY <2>1
    <3> QED BY <2>3, <2>4, <3>1 DEF Put
  <2>5. CASE Pop(f)
    BY <2>3, <2>5 DEF Pop
  <2> QED BY <2>2, <2>3, <2>4, <2>5
<1>3. cookie' \in Session /\ gone' \subseteq Flows /\ late' \subseteq Flows
  <2>1. CookieStep
    BY CallbackEffect, ExchangeEffect
       DEF FlowStep, Login, LoginDone, LoginRaises, Return, CookieStep, WritesNothing
  <2> QED BY <2>1, WritesTypes DEF CookieStep, WritesNothing, TypeOK
<1>4. UNCHANGED <<setup, now, life, call>>
  BY DEF FlowStep, Login, LoginDone, LoginRaises, Return, Callback, Exchange
<1> QED BY <1>1, <1>2, <1>3, <1>4 DEF TypeOK

LEMMA CallStepTypes ==
  ASSUME TypeOK, NEW c \in Calls, CallStep(c)
  PROVE  TypeOK'
<1>1. CASE Send(c)
  BY <1>1, SendEffect DEF Send, TypeOK
<1>2. CASE ~Send(c)
  BY <1>2, AnswerEffect, WritesTypes DEF CookieStep, WritesNothing, TypeOK
<1> QED BY <1>1, <1>2

\* TypeOK is inductive.
LEMMA StepTypes == TypeOK /\ [Next]_vars => TypeOK'
<1> SUFFICES ASSUME TypeOK, [Next]_vars PROVE TypeOK'
  OBVIOUS
<1>1. CASE Tick
  BY <1>1 DEF Tick, TypeOK
<1>2. CASE Restart
  <2>1. /\ states' = [f \in Flows |-> 0] /\ life < MaxRestarts /\ life' = life + 1
        /\ UNCHANGED <<setup, now, cookie, gone, late>>
    BY <1>2, Zenon DEF Restart
  <2>2. flow' \in [Flows -> Flow] /\ call' \in [Calls -> Call]
    BY <1>2, RestartEffect
  <2> QED BY <2>1, <2>2 DEF TypeOK
<1>3. CASE UNCHANGED vars
  BY <1>3 DEF vars, TypeOK
<1> QED BY <1>1, <1>2, <1>3, FlowStepTypes, CallStepTypes, StepCases

\* Every variable of the surfaces keeps its type.
THEOREM TypeCorrect == Spec => []TypeOK
BY InitTypes, StepTypes, PTL DEF Spec

-----------------------------------------------------------------------------
\* The store.  A state that the store has lost was past its time, and one that
\* it holds was issued by this start and not brought back yet.
StoreInv ==
  \A f \in Flows :
    /\ flow[f].begun <= now
    /\ flow[f].valid => flow[f].at \in {"google", "callback"}
    /\ states[f] # 0 => flow[f].valid
    /\ flow[f].valid => \/ states[f] = flow[f].begun + Ttl
                        \/ states[f] = 0 /\ flow[f].begun + Ttl < now
    /\ flow[f].at = "callback" => flow[f].result # "mismatch"

\* What StoreInv needs to know of the numbers.
LEMMA Numbers ==
  ASSUME TypeOK
  PROVE  /\ now \in Nat /\ Ttl \in Nat \ {0}
         /\ \A f \in Flows : flow[f].begun \in Nat /\ flow[f].valid \in BOOLEAN /\ states[f] \in Nat
BY DEF TypeOK, Flow

LEMMA OthersSame ==
  ASSUME TypeOK, NEW f \in Flows, Others(f, flow'), NEW g \in Flows, g # f
  PROVE  /\ flow'[g].at = flow[g].at /\ flow'[g].begun = flow[g].begun
         /\ flow'[g].valid = flow[g].valid /\ flow'[g].carried = flow[g].carried
         /\ flow'[g].asGuest = flow[g].asGuest /\ flow'[g].result = flow[g].result
<1>1. flow[g] \in Flow
  BY DEF TypeOK
<1> QED BY <1>1 DEF Others, Flow

LEMMA FlowStepStore ==
  ASSUME TypeOK, StoreInv, NEW f \in Flows, FlowStep(f)
  PROVE  StoreInv'
<1> USE Numbers
<1>1. now' = now
  BY DEF FlowStep, Login, LoginDone, LoginRaises, Return, Callback, Exchange
<1>2. CASE Login(f)
  <2>1. UNCHANGED states /\ flow[f].at = "idle"
    BY <1>2 DEF Login
  <2>2. /\ Others(f, flow') /\ flow'[f].begun = now /\ flow'[f].valid = flow[f].valid
        /\ flow'[f].at = "login"
    BY <1>2, LoginEffect DEF Own
  <2> QED BY <1>1, <2>1, <2>2, OthersSame DEF StoreInv
<1>3. CASE LoginDone(f)
  <2>1. \A g \in Flows : g # f => states'[g] = IF states[g] < flow[f].begun THEN 0 ELSE states[g]
    BY <1>3 DEF LoginDone, Put
  <2>2. states'[f] = flow[f].begun + Ttl
    BY <1>3 DEF LoginDone, Put
  <2>3. /\ Others(f, flow') /\ flow'[f].begun = flow[f].begun /\ flow'[f].valid
        /\ flow'[f].at = "google"
    BY <1>3, LoginDoneEffect DEF Own
  <2> QED BY <1>1, <2>1, <2>2, <2>3, OthersSame DEF StoreInv
<1>4. CASE LoginRaises(f)
  <2>1. UNCHANGED states /\ flow[f].at = "login"
    BY <1>4 DEF LoginRaises
  <2>2. /\ Others(f, flow') /\ flow'[f].begun = flow[f].begun /\ flow'[f].valid = flow[f].valid
        /\ flow'[f].at = "done"
    BY <1>4, LoginRaisesEffect DEF Own
  <2> QED BY <1>1, <2>1, <2>2, OthersSame DEF StoreInv
<1>5. CASE Return(f)
  <2>1. UNCHANGED states
    BY <1>5 DEF Return
  <2>2. /\ Others(f, flow') /\ flow'[f].begun = flow[f].begun /\ flow'[f].valid = flow[f].valid
        /\ flow'[f].at = "callback" /\ flow'[f].result = "none"
    BY <1>5, ReturnEffect DEF Own
  <2> QED BY <1>1, <2>1, <2>2, OthersSame DEF StoreInv
<1>6. CASE Callback(f)
  <2>1. states'[f] = 0 /\ \A g \in Flows : g # f => states'[g] = states[g]
    BY <1>6 DEF Callback, Pop, TypeOK
  <2>2. /\ Others(f, flow') /\ flow'[f].begun = 0 /\ ~flow'[f].valid
        /\ flow'[f].at \in {"done", "exchange"}
    BY <1>6, CallbackEffect DEF Own
  <2> QED BY <1>1, <2>1, <2>2, OthersSame DEF StoreInv
<1>7. CASE Exchange(f)
  <2>1. UNCHANGED states /\ flow[f].at = "exchange"
    BY <1>7 DEF Exchange
  <2>2. /\ Others(f, flow') /\ flow'[f].begun = 0 /\ ~flow'[f].valid /\ flow'[f].at = "done"
    BY <1>7, ExchangeEffect DEF Own
  <2> QED BY <1>1, <2>1, <2>2, OthersSame DEF StoreInv
<1> QED BY <1>2, <1>3, <1>4, <1>5, <1>6, <1>7 DEF FlowStep

LEMMA StoreInit == Init => StoreInv
<1> SUFFICES ASSUME Init PROVE StoreInv
  OBVIOUS
<1>1. \A f \in Flows : /\ flow[f].at = "idle" /\ flow[f].begun = 0 /\ ~flow[f].valid
                        /\ states[f] = 0
  BY DEF Init, IdleFlow
<1>2. \A f \in Flows : flow[f].begun <= now
  <2>1. now = 0 /\ 0 <= 0
    BY DEF Init
  <2> QED BY <1>1, <2>1
<1> QED BY <1>1, <1>2, Zenon DEF StoreInv

\* StoreInv is inductive.
LEMMA StoreStep == TypeOK /\ StoreInv /\ [Next]_vars => StoreInv'
<1> SUFFICES ASSUME TypeOK, StoreInv, [Next]_vars PROVE StoreInv'
  OBVIOUS
<1>1. CASE Tick
  BY <1>1, Numbers DEF Tick, StoreInv
<1>2. CASE Restart
  <2>1. now' = now /\ \A f \in Flows : states'[f] = 0
    BY <1>2, Zenon DEF Restart
  <2>2. \A f \in Flows : ~flow'[f].valid /\ flow'[f].begun <= now
    BY <1>2, RestartEffect
  <2>3. \A f \in Flows : flow'[f].at = "callback" => flow'[f].result # "mismatch"
    BY <1>2, RestartEffect DEF StoreInv
  <2> QED BY <2>1, <2>2, <2>3 DEF StoreInv
<1>3. CASE UNCHANGED vars
  BY <1>3 DEF vars, StoreInv
<1>4. ASSUME NEW c \in Calls, CallStep(c) PROVE StoreInv'
  <2>1. UNCHANGED <<now, states, flow>>
    BY <1>4, AnswerEffect DEF Send
  <2> QED BY <2>1 DEF StoreInv
<1> QED BY <1>1, <1>2, <1>3, <1>4, FlowStepStore, StepCases

\* A state is accepted when it is this start's, fresh and within its time.
LEMMA PopIsRight ==
  ASSUME TypeOK, StoreInv, NEW f \in Flows
  PROVE  PopAccepts(f) <=> flow[f].valid /\ now <= flow[f].begun + Ttl
BY Numbers DEF StoreInv, PopAccepts

Judged(f) ==
  flow[f].at = "callback" /\ flow'[f].at # "callback" /\ life' = life =>
    (flow'[f].result # "mismatch" <=> flow[f].valid /\ now <= flow[f].begun + Ttl)

LEMMA StepJudges ==
  ASSUME TypeOK, StoreInv, [Next]_vars, NEW f \in Flows
  PROVE  Judged(f)
<1> SUFFICES ASSUME flow[f].at = "callback", flow'[f].at # "callback", life' = life
             PROVE  flow'[f].result # "mismatch" <=> flow[f].valid /\ now <= flow[f].begun + Ttl
  BY DEF Judged
<1>1. ~Restart /\ ~Tick /\ ~UNCHANGED vars
  <2>1. Restart => life' = life + 1
    BY Zenon DEF Restart
  <2>2. life \in Nat
    BY DEF TypeOK
  <2>3. Tick \/ UNCHANGED vars => UNCHANGED flow
    BY DEF Tick, vars
  <2> QED BY <2>1, <2>2, <2>3
<1>2. ASSUME NEW c \in Calls, CallStep(c) PROVE FALSE
  BY <1>2, AnswerEffect DEF Send
<1>3. ASSUME NEW g \in Flows, FlowStep(g) PROVE Callback(f)
  <2>1. Others(g, flow')
    BY <1>3, LoginEffect, LoginDoneEffect, LoginRaisesEffect, ReturnEffect, CallbackEffect, ExchangeEffect
       DEF FlowStep, Own
  <2>2. g = f
    BY <2>1, OthersSame
  <2> QED BY <1>3, <2>2 DEF FlowStep, Login, LoginDone, LoginRaises, Return, Exchange
<1>4. Callback(f)
  BY <1>1, <1>2, <1>3, StepCases
<1>5. PopAccepts(f) <=> flow[f].valid /\ now <= flow[f].begun + Ttl
  BY PopIsRight
<1>6. flow[f].result # "mismatch"
  BY DEF StoreInv
<1>7. flow'[f].result = "mismatch" <=> ~PopAccepts(f)
  <2>1. \/ ~PopAccepts(f) /\ flow'[f].result = "mismatch"
        \/ PopAccepts(f) /\ flow'[f].result = "refused"
        \/ PopAccepts(f) /\ flow'[f].result = flow[f].result
    BY <1>4, CallbackEffect DEF Own
  <2> QED BY <1>6, <2>1
<1> QED BY <1>5, <1>7

\* A state is accepted exactly when this start issued it, it was not brought
\* back before, and its time has not passed: the purges cannot change that.
THEOREM StatesAreJudged == Spec => StatesAreJudgedRight
<1>1. Init => TypeOK /\ StoreInv
  BY InitTypes, StoreInit
<1>2. (TypeOK /\ StoreInv) /\ [Next]_vars => (TypeOK /\ StoreInv)'
  BY StepTypes, StoreStep
<1>3. TypeOK /\ StoreInv /\ [Next]_vars => [\A f \in Flows :
       flow[f].at = "callback" /\ flow'[f].at # "callback" /\ life' = life =>
         (flow'[f].result # "mismatch"
            <=> flow[f].valid /\ now <= flow[f].begun + Ttl)]_vars
  BY StepJudges DEF Judged
<1> QED BY <1>1, <1>2, <1>3, PTL DEF Spec, StatesAreJudgedRight

-----------------------------------------------------------------------------
\* The cookie

\* A sign-in that may still bring its token.
Unspent(f) == flow[f].at \in {"idle", "login", "exchange"} \/ flow[f].valid

InPlay(t) ==
  \/ t \in gone \/ cookie.token = t
  \/ \E f \in Flows : flow[f].carried.token = t
  \/ \E c \in Calls : call[c].carried.token = t

\* A token that has been anywhere is not brought again.
SpentInv == \A t \in Flows : InPlay(t) => ~Unspent(t)

\* Whoever holds a token that has left the cookie held it at that moment, or
\* has it from the cookie since.
LateInv ==
  \A t \in gone :
    /\ cookie.token = t => setup.resends /\ t \in late
    /\ Holding(t) => t \in late

Faithful(s) == s.token # None => (s.guest <=> flow[s.token].asGuest)

\* Every copy of a session has the flag of its token's sign-in.
GuestInv ==
  /\ Faithful(cookie)
  /\ \A f \in Flows : /\ Faithful(flow[f].carried)
                      /\ flow[f].at = "exchange" => (flow[f].asGuest <=> flow[f].carried.guest)
  /\ \A c \in Calls : Faithful(call[c].carried)

CookieInv == SpentInv /\ LateInv /\ GuestInv

\* What any step does to a sign-in.
FlowChange(f) ==
  /\ Unspent(f)' => Unspent(f)
  /\ (flow'[f].asGuest <=> flow[f].asGuest) \/ flow[f].valid
  /\ \/ flow'[f].carried = EmptySession
     \/ flow'[f].carried = Carried
     \/ /\ flow'[f].carried = flow[f].carried
        /\ flow'[f].at \in {"callback", "exchange"} => flow[f].at \in {"callback", "exchange"}
  /\ flow'[f].at = "exchange" =>
       \/ flow'[f].asGuest <=> flow'[f].carried.guest
       \/ /\ flow[f].at = "exchange" /\ flow'[f].carried = flow[f].carried
          /\ flow'[f].asGuest <=> flow[f].asGuest

LEMMA OwnStepChanges ==
  ASSUME TypeOK, StoreInv, NEW f \in Flows, FlowStep(f)
  PROVE  FlowChange(f)
<1>1. CASE Login(f)
  <2>1. flow[f].at = "idle"
    BY <1>1 DEF Login
  <2> QED BY <1>1, <2>1, LoginEffect DEF Own, FlowChange, Unspent
<1>2. CASE LoginDone(f)
  <2>1. flow[f].at = "login"
    BY <1>2 DEF LoginDone
  <2> QED BY <1>2, <2>1, LoginDoneEffect DEF Own, FlowChange, Unspent
<1>3. CASE LoginRaises(f)
  BY <1>3, LoginRaisesEffect DEF Own, FlowChange, Unspent
<1>4. CASE Return(f)
  BY <1>4, ReturnEffect DEF Own, FlowChange, Unspent
<1>5. CASE Callback(f)
  <2>1. flow[f].at = "callback"
    BY <1>5 DEF Callback
  <2>2. PopAccepts(f) => flow[f].valid
    BY PopIsRight
  <2> QED BY <1>5, <2>1, <2>2, CallbackEffect DEF Own, FlowChange, Unspent
<1>6. CASE Exchange(f)
  BY <1>6, ExchangeEffect DEF Own, FlowChange, Unspent
<1> QED BY <1>1, <1>2, <1>3, <1>4, <1>5, <1>6 DEF FlowStep

LEMMA FlowChanges ==
  ASSUME TypeOK, StoreInv, [Next]_vars, NEW f \in Flows
  PROVE  FlowChange(f)
<1>1. CASE UNCHANGED flow
  BY <1>1 DEF FlowChange, Unspent
<1>2. CASE Restart
  BY <1>2, RestartEffect DEF FlowChange, Unspent
<1>3. ASSUME NEW g \in Flows, FlowStep(g), g # f PROVE FlowChange(f)
  <2>1. Others(g, flow')
    BY <1>3, LoginEffect, LoginDoneEffect, LoginRaisesEffect, ReturnEffect, CallbackEffect, ExchangeEffect
       DEF FlowStep, Own
  <2> QED BY <1>3, <2>1, OthersSame DEF FlowChange, Unspent
<1>4. ASSUME NEW c \in Calls, CallStep(c) PROVE UNCHANGED flow
  BY <1>4, AnswerEffect DEF Send
<1>5. Tick \/ UNCHANGED vars => UNCHANGED flow
  BY DEF Tick, vars
<1> QED BY <1>1, <1>2, <1>3, <1>4, <1>5, OwnStepChanges, StepCases

\* What any step does to a request.
LEMMA CallChanges ==
  ASSUME TypeOK, [Next]_vars, NEW c \in Calls
  PROVE  \/ call'[c].carried = EmptySession \/ call'[c].carried = Carried
         \/ call'[c] = call[c]
<1>1. CASE Restart
  BY <1>1, RestartEffect
<1>2. ASSUME NEW d \in Calls, CallStep(d)
      PROVE  call'[c].carried = EmptySession \/ call'[c].carried = Carried \/ call'[c] = call[c]
  BY <1>2, SendEffect, AnswerEffect
<1>3. ASSUME NEW f \in Flows, FlowStep(f) PROVE UNCHANGED call
  BY <1>3 DEF FlowStep, Login, LoginDone, LoginRaises, Return, Callback, Exchange
<1>4. Tick \/ UNCHANGED vars => UNCHANGED call
  BY DEF Tick, vars
<1> QED BY <1>1, <1>2, <1>3, <1>4, StepCases

\* What any step does to the cookie.
LEMMA CookieChanges ==
  ASSUME TypeOK, [Next]_vars
  PROVE  CookieStep /\ setup' = setup
<1>1. CASE Restart
  <2>1. UNCHANGED <<setup, cookie, gone, late>>
    BY <1>1, Zenon DEF Restart
  <2> QED BY <2>1 DEF CookieStep, WritesNothing
<1>2. ASSUME NEW c \in Calls, CallStep(c) PROVE CookieStep /\ setup' = setup
  BY <1>2, AnswerEffect DEF Send, CookieStep, WritesNothing
<1>3. ASSUME NEW f \in Flows, FlowStep(f) PROVE CookieStep /\ setup' = setup
  BY <1>3, CallbackEffect, ExchangeEffect
     DEF FlowStep, Login, LoginDone, LoginRaises, Return, Callback, Exchange, CookieStep, WritesNothing
<1>4. Tick \/ UNCHANGED vars => UNCHANGED <<setup, cookie, gone, late>>
  BY DEF Tick, vars
<1> QED BY <1>1, <1>2, <1>3, <1>4, StepCases DEF CookieStep, WritesNothing

\* What a session written to the cookie does to the histories.
LEMMA WritesEffect ==
  ASSUME TypeOK, NEW s \in Session, Writes(s)
  PROVE  /\ cookie'.token = s.token /\ cookie'.guest = s.guest
         /\ \A t \in gone' : t \in gone \/ (cookie.token = t /\ s.token # t /\ (Holding(t)' => t \in late'))
         /\ gone \subseteq gone' /\ late \subseteq late'
BY SignedIsSession DEF Writes

\* f brings its token.
Brings(f) == flow[f].at = "exchange" /\ flow'[f].at = "done"

\* Where the token of the cookie comes from, and what has left it.
LEMMA CookieFrom ==
  ASSUME TypeOK, [Next]_vars
  PROVE  /\ gone \subseteq gone' /\ late \subseteq late'
         /\ \A t \in gone' : \/ t \in gone
                             \/ cookie.token = t /\ cookie'.token # t /\ (Holding(t)' => t \in late')
         /\ \/ cookie' = cookie
            \/ cookie'.token = None
            \/ /\ cookie'.token \in Flows /\ Brings(cookie'.token)
               /\ cookie'.guest = flow[cookie'.token].carried.guest
            \/ /\ setup.resends /\ cookie'.token \in Flows /\ Holding(cookie'.token)
               /\ \/ \E c \in Calls : cookie'.token = call[c].carried.token
                                        /\ cookie'.guest = call[c].carried.guest
                  \/ \E f \in Flows : cookie'.token = flow[f].carried.token
                                        /\ cookie'.guest = flow[f].carried.guest
<1>1. CASE WritesNothing
  BY <1>1 DEF WritesNothing
<1>2. ASSUME NEW s \in Session, Writes(s), Source(s)
      PROVE  \/ s.token = None
             \/ s.token \in Flows /\ Brings(s.token) /\ s.guest = flow[s.token].carried.guest
             \/ /\ setup.resends /\ s.token \in Flows /\ Holding(s.token)
                /\ \/ \E c \in Calls : s.token = call[c].carried.token /\ s.guest = call[c].carried.guest
                   \/ \E f \in Flows : s.token = flow[f].carried.token /\ s.guest = flow[f].carried.guest
  BY <1>2 DEF Source, Brings, Holding, Session
<1>3. ASSUME NEW s \in Session, Writes(s), Source(s)
      PROVE  /\ cookie'.token = s.token /\ cookie'.guest = s.guest
             /\ gone \subseteq gone' /\ late \subseteq late'
             /\ \A t \in gone' : t \in gone \/ (cookie.token = t /\ s.token # t /\ (Holding(t)' => t \in late'))
  BY <1>3, WritesEffect
<1> QED BY <1>1, <1>2, <1>3, CookieChanges DEF CookieStep

LEMMA PlayGrows ==
  ASSUME TypeOK, StoreInv, [Next]_vars, NEW t \in Flows, InPlay(t)'
  PROVE  InPlay(t) \/ (Brings(t) /\ cookie'.token = t)
<1>1. EmptySession.token = None /\ Carried.token \in {cookie.token, None}
  BY EmptyIsSession, CarriedIsSession
<1>2. ASSUME NEW f \in Flows, flow'[f].carried.token = t PROVE InPlay(t)
  BY <1>1, <1>2, FlowChanges DEF FlowChange, InPlay
<1>3. ASSUME NEW c \in Calls, call'[c].carried.token = t PROVE InPlay(t)
  BY <1>1, <1>3, CallChanges DEF InPlay
<1>4. CASE t \in gone'
  BY <1>4, CookieFrom DEF InPlay
<1>5. CASE cookie'.token = t
  BY <1>5, CookieFrom DEF InPlay
<1> QED BY <1>2, <1>3, <1>4, <1>5 DEF InPlay

\* The three invariants of the cookie, each kept by any step.
LEMMA SpentStep ==
  ASSUME TypeOK, StoreInv, StoreInv', SpentInv, [Next]_vars
  PROVE  SpentInv'
<1> SUFFICES ASSUME NEW t \in Flows, InPlay(t)' PROVE ~Unspent(t)'
  BY DEF SpentInv
<1>1. CASE InPlay(t)
  BY <1>1, FlowChanges DEF SpentInv, FlowChange
<1>2. CASE Brings(t)
  BY <1>2 DEF Brings, Unspent, StoreInv
<1> QED BY <1>1, <1>2, PlayGrows

LEMMA LateStep ==
  ASSUME TypeOK, StoreInv, SpentInv, LateInv, [Next]_vars
  PROVE  LateInv'
<1> SUFFICES ASSUME NEW t \in gone'
             PROVE  /\ cookie'.token = t => setup'.resends /\ t \in late'
                    /\ Holding(t)' => t \in late'
  BY DEF LateInv
<1>1. setup' = setup /\ late \subseteq late'
  BY CookieChanges, CookieFrom
<1>2. CASE t \notin gone
  BY <1>2, CookieFrom
<1>3. CASE t \in gone
  <2>1. t \in Flows /\ ~Brings(t)
    BY <1>3 DEF TypeOK, SpentInv, InPlay, Brings, Unspent
  <2>2. EmptySession.token = None /\ Carried.token \in {cookie.token, None}
    BY EmptyIsSession, CarriedIsSession
  <2>3. Holding(t)' => Holding(t) \/ cookie.token = t
    <3>1. ASSUME NEW f \in Flows, flow'[f].at \in {"callback", "exchange"}, flow'[f].carried.token = t
          PROVE  Holding(t) \/ cookie.token = t
      BY <2>1, <2>2, <3>1, FlowChanges DEF FlowChange, Holding
    <3>2. ASSUME NEW c \in Calls, call'[c].kind = "page", call'[c].carried.token = t
          PROVE  Holding(t) \/ cookie.token = t
      BY <2>1, <2>2, <3>2, CallChanges DEF Holding
    <3> QED BY <3>1, <3>2 DEF Holding
  <2>4. cookie'.token = t => cookie.token = t \/ (setup.resends /\ Holding(t))
    BY <2>1, CookieFrom
  <2> QED BY <1>1, <1>3, <2>3, <2>4 DEF LateInv
<1> QED BY <1>2, <1>3

\* A session is faithful to the sign-ins as a step leaves them.
FaithfulNext(s) == s.token # None => (s.guest <=> flow'[s.token].asGuest)

\* A session whose token is not about to come stays faithful.
LEMMA FaithStays ==
  ASSUME TypeOK, StoreInv, SpentInv, [Next]_vars, NEW s \in Session, Faithful(s),
         s.token # None => InPlay(s.token)
  PROVE  FaithfulNext(s)
<1> SUFFICES ASSUME s.token # None PROVE s.guest <=> flow'[s.token].asGuest
  BY DEF FaithfulNext
<1>1. s.token \in Flows
  BY DEF Session
<1> QED BY <1>1, FlowChanges DEF FlowChange, SpentInv, Unspent, Faithful

LEMMA GuestStep ==
  ASSUME TypeOK, StoreInv, SpentInv, GuestInv, [Next]_vars
  PROVE  GuestInv'
<1>1. FaithfulNext(EmptySession)
  BY EmptyIsSession DEF FaithfulNext
<1>2. FaithfulNext(cookie)
  BY FaithStays DEF GuestInv, TypeOK, InPlay
<1>3. FaithfulNext(Carried)
  <2>1. [cookie EXCEPT !.life = 0].token = cookie.token /\ [cookie EXCEPT !.life = 0].guest = cookie.guest
    BY DEF TypeOK, Session
  <2> QED BY <1>1, <1>2, <2>1 DEF Carried, FaithfulNext
<1>4. ASSUME NEW f \in Flows PROVE FaithfulNext(flow[f].carried)
  BY FaithStays DEF TypeOK, Flow, GuestInv, InPlay
<1>5. ASSUME NEW c \in Calls PROVE FaithfulNext(call[c].carried)
  BY FaithStays DEF TypeOK, Call, GuestInv, InPlay
<1>6. ASSUME NEW f \in Flows PROVE FaithfulNext(flow'[f].carried)
  BY <1>1, <1>3, <1>4, FlowChanges DEF FlowChange
<1>7. ASSUME NEW c \in Calls PROVE FaithfulNext(call'[c].carried)
  BY <1>1, <1>3, <1>5, CallChanges
<1>8. ASSUME NEW f \in Flows, flow'[f].at = "exchange"
      PROVE  flow'[f].asGuest <=> flow'[f].carried.guest
  BY <1>8, FlowChanges DEF FlowChange, GuestInv
<1>9. FaithfulNext(cookie')
  <2>1. ASSUME NEW f \in Flows, Brings(f)
        PROVE  flow[f].carried.guest <=> flow'[f].asGuest
    BY <2>1, FlowChanges DEF FlowChange, Brings, StoreInv, GuestInv
  <2> QED BY <1>2, <1>4, <1>5, <2>1, CookieFrom DEF FaithfulNext
<1> QED BY <1>6, <1>7, <1>8, <1>9 DEF GuestInv, Faithful, FaithfulNext

-----------------------------------------------------------------------------
\* The theorems

IInv == TypeOK /\ StoreInv /\ CookieInv

LEMMA CookieInit == Init => CookieInv
<1> SUFFICES ASSUME Init PROVE CookieInv
  OBVIOUS
<1>1. \A f \in Flows : flow[f].at = "idle" /\ flow[f].carried = EmptySession
  BY DEF Init, IdleFlow
<1>2. \A c \in Calls : call[c].carried = EmptySession
  BY DEF Init, NoCall
<1>3. cookie = EmptySession /\ gone = {}
  BY DEF Init
<1> QED BY <1>1, <1>2, <1>3, EmptyIsSession
        DEF CookieInv, SpentInv, InPlay, LateInv, GuestInv, Faithful

\* Every copy of a session, in the cookie or with a request, is accounted for.
THEOREM SessionsInvariant == Spec => []IInv
<1>1. Init => IInv
  BY InitTypes, StoreInit, CookieInit DEF IInv
<1>2. IInv /\ [Next]_vars => IInv'
  BY StepTypes, StoreStep, SpentStep, LateStep, GuestStep DEF IInv, CookieInv
<1> QED BY <1>1, <1>2, PTL DEF Spec

\* A token that has left the cookie comes back only where sessions are sent
\* back with every answer, and only by a request that held it when it left.
THEOREM RevivalIsExplained == Spec => []RevivalNeedsSlowAnswer
<1>1. IInv => RevivalNeedsSlowAnswer
  BY DEF IInv, CookieInv, LateInv, RevivalNeedsSlowAnswer
<1> QED BY <1>1, SessionsInvariant, PTL

\* The guest flag beside a token tells who brought its sign-in back.
THEOREM GuestIsInherited == Spec => []GuestFlagIsInherited
<1>1. IInv => GuestFlagIsInherited
  BY DEF IInv, CookieInv, GuestInv, Faithful, GuestFlagIsInherited
<1> QED BY <1>1, SessionsInvariant, PTL

=============================================================================
