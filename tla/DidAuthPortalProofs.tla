------------------------- MODULE DidAuthPortalProofs -------------------------
(***************************************************************************)
(* Proofs about DidAuthPortal, for any number of calls and crashes.  Three *)
(* invariants follow the three things the calls share: the types with the  *)
(* key a regenerate has in hand, the session with the calls that are       *)
(* assigning its fields, and the key file with the regenerate under way.   *)
(***************************************************************************)
EXTENDS DidAuthPortal, TLAPS

USE CallsAssumption, NoneAssumption, CrashesAssumption

AuthStep(c) == AuthPost(c) \/ AuthGranted(c) \/ AuthFails(c)
SendStep(c) == SendPost(c) \/ SendAnswered(c)
Writers == Auths \cup Logouts \cup Regens

\* The cases of a step, for the proofs below.
LEMMA StepCases ==
  ASSUME [Next]_vars
  PROVE  \/ \E c \in Auths : AuthStep(c)
         \/ \E c \in Sends : SendStep(c)
         \/ \E c \in Logouts : LogoutBegin(c)
         \/ \E c \in Regens : RegenStep(c)
         \/ \E c \in Writers : StoreStep(c)
         \/ Crash \/ Restart \/ UNCHANGED vars
BY DEF Next, AuthStep, SendStep, Writers

\* A regenerate that is about to write or assign a key has one in hand.
HandInv ==
  \A c \in Regens : pc[c] \in {"opening", "writing", "assigning"} => callDid[c] \in 1 .. minted

TypeInv == TypeOK /\ HandInv /\ identity \in 1 .. minted

-----------------------------------------------------------------------------
\* Every variable keeps its type, and the identity is a key pair that exists.
THEOREM TypeCorrect == Spec => []TypeInv
<1>1. Init => TypeInv
  BY DEF Init, TypeInv, TypeOK, HandInv, NoSession, Locs, Calls, NoFile, TornFile
<1>2. TypeInv /\ [Next]_vars => TypeInv'
  <2> SUFFICES ASSUME TypeInv, [Next]_vars PROVE TypeInv'
    OBVIOUS
  <2> USE DEF TypeInv, TypeOK, HandInv, Goto, Locs, idVars, runVars, Calls, NoFile, TornFile
  <2>1. ASSUME NEW c \in Auths, AuthStep(c) PROVE TypeInv'
    BY <2>1 DEF AuthStep, AuthPost, AuthGranted, AuthFails
  <2>2. ASSUME NEW c \in Sends, SendStep(c) PROVE TypeInv'
    <3>1. CASE SendPost(c) BY <3>1 DEF SendPost
    <3>2. CASE SendAnswered(c)
      <4>1. session' \in [surface : Auths \cup {None}, token : Auths \cup {None},
                          expiry : Auths \cup {None}]
        BY <3>2 DEF SendAnswered
      <4> QED BY <3>2, <4>1 DEF SendAnswered
    <3> QED BY <2>2, <3>1, <3>2 DEF SendStep
  <2>3. ASSUME NEW c \in Logouts, LogoutBegin(c) PROVE TypeInv'
    BY <2>3 DEF LogoutBegin
  <2>4. ASSUME NEW c \in Regens, RegenStep(c) PROVE TypeInv'
    <3>1. CASE RegenBegin(c) BY <3>1 DEF RegenBegin
    <3>2. CASE RegenUnlink(c) BY <3>2 DEF RegenUnlink
    <3>3. CASE RegenLoad(c) BY <3>3 DEF RegenLoad
    <3>4. CASE RegenGenerate(c) BY <3>4 DEF RegenGenerate
    <3>5. CASE RegenOpen(c) BY <3>5 DEF RegenOpen
    <3>6. CASE RegenWrite(c) BY <3>6 DEF RegenWrite
    <3>7. CASE RegenAssign(c) BY <3>7 DEF RegenAssign
    <3> QED BY <2>4, <3>1, <3>2, <3>3, <3>4, <3>5, <3>6, <3>7 DEF RegenStep
  <2>5. ASSUME NEW c \in Writers, StoreStep(c) PROVE TypeInv'
    <3>1. CASE StoreSurface(c) BY <3>1 DEF StoreSurface, Value, Writers
    <3>2. CASE StoreToken(c) BY <3>2 DEF StoreToken, Value, Writers
    <3>3. CASE StoreExpiry(c) BY <3>3 DEF StoreExpiry, Value, Writers
    <3> QED BY <2>5, <3>1, <3>2, <3>3 DEF StoreStep
  <2>6. CASE Crash
    BY <2>6 DEF Crash, NoSession
  <2>7. CASE Restart
    BY <2>7 DEF Restart
  <2>8. CASE UNCHANGED vars
    BY <2>8 DEF vars
  <2> QED BY <2>1, <2>2, <2>3, <2>4, <2>5, <2>6, <2>7, <2>8, StepCases
<1> QED BY <1>1, <1>2, PTL DEF Spec

-----------------------------------------------------------------------------
\* A server that is down has no session and no call under way.
DownInv == server # "up" => session = NoSession /\ \A c \in Calls : ~InFlight(c)

\* A session, or one that may still be stored, is that of the identity in
\* force, unless its call was overtaken, or a regenerate is about to clear it.
StaleInv ==
  /\ \A a \in Auths : InFlight(a) => callDid[a] = identity \/ a \in overlap.regens
  /\ session.token # None =>
       \/ callDid[session.token] = identity
       \/ session.token \in overlap.regens
       \/ \E c \in Regens : pc[c] \in {"surface", "token"}

\* While the calls that assign fields do so one at a time, the session is
\* whole but for the fields that the one has still to assign.
WholeInv ==
  overlap.writers = {} =>
    /\ \A c, d \in Calls : Writing(c) /\ Writing(d) => c = d
    /\ (\A c \in Calls : ~Writing(c)) /\ session.token # None =>
         session.surface = session.token /\ session.expiry = session.token
    /\ \A c \in Calls : Writing(c) =>
         /\ session.surface = Value(c)
         /\ pc[c] = "expiry" => session.token \in {Value(c), None}

\* While regenerates run one at a time, the key file follows the steps of the
\* one under way and is the identity's otherwise.
FileInv ==
  server = "up" /\ overlap.pair = {} =>
    /\ \A c, d \in Regens : InFlight(c) /\ InFlight(d) => c = d
    /\ (\A c \in Regens : pc[c] \notin {"loading", "opening", "writing", "assigning"})
         => keyFile = identity
    /\ \A c \in Regens :
         /\ pc[c] \in {"loading", "opening"} => keyFile = NoFile
         /\ pc[c] = "assigning" => keyFile = callDid[c]

SessionInv == DownInv /\ StaleInv /\ WholeInv

\* A crash and a restart leave no session and no call.
LEMMA RestartsKeepSession ==
  ASSUME TypeInv, SessionInv, Crash \/ Restart
  PROVE  SessionInv'
<1> USE DEF TypeInv, TypeOK, SessionInv, DownInv, StaleInv, WholeInv, InFlight, Writing,
            NoSession, Calls, Value, idVars
<1>1. CASE Crash
  BY <1>1 DEF Crash
<1>2. CASE Restart
  BY <1>2 DEF Restart
<1> QED BY <1>1, <1>2

\* Three assignments, each by one call: what they leave to the next.
LEMMA StoresKeepSession ==
  ASSUME TypeInv, SessionInv, NEW c \in Writers, StoreStep(c)
  PROVE  SessionInv'
<1> USE DEF TypeInv, TypeOK, Writers, Calls, Goto, runVars, idVars
<1>0. session \in [surface : Auths \cup {None}, token : Auths \cup {None},
                   expiry : Auths \cup {None}]
  OBVIOUS
<1>1. CASE StoreSurface(c)
  <2>1. /\ pc' = [pc EXCEPT ![c] = "token"] /\ pc[c] = "surface" /\ server' = server
        /\ session' = [session EXCEPT !.surface = Value(c)]
        /\ overlap'.regens = overlap.regens
        /\ overlap'.writers = {} => overlap.writers = {} /\ \A d \in Calls \ {c} : ~Writing(d)
        /\ identity' = identity /\ callDid' = callDid /\ server = "up"
    BY <1>1 DEF StoreSurface
  <2>2. DownInv' BY <2>1 DEF DownInv
  <2>3. StaleInv' BY <2>1, <1>0 DEF SessionInv, StaleInv, InFlight
  <2>4. WholeInv' BY <2>1, <1>0 DEF SessionInv, WholeInv, Writing, Value
  <2> QED BY <2>2, <2>3, <2>4 DEF SessionInv
<1>2. CASE StoreToken(c)
  <2>1. /\ pc' = [pc EXCEPT ![c] = "expiry"] /\ pc[c] = "token" /\ server' = server
        /\ session' = [session EXCEPT !.token = Value(c)]
        /\ overlap' = overlap
        /\ identity' = identity /\ callDid' = callDid /\ server = "up"
    BY <1>2 DEF StoreToken
  <2>2. DownInv' BY <2>1 DEF DownInv
  <2>3. StaleInv' BY <2>1, <1>0 DEF SessionInv, StaleInv, InFlight, Value
  <2>4. WholeInv' BY <2>1, <1>0 DEF SessionInv, WholeInv, Writing, Value
  <2> QED BY <2>2, <2>3, <2>4 DEF SessionInv
<1>3. CASE StoreExpiry(c)
  <2>1. /\ pc' = [pc EXCEPT ![c] = "over"] /\ pc[c] = "expiry" /\ server' = server
        /\ session' = [session EXCEPT !.expiry = Value(c)]
        /\ overlap' = overlap
        /\ identity' = identity /\ callDid' = callDid /\ server = "up"
    BY <1>3 DEF StoreExpiry
  <2>2. DownInv' BY <2>1 DEF DownInv
  <2>3. StaleInv' BY <2>1, <1>0 DEF SessionInv, StaleInv, InFlight, Value
  <2>4. WholeInv' BY <2>1, <1>0 DEF SessionInv, WholeInv, Writing, Value
  <2> QED BY <2>2, <2>3, <2>4 DEF SessionInv
<1> QED BY <1>1, <1>2, <1>3 DEF StoreStep

\* Every other step of a call assigns no field, but for a token that is dropped.
LEMMA CallsKeepSession ==
  ASSUME TypeInv, SessionInv,
         \/ \E c \in Auths : AuthStep(c)
         \/ \E c \in Sends : SendStep(c)
         \/ \E c \in Logouts : LogoutBegin(c)
         \/ \E c \in Regens : RegenStep(c)
  PROVE  SessionInv'
<1> USE DEF TypeInv, TypeOK, SessionInv, DownInv, StaleInv, WholeInv, InFlight, Writing,
            Calls, Value, idVars, runVars, Goto
<1>1. ASSUME NEW c \in Auths, AuthStep(c) PROVE SessionInv'
  <2>1. CASE AuthPost(c) BY <2>1 DEF AuthPost
  <2>2. CASE AuthGranted(c) BY <2>2 DEF AuthGranted
  <2>3. CASE AuthFails(c) BY <2>3 DEF AuthFails
  <2> QED BY <1>1, <2>1, <2>2, <2>3 DEF AuthStep
<1>2. ASSUME NEW c \in Sends, SendStep(c) PROVE SessionInv'
  <2>1. CASE SendPost(c) BY <2>1 DEF SendPost
  <2>2. CASE SendAnswered(c) BY <2>2 DEF SendAnswered
  <2> QED BY <1>2, <2>1, <2>2 DEF SendStep
<1>3. ASSUME NEW c \in Logouts, LogoutBegin(c) PROVE SessionInv'
  BY <1>3 DEF LogoutBegin
<1>4. ASSUME NEW c \in Regens, RegenStep(c) PROVE SessionInv'
  <2>1. CASE RegenBegin(c) BY <2>1 DEF RegenBegin
  <2>2. CASE RegenUnlink(c) BY <2>2 DEF RegenUnlink
  <2>3. CASE RegenLoad(c) BY <2>3 DEF RegenLoad
  <2>4. CASE RegenGenerate(c) BY <2>4 DEF RegenGenerate
  <2>5. CASE RegenOpen(c) BY <2>5 DEF RegenOpen
  <2>6. CASE RegenWrite(c) BY <2>6 DEF RegenWrite
  <2>7. CASE RegenAssign(c) BY <2>7 DEF RegenAssign
  <2> QED BY <1>4, <2>1, <2>2, <2>3, <2>4, <2>5, <2>6, <2>7 DEF RegenStep
<1> QED BY <1>1, <1>2, <1>3, <1>4

\* The session invariant holds of every state.
LEMMA SessionInvHolds == Spec => [](TypeInv /\ SessionInv)
<1>1. Init => SessionInv
  BY DEF Init, SessionInv, DownInv, StaleInv, WholeInv, InFlight, Writing, NoSession, Calls
<1>2. TypeInv /\ SessionInv /\ [Next]_vars => SessionInv'
  <2> SUFFICES ASSUME TypeInv, SessionInv, [Next]_vars PROVE SessionInv'
    OBVIOUS
  <2>1. CASE UNCHANGED vars
    BY <2>1 DEF vars, SessionInv, DownInv, StaleInv, WholeInv, InFlight, Writing
  <2> QED BY <2>1, StepCases, RestartsKeepSession, StoresKeepSession, CallsKeepSession
<1> QED BY <1>1, <1>2, TypeCorrect, PTL DEF Spec

\* Between calls, the fields of a session come from one answer, unless two
\* calls were assigning them at the same time.
THEOREM SessionsAreWhole == Spec => []SessionIsWhole
<1>1. TypeInv /\ SessionInv => SessionIsWhole
  <2> SUFFICES ASSUME TypeInv, SessionInv, Quiet, overlap.writers = {}, session.token # None,
                      \A c \in Auths : ~Writing(c)
               PROVE  session.surface = session.token /\ session.expiry = session.token
    BY DEF SessionIsWhole
  <2>1. \A c \in Calls : ~Writing(c)
    BY DEF Quiet, Writing, InFlight
  <2> QED BY <2>1 DEF SessionInv, WholeInv
<1> QED BY <1>1, SessionInvHolds, PTL

\* A session of an earlier DID was established by a call that a regenerate
\* overtook: no other order of calls, crashes and restarts leaves one.
THEOREM StaleSessionsWereOvertaken == Spec => []StaleSessionNeedsOverlap
<1>1. TypeInv /\ SessionInv => StaleSessionNeedsOverlap
  BY DEF SessionInv, StaleInv, StaleSessionNeedsOverlap, Quiet, InFlight, TypeInv, Calls
<1> QED BY <1>1, SessionInvHolds, PTL

-----------------------------------------------------------------------------
\* Steps that touch neither the key file nor the place of a regenerate.
LEMMA OthersKeepFile ==
  ASSUME FileInv, UNCHANGED <<server, keyFile, identity, callDid>>,
         overlap'.pair = overlap.pair, \A c \in Regens : pc'[c] = pc[c]
  PROVE  FileInv'
BY DEF FileInv, InFlight

\* Each step of a regenerate leaves the key file as the next one expects it.
LEMMA RegensKeepFile ==
  ASSUME TypeInv, FileInv, NEW c \in Regens, RegenStep(c)
  PROVE  FileInv'
<1> USE DEF TypeInv, TypeOK, HandInv, FileInv, InFlight, Goto, Calls, NoFile, TornFile,
            idVars, runVars
<1>1. CASE RegenBegin(c)
  <2>1. /\ overlap'.pair = {} => overlap.pair = {} /\ \A d \in Regens \ {c} : ~InFlight(d)
        /\ UNCHANGED <<server, keyFile, identity, callDid>>
        /\ pc[c] = "idle" /\ server = "up"
        /\ pc' = [pc EXCEPT ![c] = IF keyFile # NoFile THEN "unlinking" ELSE "loading"]
    BY <1>1 DEF RegenBegin
  <2> QED BY <2>1
<1>2. CASE RegenUnlink(c) BY <1>2 DEF RegenUnlink
<1>3. CASE RegenLoad(c) BY <1>3 DEF RegenLoad
<1>4. CASE RegenGenerate(c) BY <1>4 DEF RegenGenerate
<1>5. CASE RegenOpen(c) BY <1>5 DEF RegenOpen
<1>6. CASE RegenWrite(c) BY <1>6 DEF RegenWrite
<1>7. CASE RegenAssign(c) BY <1>7 DEF RegenAssign
<1> QED BY <1>1, <1>2, <1>3, <1>4, <1>5, <1>6, <1>7 DEF RegenStep

\* The key file is that of the identity in force outside of a regenerate.
THEOREM IdentityPersists == Spec => []IdentityIsPersisted
<1>1. Init => FileInv
  BY DEF Init, FileInv, InFlight, Calls
<1>2. TypeInv /\ SessionInv /\ FileInv /\ [Next]_vars => FileInv'
  <2> SUFFICES ASSUME TypeInv, SessionInv, FileInv, [Next]_vars PROVE FileInv'
    OBVIOUS
  <2> USE DEF TypeInv, TypeOK, Goto, Calls, idVars, runVars
  <2>1. ASSUME NEW c \in Auths, AuthStep(c) PROVE FileInv'
    <3>1. CASE AuthPost(c)
      BY <3>1 DEF AuthPost, FileInv, InFlight
    <3>2. CASE AuthGranted(c) BY <3>2, OthersKeepFile DEF AuthGranted
    <3>3. CASE AuthFails(c) BY <3>3, OthersKeepFile DEF AuthFails
    <3> QED BY <2>1, <3>1, <3>2, <3>3 DEF AuthStep
  <2>2. ASSUME NEW c \in Sends, SendStep(c) PROVE FileInv'
    BY <2>2, OthersKeepFile DEF SendStep, SendPost, SendAnswered
  <2>3. ASSUME NEW c \in Logouts, LogoutBegin(c) PROVE FileInv'
    BY <2>3, OthersKeepFile DEF LogoutBegin
  <2>4. ASSUME NEW c \in Regens, RegenStep(c) PROVE FileInv'
    BY <2>4, RegensKeepFile
  <2>5. ASSUME NEW c \in Writers, StoreStep(c) PROVE FileInv'
    <3>1. /\ UNCHANGED <<server, keyFile, identity, callDid>>
          /\ overlap'.pair = overlap.pair
          /\ \E to \in {"token", "expiry", "over"} : pc' = [pc EXCEPT ![c] = to]
          /\ pc[c] \in {"surface", "token", "expiry"}
      BY <2>5 DEF StoreStep, StoreSurface, StoreToken, StoreExpiry
    <3> QED BY <3>1 DEF FileInv, InFlight, Writers
  <2>6. CASE Crash
    BY <2>6 DEF Crash, FileInv
  <2>7. CASE Restart
    BY <2>7 DEF Restart, FileInv, SessionInv, DownInv, InFlight
  <2>8. CASE UNCHANGED vars
    BY <2>8, OthersKeepFile DEF vars
  <2> QED BY <2>1, <2>2, <2>3, <2>4, <2>5, <2>6, <2>7, <2>8, StepCases
<1>3. FileInv => IdentityIsPersisted
  BY DEF FileInv, IdentityIsPersisted, InFlight
<1> QED BY <1>1, <1>2, <1>3, SessionInvHolds, PTL DEF Spec
=============================================================================
