---------------------------- MODULE DidAuthPortal ----------------------------
(***************************************************************************)
(* The backend of the DID-Auth portal (a2a-did-auth/portal/server.py and   *)
(* identity.py).  Its endpoints are synchronous, so each call runs in a    *)
(* thread of its own; all calls share one caller identity, the key file it *)
(* is persisted in, and one session whose fields are assigned one by one.  *)
(* The gateway that issues session tokens is external.                     *)
(*                                                                         *)
(* A DID is the number of the key pair it was derived from.  A field of    *)
(* the session holds the authenticate call whose answer it came from.      *)
(***************************************************************************)
EXTENDS Integers

CONSTANTS
  Auths,         \* calls of /api/flow/authenticate
  Sends,         \* calls of /api/flow/send with use_session
  Regens,        \* calls of /api/identity/regenerate
  Logouts,       \* calls of /api/logout
  None,          \* Python's None
  MaxCrashes     \* bound: times the server is killed

Calls == Auths \cup Sends \cup Regens \cup Logouts

ASSUME CallsAssumption ==
  /\ Auths \cap Sends = {} /\ Auths \cap Regens = {} /\ Auths \cap Logouts = {}
  /\ Sends \cap Regens = {} /\ Sends \cap Logouts = {} /\ Regens \cap Logouts = {}
ASSUME NoneAssumption == None \notin Calls
ASSUME CrashesAssumption == MaxCrashes \in Nat

\* The key file when it is not a DID: it does not exist, or it has been
\* opened for writing (which empties it) and not yet been written.
NoFile   == 0
TornFile == -1

VARIABLES
  server,        \* "up", "down", or "stuck" when it cannot start
  identity,      \* the global identity
  keyFile,       \* caller_identity.json
  minted,        \* key pairs generated so far
  session,       \* surface, token and expiry (expires_at, expires_in)
  pc,            \* where the thread of each call is
  callDid,       \* the DID a call has read or made
  crashes,
  overlap        \* history: authenticates in flight when a regenerate changed
                 \* the identity (regens), calls that began to assign session
                 \* fields while another did (writers), regenerates that began
                 \* during another since the server started (pair)

vars == <<server, identity, keyFile, minted, session, pc, callDid, crashes, overlap>>

-----------------------------------------------------------------------------
Locs == {"idle", "posted", "unlinking", "loading", "opening", "writing", "assigning",
         "surface", "token", "expiry", "over"}

\* A call between its first and its last assignment to the session.
Writing(c)  == pc[c] \in {"token", "expiry"}
InFlight(c) == pc[c] \notin {"idle", "over"}

TypeOK ==
  /\ server \in {"up", "down", "stuck"}
  /\ identity \in Nat \ {0} /\ minted \in Nat
  /\ keyFile \in {NoFile, TornFile} \cup (1 .. minted)
  /\ session \in [surface : Auths \cup {None}, token : Auths \cup {None},
                  expiry : Auths \cup {None}]
  /\ pc \in [Calls -> Locs]
  /\ callDid \in [Calls -> Nat]
  /\ crashes \in 0 .. MaxCrashes
  /\ overlap \in [regens : SUBSET Auths, writers : SUBSET Calls, pair : SUBSET Regens]

NoSession == [surface |-> None, token |-> None, expiry |-> None]

\* The server has started for the first time and created an identity.
Init ==
  /\ server = "up"
  /\ identity = 1 /\ keyFile = 1 /\ minted = 1
  /\ session = NoSession
  /\ pc = [c \in Calls |-> "idle"]
  /\ callDid = [c \in Calls |-> 0]
  /\ crashes = 0
  /\ overlap = [regens |-> {}, writers |-> {}, pair |-> {}]

Goto(c, from, to) ==
  /\ server = "up"
  /\ pc[c] = from
  /\ pc' = [pc EXCEPT ![c] = to]

idVars == <<identity, keyFile, minted>>
runVars == <<server, crashes>>

-----------------------------------------------------------------------------
\* Assignments to the session: surface_url, session_token, expires_at/_in,
\* by a call that stores its answer or, with None, clears the session.

Value(c) == IF c \in Auths THEN c ELSE None

StoreSurface(c) ==
  /\ Goto(c, "surface", "token")
  /\ session' = [session EXCEPT !.surface = Value(c)]
  /\ overlap' = [overlap EXCEPT !.writers = IF \E d \in Calls \ {c} : Writing(d) THEN @ \cup {c} ELSE @]
  /\ UNCHANGED <<idVars, callDid, runVars>>

\* Faulty variant: clearing forgets the token.
StoreTokenKeepsOld(c) ==
  /\ Goto(c, "token", "expiry")
  /\ session' = [session EXCEPT !.token = IF c \in Auths THEN c ELSE @]
  /\ UNCHANGED <<idVars, callDid, runVars, overlap>>

StoreToken(c) ==
  /\ Goto(c, "token", "expiry")
  /\ session' = [session EXCEPT !.token = Value(c)]
  /\ UNCHANGED <<idVars, callDid, runVars, overlap>>

\* Faulty variant: the expiry of an earlier session stays.
StoreExpirySkipped(c) ==
  /\ Goto(c, "expiry", "over")
  /\ UNCHANGED <<session, idVars, callDid, runVars, overlap>>

StoreExpiry(c) ==
  /\ Goto(c, "expiry", "over")
  /\ session' = [session EXCEPT !.expiry = Value(c)]
  /\ UNCHANGED <<idVars, callDid, runVars, overlap>>

StoreStep(c) == StoreSurface(c) \/ StoreToken(c) \/ StoreExpiry(c)

-----------------------------------------------------------------------------
\* /api/flow/authenticate: read the identity and post the signed challenge.
AuthPost(c) ==
  /\ Goto(c, "idle", "posted")
  /\ callDid' = [callDid EXCEPT ![c] = identity]
  /\ UNCHANGED <<idVars, session, runVars, overlap>>

\* The gateway answers 200 with a session for the DID that was posted ...
AuthGranted(c) ==
  /\ Goto(c, "posted", "surface")
  /\ UNCHANGED <<idVars, session, callDid, runVars, overlap>>

\* ... or anything else, or nothing: the session is left as it is.
AuthFails(c) ==
  /\ Goto(c, "posted", "over")
  /\ UNCHANGED <<idVars, session, callDid, runVars, overlap>>

-----------------------------------------------------------------------------
\* /api/flow/send: the token goes into the request, if there is one.
SendPost(c) ==
  /\ Goto(c, "idle", "posted")
  /\ UNCHANGED <<idVars, session, callDid, runVars, overlap>>

\* The gateway answers: after a 401 the session's token, whichever it is by
\* now, is dropped.
SendAnswered(c) ==
  /\ Goto(c, "posted", "over")
  /\ \E token \in {session.token, None} : session' = [session EXCEPT !.token = token]
  /\ UNCHANGED <<idVars, callDid, runVars, overlap>>

\* /api/logout clears the session field by field.
LogoutBegin(c) ==
  /\ Goto(c, "idle", "surface")
  /\ UNCHANGED <<idVars, session, callDid, runVars, overlap>>

-----------------------------------------------------------------------------
\* /api/identity/regenerate

\* The key file exists ...
RegenBegin(c) ==
  /\ Goto(c, "idle", IF keyFile # NoFile THEN "unlinking" ELSE "loading")
  /\ overlap' = [overlap EXCEPT !.pair = IF \E d \in Regens \ {c} : InFlight(d) THEN @ \cup {c} ELSE @]
  /\ UNCHANGED <<idVars, session, callDid, runVars>>

\* ... and is removed; if another call has removed it meanwhile, unlink raises.
RegenUnlink(c) ==
  /\ Goto(c, "unlinking", IF keyFile # NoFile THEN "loading" ELSE "over")
  /\ keyFile' = NoFile
  /\ UNCHANGED <<identity, minted, session, callDid, runVars, overlap>>

\* load_or_create finds a file again: it loads the key, or raises on a torn one.
RegenLoad(c) ==
  /\ keyFile # NoFile
  /\ Goto(c, "loading", IF keyFile = TornFile THEN "over" ELSE "assigning")
  /\ callDid' = [callDid EXCEPT ![c] = IF keyFile = TornFile THEN @ ELSE keyFile]
  /\ UNCHANGED <<idVars, session, runVars, overlap>>

\* load_or_create finds none and generates a key pair ...
RegenGenerate(c) ==
  /\ keyFile = NoFile
  /\ Goto(c, "loading", "opening")
  /\ minted' = minted + 1
  /\ callDid' = [callDid EXCEPT ![c] = minted + 1]
  /\ UNCHANGED <<identity, keyFile, session, runVars, overlap>>

\* ... write_text opens, and so empties, the file ...
RegenOpen(c) ==
  /\ Goto(c, "opening", "writing")
  /\ keyFile' = TornFile
  /\ UNCHANGED <<identity, minted, session, callDid, runVars, overlap>>

\* Faulty variant: the new key is not written.
RegenWriteSkipped(c) ==
  /\ Goto(c, "writing", "assigning")
  /\ keyFile' = identity
  /\ UNCHANGED <<identity, minted, session, callDid, runVars, overlap>>

\* ... and writes it.
RegenWrite(c) ==
  /\ Goto(c, "writing", "assigning")
  /\ keyFile' = callDid[c]
  /\ UNCHANGED <<identity, minted, session, callDid, runVars, overlap>>

\* The new identity is in force; then the session is cleared.
RegenAssign(c) ==
  /\ Goto(c, "assigning", "surface")
  /\ identity' = callDid[c]
  /\ overlap' = [overlap EXCEPT !.regens = @ \cup {d \in Auths : InFlight(d)}]
  /\ UNCHANGED <<keyFile, minted, session, callDid, runVars>>

RegenStep(c) ==
  \/ RegenBegin(c) \/ RegenUnlink(c) \/ RegenLoad(c) \/ RegenGenerate(c)
  \/ RegenOpen(c) \/ RegenWrite(c) \/ RegenAssign(c)

-----------------------------------------------------------------------------
\* The process is killed: its calls and its memory are gone.
Crash ==
  /\ server = "up" /\ crashes < MaxCrashes
  /\ crashes' = crashes + 1
  /\ server' = "down"
  /\ pc' = [c \in Calls |-> IF pc[c] = "idle" THEN "idle" ELSE "over"]
  /\ session' = NoSession
  /\ UNCHANGED <<idVars, callDid, overlap>>

\* load_or_create at start-up, before any call is served.
Restart ==
  /\ server = "down"
  /\ \/ /\ keyFile > 0
        /\ server' = "up" /\ identity' = keyFile
        /\ UNCHANGED <<keyFile, minted>>
     \/ /\ keyFile = NoFile
        /\ server' = "up" /\ minted' = minted + 1
        /\ identity' = minted' /\ keyFile' = minted'
     \/ /\ keyFile = TornFile
        /\ server' = "stuck"
        /\ UNCHANGED idVars
  /\ overlap' = [overlap EXCEPT !.pair = {}]
  /\ UNCHANGED <<session, pc, callDid, crashes>>

Next ==
  \/ \E c \in Auths : AuthPost(c) \/ AuthGranted(c) \/ AuthFails(c)
  \/ \E c \in Sends : SendPost(c) \/ SendAnswered(c)
  \/ \E c \in Logouts : LogoutBegin(c)
  \/ \E c \in Regens : RegenStep(c)
  \/ \E c \in Auths \cup Logouts \cup Regens : StoreStep(c)
  \/ Crash \/ Restart

Spec == Init /\ [][Next]_vars

-----------------------------------------------------------------------------
\* Properties

Quiet == server = "up" /\ \A c \in Calls \ Auths : ~InFlight(c)

\* Between calls the session shown is that of one answer, token, surface and
\* expiry alike, unless two calls were assigning its fields at the same time.
SessionIsWhole ==
  (Quiet /\ overlap.writers = {} /\ session.token # None /\ \A c \in Auths : ~Writing(c)) =>
     session.surface = session.token /\ session.expiry = session.token

\* A session of an earlier DID survives a regenerate only if the call that
\* established it was in flight when the new identity came into force.
StaleSessionNeedsOverlap ==
  (Quiet /\ session.token # None /\ callDid[session.token] # identity) =>
     session.token \in overlap.regens

\* Outside of a regenerate the identity in memory is the one in the file, so
\* that a restart keeps the DID, unless two regenerates have run at once.
IdentityIsPersisted ==
  (server = "up" /\ overlap.pair = {} /\ \A c \in Regens : ~InFlight(c)) => keyFile = identity

=============================================================================
