------------------------------ MODULE OboChain ------------------------------
(***************************************************************************)
(* The OBO lab: the portal's page asks the orchestrator agent, which       *)
(* trades the user's token for one of its own at Entra and asks the        *)
(* advisory agent with it.  Each agent keeps the last MaxTrace events in a *)
(* buffer, numbered from 1 at each start.  The page reads both buffers     *)
(* before and after its request, through the portal, and draws the events  *)
(* that are new.  Nothing keeps the user from sending again meanwhile.     *)
(* A request whose caller gives up goes on: no hop cancels the next one.   *)
(***************************************************************************)
EXTENDS Naturals, Sequences

CONSTANTS
  Chats,        \* sends of one page
  MaxTrace,     \* the maxlen of _TRACE, 200 in the code
  MaxFaults,    \* bound on restarts, session changes and failed requests of the page
  None

ASSUME TraceAssumption == MaxTrace \in Nat \ {0}
ASSUME FaultsAssumption == MaxFaults \in Nat
ASSUME NoneAssumption == None \notin Chats

Agents == {"orchestrator", "advisory"}

VARIABLES
  signedIn,  \* the browser's cookie names a session that has not expired
  page,      \* each send: where it is, the numbers it snapshot, its token, its answer
  orch,      \* the orchestrator's part of each chat
  adv,       \* the advisory agent's part
  trace,     \* _TRACE of each agent
  next,      \* _SEQ of each agent
  faults,    \* those of MaxFaults so far
  drawn,     \* what the page drew of each agent when it last read its buffer
  disturbed  \* history: another request, a restart or a failed look came between
             \* the two looks of a send at an agent's buffer

vars == <<signedIn, page, orch, adv, trace, next, faults, drawn, disturbed>>

Places == {"idle", "snapAdv", "ask", "wait", "readOrch", "readAdv", "shown", "stuck"}
Answers == {"none", "advice", "refused", "error"}
Kinds == {"accepted", "rejected", "user_token", "obo_exchange", "obo_failed", "advisory_call"}
OrchPlaces == {"none", "sent", "exchange", "call", "advice", "refused", "failed", "raised", "callRaised", "lost"}
AdvPlaces == {"none", "sent", "advised", "rejected", "refused", "lost"}

Send == [at : Places, before : [Agents -> Nat], token : BOOLEAN, answer : Answers]
Event == [seq : Nat, chat : Chats, kind : Kinds]

TypeOK ==
  /\ signedIn \in BOOLEAN
  /\ page \in [Chats -> Send]
  /\ orch \in [Chats -> OrchPlaces]
  /\ adv \in [Chats -> AdvPlaces]
  /\ trace \in [Agents -> Seq(Event)]
  /\ next \in [Agents -> Nat]
  /\ faults \in 0 .. MaxFaults
  /\ drawn \in [Agents -> SUBSET (Chats \X Kinds)]
  /\ disturbed \in [Chats -> [Agents -> BOOLEAN]]

Nothing == [a \in Agents |-> 0]

Init ==
  /\ signedIn \in BOOLEAN
  /\ page = [c \in Chats |-> [at |-> "idle", before |-> Nothing, token |-> FALSE, answer |-> "none"]]
  /\ orch = [c \in Chats |-> "none"] /\ adv = [c \in Chats |-> "none"]
  /\ trace = [a \in Agents |-> <<>>] /\ next = [a \in Agents |-> 1]
  /\ faults = 0
  /\ drawn = [a \in Agents |-> {}]
  /\ disturbed = [c \in Chats |-> [a \in Agents |-> FALSE]]

-----------------------------------------------------------------------------
\* The trace buffers

\* c has read, or missed, the first of its two looks at a, and not had the second.
Between(c, a) ==
  page[c].at \in {"ask", "wait", "readOrch"}
    \cup (IF a = "orchestrator" THEN {"snapAdv"} ELSE {"readAdv"})

Disturb(chats, a) ==
  disturbed' = [c \in Chats |-> IF c \in chats /\ Between(c, a)
                                THEN [disturbed[c] EXCEPT ![a] = TRUE] ELSE disturbed[c]]

\* Appends to a bounded deque drop from its front.
Capped(events) ==
  IF Len(events) > MaxTrace THEN SubSeq(events, Len(events) - MaxTrace + 1, Len(events)) ELSE events

\* record, while a handles chat c.  The events that no page draws are left out.
Record(a, c, kind) ==
  /\ trace' = [trace EXCEPT ![a] = Capped(Append(@, [seq |-> next[a], chat |-> c, kind |-> kind]))]
  /\ next' = [next EXCEPT ![a] = @ + 1]
  /\ Disturb(Chats \ {c}, a)

NewestSeq(a) == IF trace[a] = <<>> THEN 0 ELSE trace[a][Len(trace[a])].seq

\* What render draws of some events of a: the last one of a kind, where an
\* exchange that succeeded goes before one that failed.  An event is named by
\* its position in the buffer.
Latest(a, fresh, kinds) ==
  LET found == {i \in fresh : trace[a][i].kind \in kinds}
  IN  {<<trace[a][i].chat, trace[a][i].kind>> : i \in {i \in found : \A j \in found : j <= i}}

Drawn(a, fresh) ==
  IF a = "advisory" THEN Latest(a, fresh, {"accepted", "rejected"})
  ELSE Latest(a, fresh, {"user_token"}) \cup Latest(a, fresh, {"advisory_call"})
         \cup (IF Latest(a, fresh, {"obo_exchange"}) # {} THEN Latest(a, fresh, {"obo_exchange"})
               ELSE Latest(a, fresh, {"obo_failed"}))

\* Faulty variant: the filter keeps the event the snapshot ended with.
FreshFromSnapshot(c, a) == {i \in 1 .. Len(trace[a]) : trace[a][i].seq >= page[c].before[a]}

\* The events after the snapshot.
Fresh(c, a) == {i \in 1 .. Len(trace[a]) : trace[a][i].seq > page[c].before[a]}

-----------------------------------------------------------------------------
\* The page and the portal

Fault == faults < MaxFaults /\ faults' = faults + 1

Goes(c, place) == page' = [page EXCEPT ![c].at = place]

\* send is over, and its variables are gone.
Ends(c, place) ==
  /\ page' = [page EXCEPT ![c].at = place, ![c].before = Nothing]
  /\ disturbed' = [disturbed EXCEPT ![c] = [a \in Agents |-> FALSE]]

\* send starts, perhaps while others are under way: the button stays enabled.
\* The portal looks at the session first, and answers 401 without one: the
\* page then takes both buffers for empty.
SnapshotRefused(c) ==
  /\ page[c].at = "idle" /\ ~signedIn
  /\ Goes(c, "ask")
  /\ disturbed' = [disturbed EXCEPT ![c] = [a \in Agents |-> TRUE]]
  /\ UNCHANGED <<signedIn, orch, adv, trace, next, faults, drawn>>

\* With one, it asks the agents in turn, 5 s each, and takes a failure for [].
Snapshot(c, a, there) ==
  /\ \/ /\ page' = [page EXCEPT ![c].at = there, ![c].before[a] = NewestSeq(a)]
        /\ UNCHANGED <<faults, disturbed>>
     \/ /\ Fault
        /\ Goes(c, there)
        /\ disturbed' = [disturbed EXCEPT ![c][a] = TRUE]
  /\ UNCHANGED <<signedIn, orch, adv, trace, next, drawn>>

SnapshotOrchestrator(c) == page[c].at = "idle" /\ signedIn /\ Snapshot(c, "orchestrator", "snapAdv")
SnapshotAdvisory(c) == page[c].at = "snapAdv" /\ Snapshot(c, "advisory", "ask")

\* The page's request for the snapshot fails: it goes on without any.
SnapshotLost(c) ==
  /\ page[c].at \in {"idle", "snapAdv"}
  /\ Fault
  /\ page' = [page EXCEPT ![c].at = "ask", ![c].before = Nothing]
  /\ disturbed' = [disturbed EXCEPT ![c] = [a \in Agents |-> TRUE]]
  /\ UNCHANGED <<signedIn, orch, adv, trace, next, drawn>>

\* chat: the portal adds the user's token where there is a session, and asks
\* the orchestrator either way.
Ask(c) ==
  /\ page[c].at = "ask"
  /\ page' = [page EXCEPT ![c].at = "wait", ![c].token = signedIn]
  /\ orch' = [orch EXCEPT ![c] = "sent"]
  /\ UNCHANGED <<signedIn, adv, trace, next, faults, drawn, disturbed>>

Shows(c, answer) ==
  /\ page' = [page EXCEPT ![c].at = "readOrch", ![c].answer = answer]
  /\ UNCHANGED <<signedIn, adv, trace, next, faults, drawn, disturbed>>

AnswerArrives(c) ==
  /\ page[c].at = "wait" /\ orch[c] \notin {"none", "sent", "exchange", "call", "lost"}
  /\ Shows(c, IF orch[c] \in {"advice", "refused"} THEN orch[c] ELSE "error")
  /\ UNCHANGED orch

\* 502: no connection, or 60 s without an answer; the request may have arrived.
PortalGivesUp(c) ==
  /\ page[c].at = "wait"
  /\ Shows(c, "error")
  /\ orch' \in {orch} \cup (IF orch[c] = "sent" THEN {[orch EXCEPT ![c] = "lost"]} ELSE {})

\* A request of the page fails after the snapshot: send ends by an exception,
\* and what was sent goes on without it.
PageLosesPortal(c) ==
  /\ page[c].at \in {"ask", "wait", "readOrch", "readAdv"}
  /\ Fault
  /\ Ends(c, "stuck")
  /\ UNCHANGED <<signedIn, orch, adv, trace, next, drawn>>

\* The second look, by the same rules.
ReadRefused(c) ==
  /\ page[c].at = "readOrch" /\ ~signedIn
  /\ Ends(c, "shown")
  /\ drawn' = [a \in Agents |-> {}]
  /\ UNCHANGED <<signedIn, orch, adv, trace, next, faults>>

Read(c, a) ==
  /\ \/ /\ drawn' = [drawn EXCEPT ![a] = Drawn(a, Fresh(c, a))]
        /\ UNCHANGED faults
     \/ /\ Fault
        /\ drawn' = [drawn EXCEPT ![a] = {}]
  /\ UNCHANGED <<signedIn, orch, adv, trace, next>>

ReadOrchestrator(c) ==
  /\ page[c].at = "readOrch" /\ signedIn
  /\ Read(c, "orchestrator")
  /\ Goes(c, "readAdv")
  /\ UNCHANGED disturbed

\* The portal's answer arrives, and the page draws the steps.
ReadAdvisory(c) ==
  /\ page[c].at = "readAdv"
  /\ Read(c, "advisory")
  /\ Ends(c, "shown")

\* The session expires, or another tab signs out or in.
SessionChanges ==
  /\ Fault
  /\ signedIn' = ~signedIn
  /\ UNCHANGED <<page, orch, adv, trace, next, drawn, disturbed>>

-----------------------------------------------------------------------------
\* The orchestrator

\* The middleware accepts whatever comes, token or not; execute records it.
OrchestratorStarts(c) ==
  /\ orch[c] = "sent"
  /\ orch' = [orch EXCEPT ![c] = "exchange"]
  /\ Record("orchestrator", c, "user_token")
  /\ UNCHANGED <<signedIn, page, adv, faults, drawn>>

\* Entra grants a token for the advisory agent, and the agent is asked.
ExchangeGranted(c) ==
  /\ orch[c] = "exchange" /\ page[c].token
  /\ orch' = [orch EXCEPT ![c] = "call"]
  /\ adv' = [adv EXCEPT ![c] = "sent"]
  /\ Record("orchestrator", c, "obo_exchange")
  /\ UNCHANGED <<signedIn, page, faults, drawn>>

ExchangeRefused(c) ==
  /\ orch[c] = "exchange"
  /\ orch' = [orch EXCEPT ![c] = "failed"]
  /\ Record("orchestrator", c, "obo_failed")
  /\ UNCHANGED <<signedIn, page, adv, faults, drawn>>

\* No connection, no answer, or one without a token: the exception's text is
\* the completed answer, and no event tells of it.
ExchangeRaises(c) ==
  /\ orch[c] = "exchange"
  /\ orch' = [orch EXCEPT ![c] = "raised"]
  /\ UNCHANGED <<signedIn, page, adv, trace, next, faults, drawn, disturbed>>

\* Faulty variant: the status of the advisory agent's answer is not looked at.
CallIsAdvice(c) ==
  /\ orch[c] = "call" /\ adv[c] \in {"advised", "rejected", "refused"}
  /\ orch' = [orch EXCEPT ![c] = "advice"]
  /\ Record("orchestrator", c, "advisory_call")
  /\ UNCHANGED <<signedIn, page, adv, faults, drawn>>

CallReturns(c) ==
  /\ orch[c] = "call" /\ adv[c] \in {"advised", "rejected", "refused"}
  /\ orch' = [orch EXCEPT ![c] = IF adv[c] = "advised" THEN "advice" ELSE "refused"]
  /\ Record("orchestrator", c, "advisory_call")
  /\ UNCHANGED <<signedIn, page, adv, faults, drawn>>

\* After 30 s, or without a connection: the request may still arrive.
CallRaises(c) ==
  /\ orch[c] = "call"
  /\ orch' = [orch EXCEPT ![c] = "callRaised"]
  /\ adv' \in {adv} \cup (IF adv[c] = "sent" THEN {[adv EXCEPT ![c] = "lost"]} ELSE {})
  /\ UNCHANGED <<signedIn, page, trace, next, faults, drawn, disturbed>>

-----------------------------------------------------------------------------
\* The advisory agent

AdvisoryAnswers(c) ==
  /\ adv[c] = "sent"
  /\ adv' = [adv EXCEPT ![c] = "advised"]
  /\ Record("advisory", c, "accepted")
  /\ UNCHANGED <<signedIn, page, orch, faults, drawn>>

\* 401: the scope is missing, or the token cannot be decoded.
AdvisoryRejects(c) ==
  /\ adv[c] = "sent"
  /\ adv' = [adv EXCEPT ![c] = "rejected"]
  /\ Record("advisory", c, "rejected")
  /\ UNCHANGED <<signedIn, page, orch, faults, drawn>>

\* The gateway before it refuses, and the agent never hears of the request.
GatewayRefuses(c) ==
  /\ adv[c] = "sent"
  /\ adv' = [adv EXCEPT ![c] = "refused"]
  /\ UNCHANGED <<signedIn, page, orch, trace, next, faults, drawn, disturbed>>

\* A restart empties the buffer, numbers from 1 again and ends what is under way.
Restart(a) ==
  /\ Fault
  /\ trace' = [trace EXCEPT ![a] = <<>>] /\ next' = [next EXCEPT ![a] = 1]
  /\ Disturb(Chats, a)
  /\ orch' = IF a = "advisory" THEN orch
             ELSE [c \in Chats |-> IF orch[c] \in {"sent", "exchange", "call"} THEN "lost" ELSE orch[c]]
  /\ adv' = IF a = "orchestrator" THEN adv
            ELSE [c \in Chats |-> IF adv[c] = "sent" THEN "lost" ELSE adv[c]]
  /\ UNCHANGED <<signedIn, page, drawn>>

-----------------------------------------------------------------------------

PageNext(c) ==
  \/ SnapshotRefused(c) \/ SnapshotOrchestrator(c) \/ SnapshotAdvisory(c)
  \/ SnapshotLost(c) \/ Ask(c) \/ AnswerArrives(c) \/ PortalGivesUp(c)
  \/ PageLosesPortal(c) \/ ReadRefused(c) \/ ReadOrchestrator(c) \/ ReadAdvisory(c)

AgentsNext(c) ==
  \/ OrchestratorStarts(c) \/ ExchangeGranted(c) \/ ExchangeRefused(c) \/ ExchangeRaises(c)
  \/ CallReturns(c) \/ CallRaises(c)
  \/ AdvisoryAnswers(c) \/ AdvisoryRejects(c) \/ GatewayRefuses(c)

Next ==
  \/ \E c \in Chats : PageNext(c) \/ AgentsNext(c)
  \/ SessionChanges
  \/ \E a \in Agents : Restart(a)

Spec == Init /\ [][Next]_vars

-----------------------------------------------------------------------------
\* Properties

\* The kinds of events of c that a has recorded and a page can draw.
Made(c, a) ==
  IF a = "advisory" THEN CASE adv[c] = "advised" -> {"accepted"}
                           [] adv[c] = "rejected" -> {"rejected"}
                           [] OTHER -> {}
  ELSE CASE orch[c] \in {"exchange", "raised"} -> {"user_token"}
         [] orch[c] = "failed" -> {"user_token", "obo_failed"}
         [] orch[c] \in {"call", "callRaised"} -> {"user_token", "obo_exchange"}
         [] orch[c] \in {"advice", "refused"} -> {"user_token", "obo_exchange", "advisory_call"}
         [] OTHER -> {}

\* "Show only events produced by this request": of each agent a send draws its
\* own steps, all that were recorded by then and no others, unless between its
\* two looks at the buffer another request wrote there or the agent restarted,
\* or the first look failed.  (When the second fails it draws none.)
ShownIsTheChain ==
  [][\A c \in Chats :
       /\ ReadOrchestrator(c) /\ faults' = faults /\ ~disturbed[c]["orchestrator"] =>
            drawn'["orchestrator"] = {c} \X Made(c, "orchestrator")
       /\ ReadAdvisory(c) /\ faults' = faults /\ ~disturbed[c]["advisory"] =>
            drawn'["advisory"] = {c} \X Made(c, "advisory")]_vars

\* The chain gives each question its advice at most once, for a user's token,
\* and reports advice only when it was given; only a question whose answer was
\* an error may be advised on after its answer.
Stage(c) ==
  IF adv[c] = "advised" THEN "advised" ELSE IF adv[c] # "none" THEN "granted"
  ELSE IF orch[c] # "none" THEN "asked" ELSE "new"

Request == INSTANCE DelegatedRequest WITH
  stage <- [c \in Chats |-> Stage(c)],
  token <- [c \in Chats |-> page[c].token],
  answer <- [c \in Chats |-> page[c].answer]

ImplementsRequest == Request!Spec
=============================================================================
