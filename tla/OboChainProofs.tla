--------------------------- MODULE OboChainProofs ---------------------------
(***************************************************************************)
(* Proofs about the OBO chain, for any number of sends, faults and sizes   *)
(* of the buffers: what is done in the user's name refines Delegated-      *)
(* Request, and what a send draws are its own steps.                       *)
(***************************************************************************)
EXTENDS OboChain, SequenceTheorems, TLAPS

USE TraceAssumption, FaultsAssumption

-----------------------------------------------------------------------------
\* The buffers

\* A buffer holds the last events of its agent since it started.
TailAt(a) ==
  /\ next[a] # 0 /\ Len(trace[a]) <= MaxTrace /\ Len(trace[a]) < next[a]
  /\ Len(trace[a]) = MaxTrace \/ Len(trace[a]) = next[a] - 1
  /\ \A i \in 1 .. Len(trace[a]) : trace[a][i].seq = next[a] - 1 - (Len(trace[a]) - i)

TailInv == \A a \in Agents : TailAt(a)

\* Without its first d elements, a sequence is shifted by d.
LEMMA Shifted ==
  ASSUME NEW s, NEW t, NEW d \in Nat, Len(s) \in Nat, Len(t) = Len(s) - d,
         \A i \in 1 .. Len(s) - d : t[i] = s[i + d]
  PROVE  \A i \in 1 .. Len(t) : i + d \in 1 .. Len(s) /\ t[i] = s[i + d]
<1> DEFINE m == Len(s)
<1>1. m \in Nat /\ Len(t) = m - d /\ \A i \in 1 .. m - d : t[i] = s[i + d]
  OBVIOUS
<1> SUFFICES \A i \in 1 .. m - d : i + d \in 1 .. m
  BY <1>1
<1> HIDE DEF m
<1> QED BY <1>1

\* A record is numbered next and is the last of the buffer; the others were
\* there before, in the same order.
LEMMA RecordEffect ==
  ASSUME TypeOK, TailInv, NEW a \in Agents, NEW c \in Chats, NEW kind \in Kinds, Record(a, c, kind)
  PROVE  /\ trace' \in [Agents -> Seq(Event)] /\ next' \in [Agents -> Nat]
         /\ next'[a] = next[a] + 1
         /\ \A b \in Agents \ {a} : trace'[b] = trace[b] /\ next'[b] = next[b]
         /\ \A i \in 1 .. Len(trace'[a]) :
              \/ trace'[a][i] = [seq |-> next[a], chat |-> c, kind |-> kind]
              \/ \E j \in 1 .. Len(trace[a]) : trace'[a][i] = trace[a][j]
         /\ TailInv'
<1> DEFINE event == [seq |-> next[a], chat |-> c, kind |-> kind]
           grown == Append(trace[a], event)
<1> USE DEF TypeOK
<1>1. event \in Event /\ event.seq = next[a]
  BY DEF Event
<1>2. /\ grown \in Seq(Event) /\ Len(grown) = Len(trace[a]) + 1
      /\ \A i \in 1 .. Len(trace[a]) : grown[i] = trace[a][i]
      /\ grown[Len(trace[a]) + 1] = event
  BY <1>1
<1>3. /\ trace' = [trace EXCEPT ![a] = Capped(grown)]
      /\ next' = [next EXCEPT ![a] = next[a] + 1]
  BY DEF Record
<1>4. \A i \in 1 .. Len(grown) : grown[i].seq = next[a] - (Len(grown) - i)
  <2> SUFFICES ASSUME NEW i \in 1 .. Len(grown) PROVE grown[i].seq = next[a] - (Len(grown) - i)
    OBVIOUS
  <2>1. CASE i \in 1 .. Len(trace[a])
    BY <1>2, <2>1 DEF TailInv, TailAt
  <2>2. CASE i = Len(trace[a]) + 1
    BY <1>1, <1>2, <2>2
  <2> QED BY <1>2, <2>1, <2>2
<1> HIDE DEF event, grown
<1>5. \E d \in Nat :
        /\ Capped(grown) \in Seq(Event) /\ Len(Capped(grown)) = Len(grown) - d
        /\ d = IF Len(grown) > MaxTrace THEN Len(grown) - MaxTrace ELSE 0
        /\ \A i \in 1 .. Len(grown) - d : Capped(grown)[i] = grown[i + d]
  <2>1. CASE Len(grown) > MaxTrace
    <3> DEFINE d == Len(grown) - MaxTrace
    <3>0. Capped(grown) = SubSeq(grown, Len(grown) - MaxTrace + 1, Len(grown))
      BY <2>1 DEF Capped
    <3>1. Capped(grown) = SubSeq(grown, d + 1, Len(grown)) /\ d \in Nat
      BY <1>2, <2>1, <3>0
    <3>2. \A i \in d + 1 .. Len(grown) : grown[i] \in Event
      BY <1>2, <3>1
    <3>3. /\ SubSeq(grown, d + 1, Len(grown)) \in Seq(Event)
          /\ Len(SubSeq(grown, d + 1, Len(grown))) = Len(grown) - d
          /\ \A i \in 1 .. Len(grown) - d : SubSeq(grown, d + 1, Len(grown))[i] = grown[i + d]
      BY <1>2, <2>1, <3>1, <3>2
    <3> QED BY <2>1, <3>1, <3>3
  <2>2. CASE ~(Len(grown) > MaxTrace)
    BY <1>2, <2>2 DEF Capped
  <2> QED BY <2>1, <2>2
<1>6. PICK d \in Nat :
        /\ Capped(grown) \in Seq(Event) /\ Len(Capped(grown)) = Len(grown) - d
        /\ d = IF Len(grown) > MaxTrace THEN Len(grown) - MaxTrace ELSE 0
        /\ \A i \in 1 .. Len(grown) - d : Capped(grown)[i] = grown[i + d]
  BY <1>5
<1>7. /\ trace'[a] = Capped(grown) /\ next'[a] = next[a] + 1
      /\ trace' \in [Agents -> Seq(Event)] /\ next' \in [Agents -> Nat]
      /\ \A b \in Agents \ {a} : trace'[b] = trace[b] /\ next'[b] = next[b]
  BY <1>3, <1>6
<1>8. \A i \in 1 .. Len(trace'[a]) : i + d \in 1 .. Len(grown) /\ trace'[a][i] = grown[i + d]
  <2>1. Len(grown) \in Nat
    BY <1>2
  <2> QED BY ONLY <2>1, <1>6, <1>7, Shifted
<1>9. \A i \in 1 .. Len(trace'[a]) :
        \/ trace'[a][i] = event
        \/ \E j \in 1 .. Len(trace[a]) : trace'[a][i] = trace[a][j]
  <2> SUFFICES ASSUME NEW i \in 1 .. Len(trace'[a])
               PROVE  \/ trace'[a][i] = event
                      \/ \E j \in 1 .. Len(trace[a]) : trace'[a][i] = trace[a][j]
    OBVIOUS
  <2>1. i + d \in 1 .. Len(grown) /\ trace'[a][i] = grown[i + d]
    BY <1>8
  <2>2. CASE i + d = Len(trace[a]) + 1
    BY <1>2, <2>1, <2>2
  <2>3. CASE i + d \in 1 .. Len(trace[a])
    <3>1. trace'[a][i] = trace[a][i + d]
      BY <1>2, <2>1, <2>3
    <3> QED BY <2>3, <3>1
  <2> QED BY <1>2, <2>1, <2>2, <2>3
<1>10. \A i \in 1 .. Len(trace'[a]) : trace'[a][i].seq = next'[a] - 1 - (Len(trace'[a]) - i)
  <2> SUFFICES ASSUME NEW i \in 1 .. Len(trace'[a])
               PROVE  trace'[a][i].seq = next'[a] - 1 - (Len(trace'[a]) - i)
    OBVIOUS
  <2>1. i + d \in 1 .. Len(grown) /\ trace'[a][i] = grown[i + d]
    BY <1>8
  <2>2. grown[i + d].seq = next[a] - (Len(grown) - (i + d))
    BY <1>4, <2>1
  <2>3. Len(trace'[a]) = Len(grown) - d /\ next'[a] = next[a] + 1 /\ next[a] \in Nat /\ Len(grown) \in Nat
    BY <1>2, <1>6, <1>7
  <2> QED BY <2>1, <2>2, <2>3
<1>11. /\ next'[a] # 0 /\ Len(trace'[a]) <= MaxTrace /\ Len(trace'[a]) < next'[a]
       /\ Len(trace'[a]) = MaxTrace \/ Len(trace'[a]) = next'[a] - 1
  BY <1>2, <1>6, <1>7 DEF TailInv, TailAt
<1>12. TailInv'
  <2>1. TailAt(a)'
    BY <1>10, <1>11 DEF TailAt
  <2>2. ASSUME NEW b \in Agents \ {a} PROVE TailAt(b)'
    <3>1. trace'[b] = trace[b] /\ next'[b] = next[b] /\ TailAt(b)
      BY <1>7 DEF TailInv
    <3> QED BY <3>1 DEF TailAt
  <2> QED BY <2>1, <2>2 DEF TailInv
<1> QED BY <1>7, <1>9, <1>12 DEF event

-----------------------------------------------------------------------------
\* Types

LEMMA DrawnType ==
  ASSUME TypeOK, NEW c \in Chats, NEW a \in Agents
  PROVE  Drawn(a, Fresh(c, a)) \in SUBSET (Chats \X Kinds)
<1>1. \A i \in Fresh(c, a) : trace[a][i] \in Event
  BY DEF TypeOK, Fresh
<1>2. \A kinds : Latest(a, Fresh(c, a), kinds) \in SUBSET (Chats \X Kinds)
  BY <1>1 DEF Latest, Event
<1> QED BY <1>2 DEF Drawn

LEMMA NothingType == Nothing \in [Agents -> Nat]
BY DEF Nothing

LEMMA NewestType == ASSUME TypeOK, NEW a \in Agents PROVE NewestSeq(a) \in Nat
<1>1. CASE trace[a] = <<>>
  BY <1>1 DEF NewestSeq
<1>2. CASE trace[a] # <<>>
  <2>1. trace[a][Len(trace[a])] \in Event
    BY <1>2 DEF TypeOK
  <2> QED BY <1>2, <2>1 DEF NewestSeq, Event
<1> QED BY <1>1, <1>2

\* The page's step c: what it does not touch, and the types of what it does.
LEMMA PageTypes ==
  ASSUME TypeOK, NEW c \in Chats, PageNext(c)
  PROVE  TypeOK' /\ UNCHANGED <<trace, next, adv>>
<1> USE NothingType DEF TypeOK, Fault, Goes, Ends, Shows, Agents
<1> DEFINE none == [a \in Agents |-> FALSE]
           all == [a \in Agents |-> TRUE]
<1>0. page[c] \in Send
  OBVIOUS
<1>1. CASE SnapshotRefused(c)
  BY <1>0, <1>1 DEF SnapshotRefused, Send, Places
<1>2. CASE SnapshotOrchestrator(c) \/ SnapshotAdvisory(c)
  <2>1. PICK a \in Agents, there \in Places : Snapshot(c, a, there)
    BY <1>2 DEF SnapshotOrchestrator, SnapshotAdvisory, Places
  <2>2. UNCHANGED <<signedIn, orch, adv, trace, next, drawn>>
    BY <2>1 DEF Snapshot
  <2>3. CASE /\ page' = [page EXCEPT ![c].at = there, ![c].before[a] = NewestSeq(a)]
             /\ UNCHANGED <<faults, disturbed>>
    <3>1. page' \in [Chats -> Send]
      BY <1>0, <2>3, NewestType DEF Send
    <3> QED BY <2>2, <2>3, <3>1
  <2>4. CASE Fault /\ Goes(c, there) /\ disturbed' = [disturbed EXCEPT ![c][a] = TRUE]
    <3>1. page' \in [Chats -> Send]
      BY <1>0, <2>4 DEF Send
    <3>2. disturbed' \in [Chats -> [Agents -> BOOLEAN]] /\ faults' \in 0 .. MaxFaults
      BY <2>4
    <3> QED BY <2>2, <3>1, <3>2
  <2> QED BY <2>1, <2>3, <2>4 DEF Snapshot
<1>3. CASE SnapshotLost(c)
  <2>1. page' \in [Chats -> Send]
    BY <1>0, <1>3 DEF SnapshotLost, Send, Places
  <2>2. disturbed' \in [Chats -> [Agents -> BOOLEAN]] /\ faults' \in 0 .. MaxFaults
    BY <1>3 DEF SnapshotLost
  <2> QED BY <1>3, <2>1, <2>2 DEF SnapshotLost
<1>4. CASE Ask(c)
  BY <1>0, <1>4 DEF Ask, Send, Places, OrchPlaces
<1>5. CASE AnswerArrives(c) \/ PortalGivesUp(c)
  <2>0. PICK answer \in Answers : Shows(c, answer)
    BY <1>5 DEF AnswerArrives, PortalGivesUp, Answers
  <2>1. page' \in [Chats -> Send]
    BY <1>0, <2>0 DEF Send, Places
  <2>2. orch' \in [Chats -> OrchPlaces]
    BY <1>5 DEF AnswerArrives, PortalGivesUp, OrchPlaces
  <2> QED BY <2>0, <2>1, <2>2
<1>6. CASE PageLosesPortal(c)
  <2>1. page' \in [Chats -> Send]
    BY <1>0, <1>6 DEF PageLosesPortal, Send, Places
  <2>2. disturbed' \in [Chats -> [Agents -> BOOLEAN]] /\ faults' \in 0 .. MaxFaults
    BY <1>6 DEF PageLosesPortal
  <2> QED BY <1>6, <2>1, <2>2 DEF PageLosesPortal
<1>7. CASE ReadRefused(c)
  BY <1>0, <1>7 DEF ReadRefused, Send, Places
<1>8. CASE ReadOrchestrator(c) \/ ReadAdvisory(c)
  <2>1. PICK a \in Agents : Read(c, a)
    BY <1>8 DEF ReadOrchestrator, ReadAdvisory
  <2>2. drawn' \in [Agents -> SUBSET (Chats \X Kinds)] /\ faults' \in 0 .. MaxFaults
    BY <2>1, DrawnType DEF Read
  <2>3. UNCHANGED <<signedIn, orch, adv, trace, next>>
    BY <2>1 DEF Read
  <2>4. CASE Goes(c, "readAdv") /\ UNCHANGED disturbed
    <3>1. page' \in [Chats -> Send]
      BY <1>0, <2>4 DEF Send, Places
    <3> QED BY <2>2, <2>3, <2>4, <3>1
  <2>5. CASE Ends(c, "shown")
    <3>1. page' \in [Chats -> Send]
      BY <1>0, <2>5 DEF Send, Places
    <3>2. disturbed' \in [Chats -> [Agents -> BOOLEAN]]
      BY <2>5
    <3> QED BY <2>2, <2>3, <3>1, <3>2
  <2> QED BY <1>8, <2>4, <2>5 DEF ReadOrchestrator, ReadAdvisory
<1> QED BY <1>1, <1>2, <1>3, <1>4, <1>5, <1>6, <1>7, <1>8 DEF PageNext

\* A step of an agent on behalf of c, with the event it records or none.
LEMMA AgentTypes ==
  ASSUME TypeOK, NEW c \in Chats, AgentsNext(c)
  PROVE  /\ UNCHANGED <<signedIn, page, faults, drawn>>
         /\ orch' \in [Chats -> OrchPlaces] /\ adv' \in [Chats -> AdvPlaces]
         /\ \/ UNCHANGED <<trace, next, disturbed>>
            \/ \E a \in Agents, kind \in Kinds : Record(a, c, kind)
<1> USE DEF TypeOK
<1>1. CASE OrchestratorStarts(c) \/ ExchangeGranted(c) \/ ExchangeRefused(c) \/ CallReturns(c)
  BY <1>1 DEF OrchestratorStarts, ExchangeGranted, ExchangeRefused, CallReturns,
     OrchPlaces, AdvPlaces, Agents, Kinds
<1>2. CASE AdvisoryAnswers(c) \/ AdvisoryRejects(c)
  BY <1>2 DEF AdvisoryAnswers, AdvisoryRejects, AdvPlaces, Agents, Kinds
<1>3. CASE ExchangeRaises(c) \/ CallRaises(c) \/ GatewayRefuses(c)
  BY <1>3 DEF ExchangeRaises, CallRaises, GatewayRefuses, OrchPlaces, AdvPlaces
<1> QED BY <1>1, <1>2, <1>3 DEF AgentsNext

\* Every variable keeps its type, and each buffer holds the last events of
\* its agent since it started, numbered one after the other.
THEOREM TypeCorrect == Spec => [](TypeOK /\ TailInv)
<1>1. Init => TypeOK /\ TailInv
  <2> SUFFICES ASSUME Init PROVE TypeOK /\ TailInv
    OBVIOUS
  <2>1. page \in [Chats -> Send]
    BY NothingType DEF Init, Send, Places, Answers
  <2>2. TypeOK
    <3>1. orch \in [Chats -> OrchPlaces] /\ adv \in [Chats -> AdvPlaces]
      BY DEF Init, OrchPlaces, AdvPlaces
    <3>2. /\ trace \in [Agents -> Seq(Event)] /\ next \in [Agents -> Nat] /\ faults \in 0 .. MaxFaults
          /\ drawn \in [Agents -> SUBSET (Chats \X Kinds)]
      BY DEF Init
    <3>3. disturbed \in [Chats -> [Agents -> BOOLEAN]] /\ signedIn \in BOOLEAN
      BY DEF Init
    <3> QED BY <2>1, <3>1, <3>2, <3>3 DEF TypeOK
  <2> QED BY <2>2 DEF Init, TailInv, TailAt
<1>2. TypeOK /\ TailInv /\ [Next]_vars => (TypeOK /\ TailInv)'
  <2> SUFFICES ASSUME TypeOK, TailInv, [Next]_vars PROVE (TypeOK /\ TailInv)'
    OBVIOUS
  <2>1. ASSUME UNCHANGED <<trace, next>> PROVE TailInv'
    BY <2>1 DEF TailInv, TailAt
  <2>2. ASSUME NEW c \in Chats, PageNext(c) PROVE (TypeOK /\ TailInv)'
    BY <2>1, <2>2, PageTypes
  <2>3. ASSUME NEW c \in Chats, AgentsNext(c) PROVE (TypeOK /\ TailInv)'
    <3>1. CASE UNCHANGED <<trace, next, disturbed>>
      BY <2>1, <2>3, <3>1, AgentTypes DEF TypeOK
    <3>2. ASSUME NEW a \in Agents, NEW kind \in Kinds, Record(a, c, kind) PROVE (TypeOK /\ TailInv)'
      <4>1. disturbed' \in [Chats -> [Agents -> BOOLEAN]]
        BY <3>2 DEF Record, Disturb, TypeOK
      <4> QED BY <2>3, <3>2, <4>1, AgentTypes, RecordEffect DEF TypeOK
    <3> QED BY <2>3, <3>1, <3>2, AgentTypes
  <2>4. CASE SessionChanges
    BY <2>1, <2>4 DEF SessionChanges, Fault, TypeOK
  <2>5. ASSUME NEW a \in Agents, Restart(a) PROVE (TypeOK /\ TailInv)'
    <3>1. /\ disturbed' \in [Chats -> [Agents -> BOOLEAN]]
          /\ orch' \in [Chats -> OrchPlaces] /\ adv' \in [Chats -> AdvPlaces]
          /\ faults' \in 0 .. MaxFaults
          /\ UNCHANGED <<signedIn, page, drawn>>
      BY <2>5 DEF Restart, Disturb, Fault, TypeOK, OrchPlaces, AdvPlaces
    <3>2. /\ trace' = [trace EXCEPT ![a] = <<>>] /\ next' = [next EXCEPT ![a] = 1]
          /\ trace' \in [Agents -> Seq(Event)] /\ next' \in [Agents -> Nat]
      BY <2>5 DEF Restart, TypeOK
    <3>3. TailInv'
      <4>1. TailAt(a)'
        BY <3>2 DEF TailAt, TypeOK
      <4>2. ASSUME NEW b \in Agents \ {a} PROVE TailAt(b)'
        <5>1. trace'[b] = trace[b] /\ next'[b] = next[b] /\ TailAt(b)
          BY <3>2 DEF TailInv, TypeOK
        <5> QED BY <5>1 DEF TailAt
      <4> QED BY <4>1, <4>2 DEF TailInv
    <3> QED BY <3>1, <3>2, <3>3 DEF TypeOK
  <2>6. CASE UNCHANGED vars
    BY <2>1, <2>6 DEF vars, TypeOK
  <2> QED BY <2>2, <2>3, <2>4, <2>5, <2>6 DEF Next
<1> QED BY <1>1, <1>2, PTL DEF Spec

-----------------------------------------------------------------------------
\* One chat, in the page and in the two agents

\* An agent has what the one before it has sent, and an answer that is not an
\* error was the orchestrator's, which got it from the advisory agent.
ChainAt(c) ==
  /\ page[c].at \in {"idle", "snapAdv", "ask"} =>
       orch[c] = "none" /\ page[c].answer = "none" /\ page[c].token = FALSE
  /\ page[c].at = "wait" => orch[c] # "none" /\ page[c].answer = "none"
  /\ orch[c] \in {"none", "sent", "exchange"} => adv[c] = "none"
  /\ adv[c] = "sent" => orch[c] \in {"call", "callRaised", "lost"}
  /\ orch[c] = "advice" => adv[c] = "advised"
  /\ orch[c] = "refused" => adv[c] \in {"rejected", "refused"}
  /\ page[c].answer \in {"advice", "refused"} => orch[c] = page[c].answer

ChainInv == \A c \in Chats : ChainAt(c)

\* A step for c leaves the other chats as they are.
LEMMA OthersStay ==
  ASSUME TypeOK, NEW c \in Chats, PageNext(c) \/ AgentsNext(c), NEW d \in Chats \ {c}
  PROVE  page'[d] = page[d] /\ orch'[d] = orch[d] /\ adv'[d] = adv[d]
<1> USE DEF TypeOK, Goes, Ends, Shows
<1>1. CASE SnapshotOrchestrator(c) \/ SnapshotAdvisory(c)
  BY <1>1 DEF SnapshotOrchestrator, SnapshotAdvisory, Snapshot
<1>2. CASE SnapshotRefused(c) \/ SnapshotLost(c) \/ Ask(c) \/ PageLosesPortal(c)
  BY <1>2 DEF SnapshotRefused, SnapshotLost, Ask, PageLosesPortal
<1>3. CASE AnswerArrives(c) \/ PortalGivesUp(c)
  BY <1>3 DEF AnswerArrives, PortalGivesUp
<1>4. CASE ReadRefused(c) \/ ReadOrchestrator(c) \/ ReadAdvisory(c)
  BY <1>4 DEF ReadRefused, ReadOrchestrator, ReadAdvisory, Read
<1>5. CASE AgentsNext(c)
  BY <1>5 DEF AgentsNext, OrchestratorStarts, ExchangeGranted, ExchangeRefused, ExchangeRaises,
     CallReturns, CallRaises, AdvisoryAnswers, AdvisoryRejects, GatewayRefuses
<1> QED BY <1>1, <1>2, <1>3, <1>4, <1>5 DEF PageNext

\* What each step of the page does to the chat it is for.
LEMMA PageChain ==
  ASSUME TypeOK, NEW c \in Chats, PageNext(c)
  PROVE  \/ /\ orch'[c] = orch[c] /\ adv'[c] = adv[c]
            /\ page'[c].answer = page[c].answer /\ page'[c].token = page[c].token
            /\ \/ page'[c].at \in {"snapAdv", "ask"} /\ page[c].at \in {"idle", "snapAdv"}
               \/ page'[c].at \in {"readAdv", "shown", "stuck"}
         \/ /\ page[c].at = "ask" /\ page'[c].at = "wait" /\ page'[c].answer = page[c].answer
            /\ orch'[c] = "sent" /\ adv'[c] = adv[c]
         \/ /\ page[c].at = "wait" /\ page'[c].at = "readOrch" /\ page'[c].token = page[c].token
            /\ adv'[c] = adv[c]
            /\ \/ page'[c].answer \in {"advice", "refused"} /\ page'[c].answer = orch[c] /\ orch'[c] = orch[c]
               \/ /\ page'[c].answer = "error"
                  /\ orch'[c] = orch[c] \/ (orch[c] = "sent" /\ orch'[c] = "lost")
<1> USE DEF TypeOK, Goes, Ends, Shows, Send
<1>1. CASE SnapshotOrchestrator(c) \/ SnapshotAdvisory(c)
  BY <1>1 DEF SnapshotOrchestrator, SnapshotAdvisory, Snapshot
<1>2. CASE SnapshotRefused(c) \/ SnapshotLost(c)
  BY <1>2 DEF SnapshotRefused, SnapshotLost
<1>3. CASE Ask(c)
  BY <1>3 DEF Ask
<1>4. CASE AnswerArrives(c)
  BY <1>4 DEF AnswerArrives
<1>5. CASE PortalGivesUp(c)
  BY <1>5 DEF PortalGivesUp
<1>6. CASE PageLosesPortal(c) \/ ReadRefused(c) \/ ReadOrchestrator(c) \/ ReadAdvisory(c)
  BY <1>6 DEF PageLosesPortal, ReadRefused, ReadOrchestrator, ReadAdvisory, Read
<1> QED BY <1>1, <1>2, <1>3, <1>4, <1>5, <1>6 DEF PageNext

\* ChainInv holds in every reachable state.
LEMMA ChainInvariant == Spec => []ChainInv
<1>1. Init => ChainInv
  <2> SUFFICES ASSUME Init, NEW c \in Chats PROVE ChainAt(c)
    BY DEF ChainInv
  <2> QED BY DEF Init, ChainAt
<1>2. TypeOK /\ ChainInv /\ [Next]_vars => ChainInv'
  <2> SUFFICES ASSUME TypeOK, ChainInv, [Next]_vars, NEW c \in Chats PROVE ChainAt(c)'
    BY DEF ChainInv
  <2>0. ChainAt(c)
    BY DEF ChainInv
  <2>1. ASSUME NEW d \in Chats, PageNext(d) \/ AgentsNext(d), d # c PROVE ChainAt(c)'
    <3>1. page'[c] = page[c] /\ orch'[c] = orch[c] /\ adv'[c] = adv[c]
      BY <2>1, OthersStay
    <3> QED BY <2>0, <3>1 DEF ChainAt
  <2>2. CASE PageNext(c)
    BY <2>0, <2>2, PageChain DEF ChainAt
  <2>3. CASE AgentsNext(c)
    BY <2>0, <2>3 DEF ChainAt, TypeOK, AgentsNext, OrchestratorStarts, ExchangeGranted, ExchangeRefused,
       ExchangeRaises, CallReturns, CallRaises, AdvisoryAnswers, AdvisoryRejects, GatewayRefuses
  <2>4. CASE SessionChanges \/ UNCHANGED vars
    BY <2>0, <2>4 DEF SessionChanges, vars, ChainAt
  <2>5. ASSUME NEW a \in Agents, Restart(a) PROVE ChainAt(c)'
    BY <2>0, <2>5 DEF Restart, ChainAt, TypeOK
  <2> QED BY <2>1, <2>2, <2>3, <2>4, <2>5 DEF Next
<1> QED BY <1>1, <1>2, TypeCorrect, PTL DEF Spec

\* ImplementsRequest: advice at most once, for the user's token, told only if
\* given, and after an answer nothing more unless the answer was an error.
THEOREM ChainRefinement == Spec => ImplementsRequest
<1> DEFINE stage == [c \in Chats |-> Stage(c)]
           token == [c \in Chats |-> page[c].token]
           answer == [c \in Chats |-> page[c].answer]
<1>1. Init => Request!Init
  BY DEF Init, Request!Init, Stage
<1>2. TypeOK /\ ChainInv /\ [Next]_vars => [Request!Next]_(Request!vars)
  <2> SUFFICES ASSUME TypeOK, ChainInv, [Next]_vars
               PROVE  Request!Next \/ UNCHANGED <<stage, token, answer>>
    BY DEF Request!vars
  <2>1. ASSUME NEW c \in Chats, PageNext(c) PROVE Request!Next \/ UNCHANGED <<stage, token, answer>>
    <3> USE <2>1
    <3>1. \A d \in Chats \ {c} : page'[d] = page[d] /\ orch'[d] = orch[d] /\ adv'[d] = adv[d]
      BY OthersStay
    <3>2. ChainAt(c) /\ page[c] \in Send
      BY DEF ChainInv, TypeOK
    <3>3. CASE /\ page[c].at = "ask" /\ page'[c].at = "wait" /\ page'[c].answer = page[c].answer
               /\ orch'[c] = "sent" /\ adv'[c] = adv[c]
      <4>1. stage[c] = "new" /\ answer[c] = "none"
        BY <3>2, <3>3 DEF ChainAt, Stage
      <4>2. stage' = [stage EXCEPT ![c] = "asked"] /\ answer' = answer
        BY <3>1, <3>2, <3>3 DEF ChainAt, Stage
      <4>3. page'[c].token \in BOOLEAN
        BY PageTypes DEF TypeOK, Send
      <4>4. token' \in {token, [token EXCEPT ![c] = TRUE]}
        BY <3>1, <3>2, <3>3, <4>3 DEF ChainAt
      <4> QED BY <4>1, <4>2, <4>4 DEF Request!Next, Request!Ask
    <3>4. CASE /\ page[c].at = "wait" /\ page'[c].token = page[c].token /\ adv'[c] = adv[c]
               /\ \/ page'[c].answer \in {"advice", "refused"} /\ page'[c].answer = orch[c] /\ orch'[c] = orch[c]
                  \/ /\ page'[c].answer = "error"
                     /\ orch'[c] = orch[c] \/ (orch[c] = "sent" /\ orch'[c] = "lost")
      <4>1. PICK how \in {"advice", "refused", "error"} : page'[c].answer = how
        BY <3>4
      <4>2. stage' = stage
        <5>1. orch[c] # "none" /\ orch'[c] # "none"
          BY <3>2, <3>4 DEF ChainAt
        <5>2. \A d \in Chats : Stage(d)' = Stage(d)
          BY <3>1, <3>4, <5>1 DEF Stage
        <5> QED BY <5>2
      <4>3. token' = token /\ answer' = [answer EXCEPT ![c] = how]
        BY <3>1, <3>4, <4>1
      <4>4. stage[c] # "new" /\ answer[c] = "none"
        <5>1. orch[c] # "none" /\ page[c].answer = "none"
          BY <3>2, <3>4 DEF ChainAt
        <5> QED BY <5>1 DEF Stage
      <4>5. (how = "advice" => stage[c] = "advised") /\ (how = "refused" => stage[c] = "granted")
        <5>1. how \in {"advice", "refused"} => orch[c] = how
          BY <3>4, <4>1
        <5> QED BY <3>2, <5>1 DEF ChainAt, Stage
      <4>6. Request!Answer(c, how)
        BY <4>2, <4>3, <4>4, <4>5 DEF Request!Answer
      <4> QED BY <4>6 DEF Request!Next
    <3>5. CASE /\ orch'[c] = orch[c] /\ adv'[c] = adv[c]
               /\ page'[c].answer = page[c].answer /\ page'[c].token = page[c].token
      BY <3>1, <3>5 DEF Stage
    <3> QED BY <3>3, <3>4, <3>5, PageChain
  <2>2. ASSUME NEW c \in Chats, AgentsNext(c) PROVE Request!Next \/ UNCHANGED <<stage, token, answer>>
    <3> USE DEF TypeOK
    <3>0. page' = page /\ token' = token /\ answer' = answer
      BY <2>2, AgentTypes
    <3>1. \A d \in Chats \ {c} : orch'[d] = orch[d] /\ adv'[d] = adv[d]
      BY <2>2, OthersStay
    <3>2. ChainAt(c) /\ page[c] \in Send
      BY DEF ChainInv
    <3>3. orch[c] \in {"exchange", "call", "callRaised", "lost"} => answer[c] \in {"none", "error"}
      BY <3>2 DEF ChainAt, Send, Answers
    <3>4. CASE ExchangeGranted(c)
      <4>1. adv[c] = "none" /\ orch[c] = "exchange" /\ page[c].token /\ adv'[c] = "sent"
        BY <3>2, <3>4 DEF ExchangeGranted, ChainAt
      <4>2. stage[c] = "asked" /\ token[c] /\ stage' = [stage EXCEPT ![c] = "granted"]
        BY <3>1, <4>1 DEF Stage
      <4> QED BY <3>0, <3>3, <4>1, <4>2 DEF Request!Next, Request!Grant, Request!Open
    <3>5. CASE AdvisoryAnswers(c)
      <4>1. adv[c] = "sent" /\ adv'[c] = "advised"
        BY <3>5 DEF AdvisoryAnswers
      <4>2. stage[c] = "granted" /\ stage' = [stage EXCEPT ![c] = "advised"]
        BY <3>1, <4>1 DEF Stage
      <4>3. answer[c] \in {"none", "error"}
        BY <3>2, <3>3, <4>1 DEF ChainAt
      <4> QED BY <3>0, <4>2, <4>3 DEF Request!Next, Request!Advise, Request!Open
    <3>6. CASE \/ OrchestratorStarts(c) \/ ExchangeRefused(c) \/ ExchangeRaises(c) \/ CallReturns(c)
               \/ CallRaises(c) \/ AdvisoryRejects(c) \/ GatewayRefuses(c)
      <4>1. Stage(c)' = Stage(c)
        BY <3>2, <3>6 DEF Stage, ChainAt, OrchestratorStarts, ExchangeRefused, ExchangeRaises,
           CallReturns, CallRaises, AdvisoryRejects, GatewayRefuses
      <4>2. \A d \in Chats \ {c} : Stage(d)' = Stage(d)
        BY <3>1 DEF Stage
      <4> QED BY <3>0, <4>1, <4>2
    <3> QED BY <2>2, <3>4, <3>5, <3>6 DEF AgentsNext
  <2>3. ASSUME NEW a \in Agents, Restart(a) PROVE UNCHANGED <<stage, token, answer>>
    BY <2>3 DEF Restart, Stage, TypeOK
  <2>4. CASE SessionChanges \/ UNCHANGED vars
    BY <2>4 DEF SessionChanges, vars, Stage
  <2> QED BY <2>1, <2>2, <2>3, <2>4 DEF Next
<1> QED BY <1>1, <1>2, TypeCorrect, ChainInvariant, PTL DEF Spec, ImplementsRequest, Request!Spec

-----------------------------------------------------------------------------
\* What a send draws

\* How many events of c the agent a has recorded, and which is the n-th.
Count(c, a) ==
  IF a = "advisory" THEN IF adv[c] \in {"advised", "rejected"} THEN 1 ELSE 0
  ELSE IF orch[c] \in {"exchange", "raised"} THEN 1
  ELSE IF orch[c] \in {"failed", "call", "callRaised"} THEN 2
  ELSE IF orch[c] \in {"advice", "refused"} THEN 3 ELSE 0

StepKind(c, a, n) ==
  IF a = "advisory" THEN IF adv[c] = "advised" THEN "accepted" ELSE "rejected"
  ELSE IF n = 1 THEN "user_token"
  ELSE IF n = 3 THEN "advisory_call"
  ELSE IF orch[c] = "failed" THEN "obo_failed" ELSE "obo_exchange"

\* What was recorded after an undisturbed snapshot is c's own, in order.
Looking(c, a) == Between(c, a) /\ ~disturbed[c][a]

OwnSteps(c, a) ==
  Looking(c, a) =>
    /\ next[a] = page[c].before[a] + 1 + Count(c, a)
    /\ \A i \in 1 .. Len(trace[a]), n \in 1 .. 3 : trace[a][i].seq = page[c].before[a] + n =>
         trace[a][i].chat = c /\ trace[a][i].kind = StepKind(c, a, n)

OwnInv == \A c \in Chats, a \in Agents : OwnSteps(c, a)

LEMMA BetweenIs ==
  ASSUME NEW c \in Chats, NEW a \in Agents
  PROVE  Between(c, a) <=> page[c].at \in IF a = "orchestrator"
                                            THEN {"snapAdv", "ask", "wait", "readOrch"}
                                            ELSE {"ask", "wait", "readOrch", "readAdv"}
BY DEF Between, Agents

\* A step that changes nothing of what c has to do with a.
LEMMA Unaffected ==
  ASSUME NEW c \in Chats, NEW a \in Agents, OwnSteps(c, a), Looking(c, a)' => Looking(c, a),
         page'[c].before[a] = page[c].before[a], trace'[a] = trace[a], next'[a] = next[a],
         Count(c, a)' = Count(c, a), \A n : StepKind(c, a, n)' = StepKind(c, a, n)
  PROVE  OwnSteps(c, a)'
BY DEF OwnSteps

\* A snapshot has the number of the last event.
LEMMA NewestIsLast ==
  ASSUME TypeOK, TailInv, NEW a \in Agents
  PROVE  NewestSeq(a) = next[a] - 1
<1>1. TailAt(a) /\ trace[a] \in Seq(Event) /\ next[a] \in Nat
  BY DEF TailInv, TypeOK
<1>2. CASE trace[a] = <<>>
  BY <1>1, <1>2 DEF TailAt, NewestSeq
<1>3. CASE trace[a] # <<>>
  <2>1. Len(trace[a]) \in 1 .. Len(trace[a])
    BY <1>1, <1>3
  <2>2. trace[a][Len(trace[a])].seq = next[a] - 1 - (Len(trace[a]) - Len(trace[a]))
    BY <1>1, <2>1 DEF TailAt
  <2> QED BY <1>1, <1>3, <2>2 DEF NewestSeq
<1> QED BY <1>2, <1>3

\* The snapshot of c at a: nothing is recorded for c yet, and the numbers to
\* come are larger.
LEMMA SnapshotOwn ==
  ASSUME TypeOK, TailInv, NEW c \in Chats, ChainAt(c), page[c].at \in {"idle", "snapAdv"},
         NEW a \in Agents, NEW there \in Places, Snapshot(c, a, there)
  PROVE  OwnSteps(c, a)'
<1>1. trace' = trace /\ next' = next /\ orch' = orch /\ adv' = adv
  BY DEF Snapshot
<1>2. CASE page' = [page EXCEPT ![c].at = there, ![c].before[a] = NewestSeq(a)]
  <2>1. page'[c].before[a] = next[a] - 1
    BY <1>2, NewestIsLast DEF TypeOK, Send
  <2>2. Count(c, a)' = 0
    BY <1>1 DEF ChainAt, Count
  <2>3. \A i \in 1 .. Len(trace[a]) : ~(trace[a][i].seq > next[a] - 1)
    BY DEF TailInv, TailAt, TypeOK
  <2>4. next'[a] = page'[c].before[a] + 1 + Count(c, a)'
    <3>1. next'[a] = next[a] /\ next[a] \in Nat
      BY <1>1 DEF TypeOK
    <3> QED BY <2>1, <2>2, <3>1
  <2>5. \A i \in 1 .. Len(trace'[a]), n \in 1 .. 3 : trace'[a][i].seq # page'[c].before[a] + n
    BY <1>1, <2>1, <2>3 DEF TypeOK
  <2> QED BY <2>4, <2>5 DEF OwnSteps
<1>3. CASE disturbed' = [disturbed EXCEPT ![c][a] = TRUE]
  BY <1>3 DEF OwnSteps, Looking, TypeOK
<1> QED BY <1>2, <1>3 DEF Snapshot

\* A step of the page for d.
LEMMA PageOwn ==
  ASSUME TypeOK, TailInv, ChainInv, OwnInv, NEW d \in Chats, PageNext(d), NEW c \in Chats, NEW a \in Agents
  PROVE  OwnSteps(c, a)'
<1>1. /\ trace' = trace /\ next' = next /\ adv' = adv /\ OwnSteps(c, a) /\ ChainAt(c)
      /\ page[c] \in Send /\ disturbed \in [Chats -> [Agents -> BOOLEAN]]
  BY PageTypes DEF OwnInv, ChainInv, TypeOK
<1>2. CASE c # d
  <2>1. page'[c] = page[c] /\ orch'[c] = orch[c]
    BY <1>2, OthersStay
  <2>2. disturbed'[c] = disturbed[c]
    BY <1>1, <1>2 DEF PageNext, SnapshotRefused, SnapshotOrchestrator, SnapshotAdvisory, Snapshot,
       SnapshotLost, Ask, AnswerArrives, PortalGivesUp, PageLosesPortal, ReadRefused,
       ReadOrchestrator, ReadAdvisory, Goes, Ends, Shows
  <2>3. Looking(c, a)' = Looking(c, a) /\ Count(c, a)' = Count(c, a)
        /\ \A n : StepKind(c, a, n)' = StepKind(c, a, n)
    BY <1>1, <2>1, <2>2 DEF Looking, Between, Count, StepKind
  <2> QED BY <1>1, <2>1, <2>3, Unaffected
<1>3. CASE c = d
  <2> USE <1>1, <1>3
  <2>1. CASE SnapshotRefused(c) \/ SnapshotLost(c)
    <3>1. disturbed'[c][a] = TRUE
      BY <2>1 DEF SnapshotRefused, SnapshotLost
    <3> QED BY <3>1 DEF OwnSteps, Looking
  <2>2. CASE SnapshotOrchestrator(c)
    <3>1. Snapshot(c, "orchestrator", "snapAdv") /\ page[c].at \in {"idle", "snapAdv"} /\ "snapAdv" \in Places
      BY <2>2 DEF SnapshotOrchestrator, Places
    <3>2. CASE a = "orchestrator"
      BY <3>1, <3>2, SnapshotOwn
    <3>3. CASE a = "advisory"
      <4>1. page'[c].at = "snapAdv"
        BY <3>1 DEF Snapshot, Goes, TypeOK, Send
      <4> QED BY <3>3, <4>1, BetweenIs DEF OwnSteps, Looking, Between
    <3> QED BY <3>2, <3>3 DEF Agents
  <2>3. CASE SnapshotAdvisory(c)
    <3>1. Snapshot(c, "advisory", "ask") /\ page[c].at = "snapAdv" /\ "ask" \in Places
      BY <2>3 DEF SnapshotAdvisory, Places
    <3>2. CASE a = "advisory"
      BY <3>1, <3>2, SnapshotOwn
    <3>3. CASE a = "orchestrator"
      <4>1. /\ page'[c].before[a] = page[c].before[a] /\ orch' = orch
            /\ disturbed'[c][a] = disturbed[c][a]
        <5>1. \/ /\ page' = [page EXCEPT ![c].at = "ask", ![c].before["advisory"] = NewestSeq("advisory")]
                 /\ disturbed' = disturbed
              \/ /\ page' = [page EXCEPT ![c].at = "ask"]
                 /\ disturbed' = [disturbed EXCEPT ![c]["advisory"] = TRUE]
          BY <3>1 DEF Snapshot, Goes
        <5>2. page'[c].before[a] = page[c].before[a] /\ disturbed'[c][a] = disturbed[c][a]
          <6>1. page[c] \in Send /\ page[c].before \in [Agents -> Nat] /\ a # "advisory"
            BY <3>3 DEF Send
          <6>2. page'[c].before[a] = page[c].before[a]
            <7>1. CASE page' = [page EXCEPT ![c].at = "ask"]
              BY <7>1 DEF TypeOK, Send
            <7>2. CASE page' = [page EXCEPT ![c].at = "ask", ![c].before["advisory"] = NewestSeq("advisory")]
              <8>1. page'[c].before = [page[c].before EXCEPT !["advisory"] = NewestSeq("advisory")]
                BY <7>2 DEF TypeOK, Send
              <8> QED BY <6>1, <8>1
            <7> QED BY <5>1, <7>1, <7>2
          <6> QED BY <5>1, <6>1, <6>2
        <5> QED BY <3>1, <5>2 DEF Snapshot
      <4>2. Looking(c, a)' => Looking(c, a)
        BY <3>1, <3>3, <4>1 DEF Looking, Between
      <4> QED BY <4>1, <4>2, Unaffected DEF Count, StepKind
    <3> QED BY <3>2, <3>3 DEF Agents
  <2>4. CASE Ask(c) \/ AnswerArrives(c) \/ PortalGivesUp(c)
    <3>1. /\ page'[c].before[a] = page[c].before[a] /\ disturbed' = disturbed
          /\ page[c].at \in {"ask", "wait"} /\ page'[c].at \in {"wait", "readOrch"}
          /\ orch'[c] = orch[c] \/ (orch[c] \in {"none", "sent"} /\ orch'[c] \in {"sent", "lost"})
      <4>1. CASE Ask(c)
        BY <4>1 DEF Ask, TypeOK, Send, ChainAt
      <4>2. CASE AnswerArrives(c) \/ PortalGivesUp(c)
        <5>1. PICK answer : Shows(c, answer)
          BY <4>2 DEF AnswerArrives, PortalGivesUp
        <5>2. /\ page'[c].before[a] = page[c].before[a] /\ disturbed' = disturbed
              /\ page'[c].at = "readOrch"
          BY <5>1 DEF Shows, TypeOK, Send
        <5>3. page[c].at = "wait" /\ (orch'[c] = orch[c] \/ (orch[c] = "sent" /\ orch'[c] = "lost"))
          BY <4>2 DEF AnswerArrives, PortalGivesUp, TypeOK
        <5> QED BY <5>2, <5>3
      <4> QED BY <2>4, <4>1, <4>2
    <3>2. Looking(c, a)' => Looking(c, a)
      BY <3>1 DEF Looking, Between, Agents
    <3> QED BY <3>1, <3>2, Unaffected DEF Count, StepKind
  <2>5. CASE PageLosesPortal(c) \/ ReadRefused(c) \/ ReadAdvisory(c)
    <3>1. page'[c].at \in {"stuck", "shown"}
      BY <2>5 DEF PageLosesPortal, ReadRefused, ReadAdvisory, Ends, TypeOK, Send
    <3> QED BY <3>1 DEF OwnSteps, Looking, Between
  <2>6. CASE ReadOrchestrator(c)
    <3>1. /\ page'[c].before[a] = page[c].before[a] /\ disturbed' = disturbed /\ orch' = orch
          /\ page[c].at = "readOrch" /\ page'[c].at = "readAdv"
      BY <2>6 DEF ReadOrchestrator, Read, Goes, TypeOK, Send
    <3>2. Looking(c, a)' => Looking(c, a)
      BY <3>1 DEF Looking, Between, Agents
    <3> QED BY <3>1, <3>2, Unaffected DEF Count, StepKind
  <2> QED BY <2>1, <2>2, <2>3, <2>4, <2>5, <2>6 DEF PageNext
<1> QED BY <1>2, <1>3

\* b records the next of d's events, and does nothing else.
RecordsNext(b, d, kind) ==
  /\ Record(b, d, kind) /\ UNCHANGED page
  /\ Count(d, b)' = Count(d, b) + 1
  /\ \A n \in 1 .. 3 : n = Count(d, b) + 1 => StepKind(d, b, n)' = kind
  /\ \A n \in 1 .. Count(d, b) : StepKind(d, b, n)' = StepKind(d, b, n)
  /\ \A a \in Agents \ {b} : Count(d, a)' = Count(d, a) /\ \A n : StepKind(d, a, n)' = StepKind(d, a, n)
  /\ \A c \in Chats \ {d} : orch'[c] = orch[c] /\ adv'[c] = adv[c]

\* The n-th event after a snapshot, where m is the next number.
LEMMA Ranks ==
  \A b, k, m \in Nat, n \in 1 .. 3 : m = b + 1 + k =>
    /\ b + n = m => n = k + 1
    /\ b + n <= m - 1 => n \in 1 .. k
OBVIOUS

\* That event is c's own if c is d, and a disturbance of every other chat
\* between its two looks.
LEMMA RecordOwn ==
  ASSUME TypeOK, TailInv, OwnInv,
         NEW d \in Chats, NEW b \in Agents, NEW kind \in Kinds, RecordsNext(b, d, kind),
         NEW c \in Chats, NEW a \in Agents
  PROVE  OwnSteps(c, a)'
<1>0. page' = page /\ Record(b, d, kind)
  BY DEF RecordsNext
<1>1. /\ OwnSteps(c, a) /\ page[c] \in Send /\ disturbed \in [Chats -> [Agents -> BOOLEAN]]
      /\ Between(c, a)' = Between(c, a)
      /\ disturbed'[c] = IF c # d /\ Between(c, b) THEN [disturbed[c] EXCEPT ![b] = TRUE] ELSE disturbed[c]
  BY <1>0 DEF OwnInv, TypeOK, Record, Disturb, Between
<1>5. /\ next'[b] = next[b] + 1
      /\ \A e \in Agents \ {b} : trace'[e] = trace[e] /\ next'[e] = next[e]
      /\ \A i \in 1 .. Len(trace'[b]) :
           \/ trace'[b][i] = [seq |-> next[b], chat |-> d, kind |-> kind]
           \/ \E j \in 1 .. Len(trace[b]) : trace'[b][i] = trace[b][j]
  BY <1>0, RecordEffect
<1>2. CASE a # b
  <2>1. trace'[a] = trace[a] /\ next'[a] = next[a]
    BY <1>2, <1>5
  <2>2. disturbed'[c][a] = disturbed[c][a]
    BY <1>1, <1>2
  <2>3. Count(c, a)' = Count(c, a) /\ \A n : StepKind(c, a, n)' = StepKind(c, a, n)
    BY <1>2 DEF RecordsNext, Count, StepKind
  <2> QED BY <1>0, <1>1, <2>1, <2>2, <2>3, Unaffected DEF Looking
<1>3. CASE a = b /\ c # d
  BY <1>0, <1>1, <1>3 DEF OwnSteps, Looking
<1>4. CASE a = b /\ c = d
  <2> SUFFICES ASSUME Looking(c, a)'
               PROVE  /\ next'[a] = page[c].before[a] + 1 + Count(c, a)'
                      /\ \A i \in 1 .. Len(trace'[a]), n \in 1 .. 3 :
                           trace'[a][i].seq = page[c].before[a] + n =>
                             trace'[a][i].chat = c /\ trace'[a][i].kind = StepKind(c, a, n)'
    BY <1>0 DEF OwnSteps
  <2>1. Looking(c, a)
    BY <1>0, <1>1, <1>4 DEF Looking
  <2>2. next[a] = page[c].before[a] + 1 + Count(c, a)
    BY <1>1, <2>1 DEF OwnSteps
  <2>6. \A i \in 1 .. Len(trace[a]), n \in 1 .. 3 : trace[a][i].seq = page[c].before[a] + n =>
          trace[a][i].chat = c /\ trace[a][i].kind = StepKind(c, a, n)
    BY <1>1, <2>1 DEF OwnSteps
  <2>3. page[c].before[a] \in Nat /\ next[a] \in Nat /\ Count(c, a) \in Nat
    BY <1>1 DEF Send, TypeOK, Count
  <2>4. next'[a] = page[c].before[a] + 1 + Count(c, a)'
    <3>1. next'[a] = next[a] + 1 /\ Count(c, a)' = Count(c, a) + 1
      BY <1>4, <1>5 DEF RecordsNext
    <3> QED BY <2>2, <2>3, <3>1
  <2>5. ASSUME NEW i \in 1 .. Len(trace'[a]), NEW n \in 1 .. 3, trace'[a][i].seq = page[c].before[a] + n
        PROVE  trace'[a][i].chat = c /\ trace'[a][i].kind = StepKind(c, a, n)'
    <3>1. CASE trace'[a][i] = [seq |-> next[a], chat |-> c, kind |-> kind]
      <4>1. n = Count(c, a) + 1
        <5>1. trace'[a][i].seq = next[a]
          BY <3>1
        <5>2. page[c].before[a] + n = next[a]
          BY <2>5, <5>1
        <5> QED BY ONLY <2>2, <2>3, <5>2, n \in 1 .. 3, Ranks, SMTT(20)
      <4>2. StepKind(c, a, n)' = kind
        BY <1>4, <4>1 DEF RecordsNext
      <4> QED BY <3>1, <4>2
    <3>2. ASSUME NEW j \in 1 .. Len(trace[a]), trace'[a][i] = trace[a][j]
          PROVE  trace'[a][i].chat = c /\ trace'[a][i].kind = StepKind(c, a, n)'
      <4>1. trace[a][j].seq = next[a] - 1 - (Len(trace[a]) - j) /\ Len(trace[a]) \in Nat
        <5>1. TailAt(a) /\ trace[a] \in Seq(Event)
          BY DEF TypeOK, TailInv
        <5> QED BY <5>1 DEF TailAt
      <4>2. n \in 1 .. Count(c, a)
        <5>1. page[c].before[a] + n <= next[a] - 1
          <6>1. page[c].before[a] + n = next[a] - 1 - (Len(trace[a]) - j)
            BY <2>5, <3>2, <4>1
          <6> QED BY ONLY <6>1, <2>3, <4>1, j \in 1 .. Len(trace[a]), n \in 1 .. 3
        <5> QED BY ONLY <2>2, <2>3, <5>1, n \in 1 .. 3, Ranks
      <4>3. StepKind(c, a, n)' = StepKind(c, a, n)
        BY <1>4, <4>2 DEF RecordsNext
      <4> QED BY <2>5, <2>6, <3>2, <4>3
    <3>3. \/ trace'[a][i] = [seq |-> next[a], chat |-> c, kind |-> kind]
          \/ \E j \in 1 .. Len(trace[a]) : trace'[a][i] = trace[a][j]
      BY <1>4, <1>5
    <3> QED BY <3>1, <3>2, <3>3
  <2> QED BY <2>4, <2>5
<1> QED BY <1>2, <1>3, <1>4

\* The steps of the two agents.
LEMMA AgentsRecord ==
  ASSUME TypeOK, ChainInv, NEW d \in Chats, AgentsNext(d)
  PROVE  \/ \E b \in Agents, kind \in Kinds : RecordsNext(b, d, kind)
         \/ /\ UNCHANGED <<page, trace, next, disturbed>>
            /\ \A c \in Chats, a \in Agents :
                 Count(c, a)' = Count(c, a) /\ \A n : StepKind(c, a, n)' = StepKind(c, a, n)
<1>1. /\ page' = page /\ \A c \in Chats \ {d} : orch'[c] = orch[c] /\ adv'[c] = adv[c]
      /\ orch \in [Chats -> OrchPlaces] /\ adv \in [Chats -> AdvPlaces] /\ ChainAt(d)
  BY AgentTypes, OthersStay DEF TypeOK, ChainInv
<1> USE <1>1
<1>2. CASE OrchestratorStarts(d) \/ ExchangeGranted(d) \/ ExchangeRefused(d) \/ CallReturns(d)
  <2>1. PICK k \in Kinds :
          /\ Record("orchestrator", d, k)
          /\ \/ orch[d] = "sent" /\ orch'[d] = "exchange" /\ k = "user_token"
             \/ orch[d] = "exchange" /\ orch'[d] = "call" /\ k = "obo_exchange"
             \/ orch[d] = "exchange" /\ orch'[d] = "failed" /\ k = "obo_failed"
             \/ orch[d] = "call" /\ orch'[d] \in {"advice", "refused"} /\ k = "advisory_call"
    BY <1>2 DEF OrchestratorStarts, ExchangeGranted, ExchangeRefused, CallReturns, Kinds
  <2>2. adv'[d] = adv[d] \/ (adv[d] = "none" /\ adv'[d] = "sent")
    BY <1>2 DEF OrchestratorStarts, ExchangeGranted, ExchangeRefused, CallReturns, ChainAt
  <2>3. /\ Count(d, "orchestrator")' = Count(d, "orchestrator") + 1
        /\ Count(d, "advisory")' = Count(d, "advisory")
    BY <2>1, <2>2 DEF Count
  <2>4. /\ \A n \in 1 .. 3 : n = Count(d, "orchestrator") + 1 => StepKind(d, "orchestrator", n)' = k
        /\ \A n \in 1 .. Count(d, "orchestrator") : StepKind(d, "orchestrator", n)' = StepKind(d, "orchestrator", n)
        /\ \A n : StepKind(d, "advisory", n)' = StepKind(d, "advisory", n)
    BY <2>1, <2>2 DEF Count, StepKind
  <2> QED BY <2>1, <2>3, <2>4 DEF RecordsNext, Agents
<1>3. CASE AdvisoryAnswers(d) \/ AdvisoryRejects(d)
  <2>1. PICK k \in Kinds :
          /\ Record("advisory", d, k) /\ orch' = orch
          /\ adv[d] = "sent"
          /\ (adv'[d] = "advised" /\ k = "accepted") \/ (adv'[d] = "rejected" /\ k = "rejected")
    BY <1>3 DEF AdvisoryAnswers, AdvisoryRejects, Kinds
  <2>2. /\ Count(d, "advisory")' = Count(d, "advisory") + 1 /\ Count(d, "advisory") = 0
        /\ Count(d, "orchestrator")' = Count(d, "orchestrator")
        /\ \A n : StepKind(d, "advisory", n)' = k
        /\ \A n : StepKind(d, "orchestrator", n)' = StepKind(d, "orchestrator", n)
    BY <2>1 DEF Count, StepKind
  <2> QED BY <2>1, <2>2 DEF RecordsNext, Agents
<1>4. CASE ExchangeRaises(d) \/ CallRaises(d) \/ GatewayRefuses(d)
  <2>1. /\ UNCHANGED <<trace, next, disturbed>>
        /\ orch'[d] = orch[d] \/ (orch[d] = "exchange" /\ orch'[d] = "raised") \/ (orch[d] = "call" /\ orch'[d] = "callRaised")
        /\ adv'[d] = adv[d] \/ (adv[d] = "sent" /\ adv'[d] \in {"lost", "refused"})
    BY <1>4 DEF ExchangeRaises, CallRaises, GatewayRefuses
  <2>2. \A c \in Chats, a \in Agents :
          Count(c, a)' = Count(c, a) /\ \A n : StepKind(c, a, n)' = StepKind(c, a, n)
    BY <2>1 DEF Count, StepKind
  <2> QED BY <2>1, <2>2
<1> QED BY <1>2, <1>3, <1>4 DEF AgentsNext

\* OwnInv holds in every reachable state.
LEMMA OwnInvariant == Spec => []OwnInv
<1>1. Init => OwnInv
  BY DEF Init, OwnInv, OwnSteps, Looking, Between
<1>2. TypeOK /\ TailInv /\ ChainInv /\ OwnInv /\ [Next]_vars => OwnInv'
  <2> SUFFICES ASSUME TypeOK, TailInv, ChainInv, OwnInv, [Next]_vars, NEW c \in Chats, NEW a \in Agents
               PROVE  OwnSteps(c, a)'
    BY DEF OwnInv
  <2>1. OwnSteps(c, a) /\ page[c] \in Send /\ disturbed \in [Chats -> [Agents -> BOOLEAN]]
    BY DEF OwnInv, TypeOK
  <2>2. ASSUME NEW d \in Chats, PageNext(d) PROVE OwnSteps(c, a)'
    BY <2>2, PageOwn
  <2>3. ASSUME NEW d \in Chats, AgentsNext(d) PROVE OwnSteps(c, a)'
    <3>1. ASSUME NEW b \in Agents, NEW kind \in Kinds, RecordsNext(b, d, kind) PROVE OwnSteps(c, a)'
      BY <3>1, RecordOwn
    <3>2. ASSUME UNCHANGED <<page, trace, next, disturbed>>, Count(c, a)' = Count(c, a),
                 \A n : StepKind(c, a, n)' = StepKind(c, a, n)
          PROVE  OwnSteps(c, a)'
      BY <2>1, <3>2, Unaffected DEF Looking, Between
    <3> QED BY <2>3, <3>1, <3>2, AgentsRecord
  <2>4. CASE SessionChanges \/ UNCHANGED vars
    BY <2>1, <2>4, Unaffected DEF SessionChanges, vars, Looking, Between, Count, StepKind
  <2>5. ASSUME NEW b \in Agents, Restart(b) PROVE OwnSteps(c, a)'
    <3>1. page' = page /\ Between(c, a)' = Between(c, a) /\ Between(c, b)' = Between(c, b)
      BY <2>5 DEF Restart, Between
    <3>2. disturbed'[c] = IF Between(c, b) THEN [disturbed[c] EXCEPT ![b] = TRUE] ELSE disturbed[c]
      BY <2>5 DEF Restart, Disturb
    <3>3. CASE a = b
      BY <2>1, <3>1, <3>2, <3>3 DEF OwnSteps, Looking
    <3>4. CASE a # b
      <4>1. trace'[a] = trace[a] /\ next'[a] = next[a] /\ disturbed'[c][a] = disturbed[c][a]
        BY <2>1, <2>5, <3>2, <3>4 DEF Restart, TypeOK
      <4>2. Count(c, a)' = Count(c, a) /\ \A n : StepKind(c, a, n)' = StepKind(c, a, n)
        BY <2>5, <3>4 DEF Restart, Count, StepKind, Agents
      <4> QED BY <2>1, <3>1, <4>1, <4>2, Unaffected DEF Looking
    <3> QED BY <3>3, <3>4
  <2> QED BY <2>2, <2>3, <2>4, <2>5 DEF Next
<1> QED BY <1>1, <1>2, TypeCorrect, ChainInvariant, PTL DEF Spec

\* What Latest finds among events of which at most one is of the kinds.
LEMMA LatestOfOne ==
  ASSUME NEW a, NEW fresh \in SUBSET Int, NEW kinds, NEW i \in fresh, NEW c, NEW k \in kinds,
         trace[a][i].chat = c, trace[a][i].kind = k,
         \A j \in fresh : trace[a][j].kind \in kinds => j = i
  PROVE  Latest(a, fresh, kinds) = {<<c, k>>}
<1> DEFINE found == {j \in fresh : trace[a][j].kind \in kinds}
<1>1. found = {i}
  BY Zenon
<1>2. i <= i
  <2>1. i \in Int
    BY Zenon
  <2> QED BY ONLY <2>1
<1>3. Latest(a, fresh, kinds) = {<<trace[a][j].chat, trace[a][j].kind>> : j \in {j \in found : \A h \in found : h <= j}}
  BY DEF Latest
<1> QED BY <1>1, <1>2, <1>3

LEMMA LatestOfNone ==
  ASSUME NEW a, NEW fresh, NEW kinds, \A j \in fresh : trace[a][j].kind \notin kinds
  PROVE  Latest(a, fresh, kinds) = {}
BY DEF Latest

\* The events after an undisturbed snapshot are the chat's, in their order,
\* when the buffer holds a chain.
LEMMA FreshIsOwn ==
  ASSUME MaxTrace >= 3, TypeOK, TailInv, OwnInv, NEW c \in Chats, NEW a \in Agents, Looking(c, a)
  PROVE  \E l \in Nat :
           /\ Fresh(c, a) = l + 1 .. l + Count(c, a)
           /\ \A n \in 1 .. Count(c, a) :
                trace[a][l + n].chat = c /\ trace[a][l + n].kind = StepKind(c, a, n)
<1> DEFINE L == Len(trace[a])
           l == L - Count(c, a)
           before == page[c].before[a]
<1>1. /\ next[a] = before + 1 + Count(c, a)
      /\ \A i \in 1 .. L, n \in 1 .. 3 : trace[a][i].seq = before + n =>
           trace[a][i].chat = c /\ trace[a][i].kind = StepKind(c, a, n)
  BY DEF OwnInv, OwnSteps
<1>2. /\ before \in Nat /\ next[a] \in Nat /\ L \in Nat /\ Count(c, a) \in 0 .. 3
      /\ L = MaxTrace \/ L = next[a] - 1
  BY DEF TypeOK, Send, Count, TailInv, TailAt
<1>3. \A i \in 1 .. L : trace[a][i].seq = next[a] - 1 - (L - i)
  BY DEF TailInv, TailAt
<1> HIDE DEF L, before
<1>4. l \in Nat /\ l + Count(c, a) = L
  BY <1>1, <1>2
<1>5. \A i \in 1 .. L : trace[a][i].seq = before + (i - l)
  BY <1>1, <1>2, <1>3
<1>6. Fresh(c, a) = {i \in 1 .. L : trace[a][i].seq > before}
  BY DEF Fresh, L, before
<1>7. Fresh(c, a) = l + 1 .. l + Count(c, a)
  BY <1>2, <1>4, <1>5, <1>6
<1>8. ASSUME NEW n \in 1 .. Count(c, a)
      PROVE  trace[a][l + n].chat = c /\ trace[a][l + n].kind = StepKind(c, a, n)
  <2>1. l + n \in 1 .. L /\ n \in 1 .. 3
    BY <1>2, <1>4
  <2>2. trace[a][l + n].seq = before + n
    BY <1>2, <1>4, <1>5, <2>1
  <2> QED BY <1>1, <2>1, <2>2
<1> QED BY <1>4, <1>7, <1>8

LEMMA DrawnIsMade ==
  ASSUME MaxTrace >= 3, TypeOK, TailInv, OwnInv, NEW c \in Chats, NEW a \in Agents, Looking(c, a)
  PROVE  Drawn(a, Fresh(c, a)) = {c} \X Made(c, a)
<1> DEFINE fresh == Fresh(c, a)
           N == Count(c, a)
<1>1. PICK l \in Nat :
        /\ fresh = l + 1 .. l + N
        /\ \A n \in 1 .. N : trace[a][l + n].chat = c /\ trace[a][l + n].kind = StepKind(c, a, n)
  BY FreshIsOwn
<1>2. /\ fresh \in SUBSET Int
      /\ \A i \in fresh : \E n \in 1 .. N : i = l + n
      /\ \A n \in 1 .. N : l + n \in fresh
      /\ N \in 0 .. 3
  <2>1. N \in 0 .. 3
    BY DEF Count
  <2> HIDE DEF N
  <2>2. \A i \in fresh : i - l \in 1 .. N /\ i = l + (i - l)
    BY <1>1, <2>1
  <2> QED BY <1>1, <2>1, <2>2
<1> HIDE DEF fresh
\* One kind, or one of two that exclude each other.
<1>3. ASSUME NEW kinds, NEW n \in 1 .. N, StepKind(c, a, n) \in kinds,
             \A m \in 1 .. N : StepKind(c, a, m) \in kinds => m = n
      PROVE  Latest(a, fresh, kinds) = {<<c, StepKind(c, a, n)>>}
  <2>1. l + n \in fresh /\ trace[a][l + n].chat = c /\ trace[a][l + n].kind = StepKind(c, a, n)
    BY <1>1, <1>2
  <2>2. \A j \in fresh : trace[a][j].kind \in kinds => j = l + n
    BY <1>1, <1>2, <1>3
  <2> QED BY <1>2, <1>3, <2>1, <2>2, LatestOfOne
<1>4. ASSUME NEW kinds, \A m \in 1 .. N : StepKind(c, a, m) \notin kinds
      PROVE  Latest(a, fresh, kinds) = {}
  <2>1. \A j \in fresh : trace[a][j].kind \notin kinds
    BY <1>1, <1>2, <1>4
  <2> QED BY <2>1, LatestOfNone
<1>5. CASE a = "advisory"
  <2>1. CASE adv[c] \in {"advised", "rejected"}
    <3>1. N = 1 /\ StepKind(c, a, 1) \in {"accepted", "rejected"} /\ Made(c, a) = {StepKind(c, a, 1)}
      BY <1>5, <2>1 DEF Count, StepKind, Made
    <3>2. Latest(a, fresh, {"accepted", "rejected"}) = {<<c, StepKind(c, a, 1)>>}
      BY <1>3, <3>1
    <3> QED BY <1>5, <3>1, <3>2 DEF Drawn, fresh
  <2>2. CASE adv[c] \notin {"advised", "rejected"}
    <3>1. N = 0 /\ Made(c, a) = {}
      BY <1>5, <2>2 DEF Count, Made
    <3>2. Latest(a, fresh, {"accepted", "rejected"}) = {}
      BY <1>4, <3>1
    <3> QED BY <1>5, <3>1, <3>2 DEF Drawn, fresh
  <2> QED BY <2>1, <2>2
<1>6. CASE a = "orchestrator"
  <2> DEFINE user == Latest(a, fresh, {"user_token"})
             call == Latest(a, fresh, {"advisory_call"})
             good == Latest(a, fresh, {"obo_exchange"})
             bad == Latest(a, fresh, {"obo_failed"})
  <2>0. Drawn(a, fresh) = user \cup call \cup (IF good # {} THEN good ELSE bad)
    BY <1>6 DEF Drawn
  <2> HIDE DEF user, call, good, bad
  <2>1. StepKind(c, a, 1) = "user_token" /\ StepKind(c, a, 3) = "advisory_call"
        /\ StepKind(c, a, 2) = IF orch[c] = "failed" THEN "obo_failed" ELSE "obo_exchange"
    BY <1>6 DEF StepKind
  <2>2. CASE orch[c] \in {"exchange", "raised"}
    <3>1. N = 1 /\ Made(c, a) = {"user_token"}
      BY <1>6, <2>2 DEF Count, Made
    <3>2. user = {<<c, "user_token">>} /\ call = {} /\ good = {} /\ bad = {}
      BY <1>3, <1>4, <2>1, <3>1 DEF user, call, good, bad
    <3> QED BY <2>0, <3>1, <3>2 DEF fresh
  <2>3. CASE orch[c] = "failed"
    <3>1. N = 2 /\ Made(c, a) = {"user_token", "obo_failed"}
      BY <1>6, <2>3 DEF Count, Made
    <3>2. user = {<<c, "user_token">>} /\ call = {} /\ good = {} /\ bad = {<<c, "obo_failed">>}
      BY <1>3, <1>4, <2>1, <2>3, <3>1 DEF user, call, good, bad
    <3> QED BY <2>0, <3>1, <3>2 DEF fresh
  <2>4. CASE orch[c] \in {"call", "callRaised"}
    <3>1. N = 2 /\ Made(c, a) = {"user_token", "obo_exchange"}
      BY <1>6, <2>4 DEF Count, Made
    <3>2. user = {<<c, "user_token">>} /\ call = {} /\ good = {<<c, "obo_exchange">>}
      BY <1>3, <1>4, <2>1, <2>4, <3>1 DEF user, call, good
    <3> QED BY <2>0, <3>1, <3>2 DEF fresh
  <2>5. CASE orch[c] \in {"advice", "refused"}
    <3>1. N = 3 /\ Made(c, a) = {"user_token", "obo_exchange", "advisory_call"}
      BY <1>6, <2>5 DEF Count, Made
    <3>2. user = {<<c, "user_token">>} /\ call = {<<c, "advisory_call">>} /\ good = {<<c, "obo_exchange">>}
      BY <1>3, <1>4, <2>1, <2>5, <3>1 DEF user, call, good
    <3> QED BY <2>0, <3>1, <3>2 DEF fresh
  <2>6. CASE orch[c] \notin {"exchange", "raised", "failed", "call", "callRaised", "advice", "refused"}
    <3>1. N = 0 /\ Made(c, a) = {}
      BY <1>6, <2>6 DEF Count, Made
    <3>2. user = {} /\ call = {} /\ good = {} /\ bad = {}
      BY <1>4, <3>1 DEF user, call, good, bad
    <3> QED BY <2>0, <3>1, <3>2 DEF fresh
  <2> QED BY <2>2, <2>3, <2>4, <2>5, <2>6
<1> QED BY <1>5, <1>6 DEF Agents

\* ShownIsTheChain: when the buffers can hold the three events of a chain, a
\* send draws its own steps, all that were recorded by then and no others,
\* unless something came between its two looks at the buffer.
THEOREM SendsShowTheirOwnSteps ==
  ASSUME MaxTrace >= 3
  PROVE  Spec => ShownIsTheChain
<1>1. TypeOK /\ TailInv /\ OwnInv /\ [Next]_vars =>
        [\A c \in Chats :
           /\ ReadOrchestrator(c) /\ faults' = faults /\ ~disturbed[c]["orchestrator"] =>
                drawn'["orchestrator"] = {c} \X Made(c, "orchestrator")
           /\ ReadAdvisory(c) /\ faults' = faults /\ ~disturbed[c]["advisory"] =>
                drawn'["advisory"] = {c} \X Made(c, "advisory")]_vars
  <2> SUFFICES ASSUME TypeOK, TailInv, OwnInv, NEW c \in Chats
               PROVE  /\ ReadOrchestrator(c) /\ faults' = faults /\ ~disturbed[c]["orchestrator"] =>
                           drawn'["orchestrator"] = {c} \X Made(c, "orchestrator")
                      /\ ReadAdvisory(c) /\ faults' = faults /\ ~disturbed[c]["advisory"] =>
                           drawn'["advisory"] = {c} \X Made(c, "advisory")
    OBVIOUS
  <2>1. ASSUME NEW a \in Agents, Read(c, a), faults' = faults, Looking(c, a)
        PROVE  drawn'[a] = {c} \X Made(c, a)
    <3>1. drawn' = [drawn EXCEPT ![a] = Drawn(a, Fresh(c, a))]
      BY <2>1 DEF Read, Fault, TypeOK
    <3> QED BY <2>1, <3>1, DrawnIsMade DEF TypeOK
  <2>2. ReadOrchestrator(c) /\ ~disturbed[c]["orchestrator"] =>
          Read(c, "orchestrator") /\ Looking(c, "orchestrator") /\ "orchestrator" \in Agents
    BY DEF ReadOrchestrator, Looking, Between, Agents
  <2>3. ReadAdvisory(c) /\ ~disturbed[c]["advisory"] =>
          Read(c, "advisory") /\ Looking(c, "advisory") /\ "advisory" \in Agents
    BY DEF ReadAdvisory, Looking, Between, Agents
  <2> QED BY <2>1, <2>2, <2>3
<1> QED BY <1>1, TypeCorrect, OwnInvariant, PTL DEF Spec, ShownIsTheChain
=============================================================================
