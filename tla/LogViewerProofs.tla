--------------------------- MODULE LogViewerProofs ---------------------------
(***************************************************************************)
(* Proofs about the agent's event log and the page that reads and clears   *)
(* it: for every size of the log and any number of calls, fetches and      *)
(* restarts, what the log holds, and what the page skips and shows twice.  *)
(***************************************************************************)
EXTENDS LogViewer, FiniteSetTheorems, TLAPS

USE MaxEventsAssumption, MaxRestartsAssumption

\* Only these steps touch the agent.
LEMMA AgentSteps ==
  ASSUME [Next]_vars
  PROVE  \/ \E c \in Calls : Reject(c) \/ Authorize(c) \/ Respond(c) \/ EndpointRaises(c)
         \/ ClearEvents \/ Restart \/ UNCHANGED agentVars
<1>1. ASSUME NEW c \in Calls, AgentCall(c)
      PROVE  Reject(c) \/ Authorize(c) \/ Respond(c) \/ EndpointRaises(c)
  BY <1>1 DEF AgentCall, CallStep
<1>2. ASSUME NEW p \in Polls, StartPoll(p) \/ ServePoll(p) \/ PollFails(p) \/ RenderPoll(p)
      PROVE  UNCHANGED agentVars
  BY <1>2 DEF StartPoll, ServePoll, PollFails, RenderPoll
<1>3. ClearLogs => ClearEvents
  BY DEF ClearLogs
<1>4. RestartAgent => Restart
  BY DEF RestartAgent
<1>5. UNCHANGED vars => UNCHANGED agentVars
  BY DEF vars
<1> QED BY <1>1, <1>2, <1>3, <1>4, <1>5 DEF Next

-----------------------------------------------------------------------------
LogInv == AgentTypeOK /\ LogIsATail /\ Len(events) < nextSeq

\* Recording an event keeps the log a tail, whether it is full or not.
LEMMA RecordKeepsTail ==
  ASSUME LogInv, Record, UNCHANGED life
  PROVE  /\ events' \in Seq(Event) /\ Len(events') <= MaxEvents /\ nextSeq' \in Nat \ {0}
         /\ LogIsATail' /\ Len(events') < nextSeq'
<1> DEFINE event == [seq |-> nextSeq, life |-> life]
           kept == IF Len(events) < MaxEvents THEN events ELSE Tail(events)
<1> USE DEF LogInv, AgentTypeOK
<1>1. event \in Event
  BY DEF Event
<1>2. events' = Append(kept, event) /\ nextSeq' = nextSeq + 1
  BY DEF Record
<1>3. /\ kept \in Seq(Event) /\ Len(kept) < MaxEvents /\ Len(kept) < nextSeq
      /\ \A i \in 1 .. Len(kept) : /\ kept[i].seq = nextSeq - 1 - (Len(kept) - i)
                                   /\ kept[i].life = life
  <2>1. CASE Len(events) < MaxEvents
    BY <2>1 DEF LogIsATail
  <2>2. CASE ~(Len(events) < MaxEvents)
    <3>1. events # <<>> /\ Len(events) = MaxEvents
      BY <2>2
    <3>2. /\ Tail(events) \in Seq(Event) /\ Len(Tail(events)) = Len(events) - 1
          /\ \A i \in 1 .. Len(events) - 1 : Tail(events)[i] = events[i + 1]
      BY <3>1
    <3>3. \A i \in 1 .. Len(events) - 1 :
            /\ events[i + 1].seq = nextSeq - 1 - (Len(events) - (i + 1))
            /\ events[i + 1].life = life
      BY DEF LogIsATail
    <3> QED BY <2>2, <3>1, <3>2, <3>3
  <2> QED BY <2>1, <2>2
<1> HIDE DEF kept
<1>4. /\ events' \in Seq(Event) /\ Len(events') = Len(kept) + 1
      /\ \A i \in 1 .. Len(kept) : events'[i] = kept[i]
      /\ events'[Len(kept) + 1] = event
  BY <1>1, <1>2, <1>3
<1>5. LogIsATail'
  <2> SUFFICES ASSUME NEW i \in 1 .. Len(events')
               PROVE  /\ events'[i].seq = nextSeq' - 1 - (Len(events') - i)
                      /\ events'[i].life = life
    BY DEF LogIsATail
  <2>1. CASE i \in 1 .. Len(kept)
    <3>1. events'[i].seq = nextSeq - 1 - (Len(kept) - i) /\ events'[i].life = life
      BY <1>3, <1>4, <2>1
    <3> QED BY <1>2, <1>3, <1>4, <2>1, <3>1
  <2>2. CASE i = Len(kept) + 1
    BY <1>2, <1>3, <1>4, <2>2
  <2> QED BY <1>3, <1>4, <2>1, <2>2
<1> QED BY <1>2, <1>3, <1>4, <1>5

\* Every step keeps the log one, with the types of the agent.
LEMMA LogInvariant == Spec => []LogInv
<1>1. Init => LogInv
  BY DEF Init, AgentInit, LogInv, AgentTypeOK, LogIsATail, Locs
<1>2. LogInv /\ [Next]_vars => LogInv'
  <2> SUFFICES ASSUME LogInv, [Next]_vars PROVE LogInv'
    OBVIOUS
  <2>1. ASSUME NEW c \in Calls, Reject(c) \/ Respond(c) PROVE LogInv'
    <3>1. Record /\ UNCHANGED life /\ pc' \in [Calls -> Locs]
      BY <2>1 DEF Reject, Respond, Goto, LogInv, AgentTypeOK, Locs
    <3> QED BY <3>1, RecordKeepsTail DEF LogInv, AgentTypeOK
  <2>2. ASSUME NEW c \in Calls, Authorize(c) \/ EndpointRaises(c) PROVE LogInv'
    BY <2>2 DEF Authorize, EndpointRaises, Goto, LogInv, AgentTypeOK, LogIsATail, Locs
  <2>3. CASE ClearEvents
    BY <2>3 DEF ClearEvents, LogInv, AgentTypeOK, LogIsATail
  <2>4. CASE Restart
    <3>1. pc' \in [Calls -> Locs]
      BY <2>4 DEF Restart, LogInv, AgentTypeOK, Locs
    <3>2. events' = <<>> /\ nextSeq' = 1 /\ life < MaxRestarts /\ life' = life + 1
      BY <2>4 DEF Restart
    <3> QED BY <3>1, <3>2 DEF LogInv, AgentTypeOK, LogIsATail
  <2>5. CASE UNCHANGED agentVars
    BY <2>5 DEF agentVars, LogInv, AgentTypeOK, LogIsATail
  <2> QED BY AgentSteps, <2>1, <2>2, <2>3, <2>4, <2>5
<1> QED BY <1>1, <1>2, PTL DEF Spec

\* The log is always the tail of the sequence of events of this life of the
\* agent since the log was last cleared.
THEOREM LogIsTheTail == Spec => []LogIsATail
BY LogInvariant, PTL DEF LogInv

-----------------------------------------------------------------------------
Answered == {c \in Calls : pc[c] \in {"rejected", "answered"}}

\* Until a restart, one number has been given for each answered call.
THEOREM NumbersCountAnswers ==
  ASSUME IsFiniteSet(Calls)
  PROVE  Spec => []EveryAnswerIsLogged
<1> USE DEF EveryAnswerIsLogged
<1>1. Init => EveryAnswerIsLogged
  <2> SUFFICES ASSUME Init PROVE nextSeq = 1 + Cardinality(Answered)
    BY DEF Answered
  <2>1. Answered = {}
    BY DEF Init, AgentInit, Answered
  <2> QED BY <2>1, FS_EmptySet DEF Init, AgentInit
<1>2. LogInv /\ EveryAnswerIsLogged /\ [Next]_vars => EveryAnswerIsLogged'
  <2> SUFFICES ASSUME LogInv, EveryAnswerIsLogged, [Next]_vars PROVE EveryAnswerIsLogged'
    OBVIOUS
  <2>1. ASSUME NEW c \in Calls, Reject(c) \/ Respond(c) PROVE EveryAnswerIsLogged'
    <3>1. Record /\ life' = life /\ Answered' = Answered \cup {c} /\ c \notin Answered
      BY <2>1 DEF Reject, Respond, Goto, Answered, LogInv, AgentTypeOK
    <3>2. Cardinality(Answered') = Cardinality(Answered) + 1 /\ Cardinality(Answered) \in Nat
      <4>1. IsFiniteSet(Answered)
        BY FS_Subset DEF Answered
      <4> QED BY <3>1, <4>1, FS_AddElement, FS_CardinalityType
    <3> QED BY <3>1, <3>2 DEF Record, Answered
  <2>2. ASSUME NEW c \in Calls, Authorize(c) \/ EndpointRaises(c) PROVE EveryAnswerIsLogged'
    <3>1. Answered' = Answered /\ UNCHANGED <<nextSeq, life>>
      BY <2>2 DEF Authorize, EndpointRaises, Goto, Answered, LogInv, AgentTypeOK
    <3> QED BY <3>1 DEF Answered
  <2>3. CASE ClearEvents
    BY <2>3 DEF ClearEvents
  <2>4. CASE Restart
    <3>1. life' # 0
      BY <2>4 DEF Restart, LogInv, AgentTypeOK
    <3> QED BY <3>1
  <2>5. CASE UNCHANGED agentVars
    BY <2>5 DEF agentVars
  <2> QED BY AgentSteps, <2>1, <2>2, <2>3, <2>4, <2>5
<1> QED BY <1>1, <1>2, LogInvariant, PTL DEF Spec

-----------------------------------------------------------------------------
\* The page

\* Every event in the log is numbered in this life of the agent, below nextSeq.
LEMMA LoggedEvents ==
  ASSUME LogInv
  PROVE  /\ Logged \subseteq Event
         /\ \A e \in Logged : e.life = life /\ e.seq < nextSeq
         /\ events = <<>> => Logged = {}
         /\ events # <<>> => /\ NewestCursor \in Cursor
                             /\ NewestCursor.life = life /\ NewestCursor.seq = nextSeq - 1
<1> USE DEF LogInv, AgentTypeOK, Logged
<1>1. \A i \in 1 .. Len(events) :
        events[i] \in Event /\ events[i].life = life /\ events[i].seq < nextSeq
  <2> SUFFICES ASSUME NEW i \in 1 .. Len(events)
               PROVE  events[i] \in Event /\ events[i].life = life /\ events[i].seq < nextSeq
    OBVIOUS
  <2>1. events[i].seq = nextSeq - 1 - (Len(events) - i) /\ events[i].life = life
    BY DEF LogIsATail
  <2>2. events[i] \in Event
    OBVIOUS
  <2> QED BY <2>1, <2>2
<1>2. CASE events = <<>>
  BY <1>1, <1>2
<1>3. CASE events # <<>>
  <2>1. Len(events) \in 1 .. Len(events)
    BY <1>3
  <2>2. events[Len(events)].seq = nextSeq - 1
    BY <2>1 DEF LogIsATail
  <2> QED BY <1>1, <1>3, <2>1, <2>2 DEF NewestCursor, Cursor
<1> QED BY <1>1, <1>2, <1>3

\* An answer to a fetch is a set of events.
LEMMA EventsSinceType ==
  ASSUME LogInv, NEW since \in Cursor
  PROVE  EventsSince(since) \in Answer
BY LoggedEvents DEF EventsSince, Newer, Answer

\* A restart remembers the largest of the numbers that cursors then have.
LEMMA RestartRemembers ==
  ASSUME TypeOK, RestartAgent
  PROVE  /\ staleSeq' \in Nat /\ staleSeq <= staleSeq' /\ cursor.seq <= staleSeq'
         /\ \A p \in Polls : poll[p].since.seq <= staleSeq'
         /\ \A p \in Polls : poll[p].at = "answered" => poll[p].answer.cursor.seq <= staleSeq'
<1> DEFINE S == CursorSeqs \cup {staleSeq}
<1>1. S \subseteq Nat
  BY DEF CursorSeqs, TypeOK, Cursor, Answer, Fetch
<1>2. staleSeq' \in S /\ \A m \in S : m <= staleSeq'
  BY DEF RestartAgent
<1>3. /\ staleSeq \in S /\ cursor.seq \in S
      /\ \A p \in Polls : poll[p].since.seq \in S
      /\ \A p \in Polls : poll[p].at = "answered" => poll[p].answer.cursor.seq \in S
  BY DEF CursorSeqs
<1> QED BY <1>1, <1>2, <1>3

\* The variables of the page and of the fetches under way keep their types.
THEOREM TypeCorrect == Spec => []TypeOK
<1>1. Init => TypeOK
  <2>1. Idle \in Fetch /\ Idle.at = "idle" /\ [seq |-> 0, life |-> 0] \in Cursor
    BY DEF Idle, Fetch, Cursor
  <2>2. Init => AgentTypeOK
    BY DEF Init, AgentInit, AgentTypeOK, Locs
  <2>3. Init => /\ poll \in [Polls -> Fetch]
                /\ \A p \in Polls : poll[p].at = "answered" => poll[p].answer \in Answer
    BY <2>1 DEF Init
  <2>4. Init => shown \subseteq Event /\ staleSeq \in Nat /\ cursor \in Cursor
    BY <2>1 DEF Init
  <2>5. Init => replayed \in BOOLEAN /\ overlapped \in BOOLEAN
    BY DEF Init
  <2> QED BY <2>2, <2>3, <2>4, <2>5 DEF TypeOK
<1>2. LogInv /\ LogInv' /\ TypeOK /\ [Next]_vars => TypeOK'
  <2> SUFFICES ASSUME LogInv, LogInv', TypeOK, [Next]_vars PROVE TypeOK'
    OBVIOUS
  <2>1. AgentTypeOK'
    BY DEF LogInv
  <2>2. Idle \in Fetch /\ Idle.at = "idle"
    BY DEF Idle, Fetch, Cursor
  <2>3. ASSUME NEW p \in Polls, StartPoll(p) \/ PollFails(p) PROVE TypeOK'
    <3> DEFINE asked == [at |-> "asked", since |-> cursor, answer |-> NoAnswer]
    <3>1. asked \in Fetch /\ asked.at = "asked"
      BY DEF Fetch, TypeOK
    <3> QED BY <2>1, <2>2, <2>3, <3>1 DEF StartPoll, PollFails, TypeOK
  <2>4. ASSUME NEW p \in Polls, ServePoll(p) PROVE TypeOK'
    <3>1. EventsSince(poll[p].since) \in Answer
      BY EventsSinceType DEF TypeOK, Fetch
    <3> QED BY <2>1, <2>4, <3>1 DEF ServePoll, TypeOK, Fetch
  <2>5. ASSUME NEW p \in Polls, RenderPoll(p) PROVE TypeOK'
    <3>1. poll[p].answer \in Answer
      BY <2>5 DEF RenderPoll, TypeOK
    <3> QED BY <2>1, <2>2, <2>5, <3>1 DEF RenderPoll, TypeOK, Answer
  <2>6. CASE ClearLogs \/ (\E c \in Calls : AgentCall(c)) \/ UNCHANGED vars
    BY <2>1, <2>6 DEF ClearLogs, AgentCall, viewVars, vars, TypeOK
  <2>7. CASE RestartAgent
    BY <2>1, <2>2, <2>7, RestartRemembers DEF RestartAgent, TypeOK
  <2> QED BY <2>3, <2>4, <2>5, <2>6, <2>7 DEF Next
<1> QED BY <1>1, <1>2, LogInvariant, PTL DEF Spec

\* A cursor is of this life of the agent and below nextSeq, or of an earlier
\* one and no larger than staleSeq.
Current(k) ==
  /\ k.life <= life
  /\ k.life = life => k.seq < nextSeq
  /\ k.life < life => k.seq <= staleSeq

\* Whoever has seen these events misses none of the log up to the cursor.
Covered(k, seen) ==
  k.life = life => \A e \in Logged : e.seq <= k.seq => e \in seen \/ e.seq <= staleSeq

\* The page may take up any of the cursors that are on their way, whichever
\* comes first, and has then all the events up to it.
CoverInv ==
  /\ Current(cursor) /\ Covered(cursor, shown)
  /\ \A p \in Polls :
       /\ Current(poll[p].since) /\ Covered(poll[p].since, shown)
       /\ poll[p].at = "answered" =>
            /\ Current(poll[p].answer.cursor)
            /\ Covered(poll[p].answer.cursor, shown \cup poll[p].answer.events)

\* What is new in the log has a new number, unless the agent restarts.
LEMMA LogGrows ==
  ASSUME LogInv, Record \/ ClearEvents \/ UNCHANGED <<events, nextSeq>>
  PROVE  nextSeq' \in Nat /\ nextSeq <= nextSeq' /\ \A e \in Logged' : e \in Logged \/ e.seq = nextSeq
<1> USE DEF LogInv, AgentTypeOK
<1>1. CASE Record
  <2> DEFINE event == [seq |-> nextSeq, life |-> life]
             kept == IF Len(events) < MaxEvents THEN events ELSE Tail(events)
  <2>1. events' = Append(kept, event) /\ nextSeq' = nextSeq + 1
    BY <1>1 DEF Record
  <2>2. /\ kept \in Seq(Event) /\ event \in Event
        /\ \A i \in 1 .. Len(kept) : kept[i] \in Logged
    <3>0. event \in Event
      BY DEF Event
    <3>1. CASE Len(events) < MaxEvents
      <4>1. kept = events
        BY <3>1
      <4> QED BY <3>0, <4>1 DEF Logged
    <3>2. CASE ~(Len(events) < MaxEvents)
      <4>1. /\ Tail(events) \in Seq(Event) /\ Len(Tail(events)) = Len(events) - 1
            /\ \A i \in 1 .. Len(events) - 1 : Tail(events)[i] = events[i + 1]
        BY <3>2
      <4>2. \A i \in 1 .. Len(events) - 1 : i + 1 \in 1 .. Len(events)
        OBVIOUS
      <4> QED BY <3>0, <3>2, <4>1, <4>2 DEF Logged
    <3> QED BY <3>1, <3>2
  <2> HIDE DEF kept
  <2>3. /\ Len(events') = Len(kept) + 1
        /\ \A i \in 1 .. Len(events') :
             \/ events'[i] = kept[i] /\ i \in 1 .. Len(kept)
             \/ events'[i] = event
    BY <2>1, <2>2
  <2> QED BY <2>1, <2>2, <2>3 DEF Logged
<1>2. CASE ClearEvents
  BY <1>2 DEF ClearEvents, Logged
<1>3. CASE UNCHANGED <<events, nextSeq>>
  BY <1>3 DEF Logged
<1> QED BY <1>1, <1>2, <1>3

\* CoverInv holds in every reachable state.
LEMMA CoverInvariant == Spec => []CoverInv
<1>1. Init => CoverInv
  <2> SUFFICES ASSUME Init PROVE CoverInv
    OBVIOUS
  <2>1. /\ Logged = {} /\ life = 0 /\ nextSeq = 1
        /\ cursor = [seq |-> 0, life |-> 0]
        /\ \A p \in Polls : poll[p].since = [seq |-> 0, life |-> 0] /\ poll[p].at = "idle"
    BY DEF Init, AgentInit, Logged, Idle
  <2> QED BY <2>1 DEF CoverInv, Current, Covered
<1>2. LogInv /\ TypeOK /\ CoverInv /\ [Next]_vars => CoverInv'
  <2> SUFFICES ASSUME LogInv, TypeOK, CoverInv, [Next]_vars PROVE CoverInv'
    OBVIOUS
  <2> USE DEF CoverInv, Current, Covered
  <2>0. /\ life \in Nat /\ nextSeq \in Nat \ {0} /\ staleSeq \in Nat /\ cursor \in Cursor
        /\ \A p \in Polls : poll[p] \in Fetch
        /\ \A p \in Polls : poll[p].at = "answered" => poll[p].answer \in Answer
        /\ Idle.since = [seq |-> 0, life |-> 0] /\ Idle.at = "idle"
        /\ Logged \subseteq Event
    BY LoggedEvents DEF TypeOK, AgentTypeOK, Idle
  <2>1. CASE (\E c \in Calls : AgentCall(c)) \/ ClearLogs \/ UNCHANGED vars
    <3>1. /\ Record \/ ClearEvents \/ UNCHANGED <<events, nextSeq>>
          /\ UNCHANGED <<life, cursor, poll, shown, staleSeq>>
      BY <2>1 DEF AgentCall, CallStep, Reject, Authorize, Respond, EndpointRaises, ClearLogs, ClearEvents,
         vars, agentVars, viewVars
    <3>2. nextSeq' \in Nat /\ nextSeq <= nextSeq' /\ \A e \in Logged' : e \in Logged \/ e.seq = nextSeq
      BY <3>1, LogGrows
    <3>3. ASSUME NEW k \in Cursor, Current(k)
          PROVE  /\ k.life <= life'
                 /\ k.life = life' => k.seq < nextSeq'
                 /\ k.life < life' => k.seq <= staleSeq'
      BY <2>0, <3>1, <3>2, <3>3 DEF Cursor
    <3>4. ASSUME NEW k \in Cursor, NEW seen, Current(k), Covered(k, seen), k.life = life',
                 NEW e \in Logged', e.seq <= k.seq
          PROVE  e \in seen \/ e.seq <= staleSeq'
      BY <2>0, <3>1, <3>2, <3>4 DEF Cursor
    <3>8. /\ \A p \in Polls : poll[p].since \in Cursor
          /\ \A p \in Polls : poll[p].at = "answered" => poll[p].answer.cursor \in Cursor
      BY <2>0 DEF Fetch, Answer
    <3>5. (Current(cursor) /\ Covered(cursor, shown))'
      BY <2>0, <3>1, <3>3, <3>4
    <3>6. ASSUME NEW p \in Polls PROVE (Current(poll[p].since) /\ Covered(poll[p].since, shown))'
      BY <3>1, <3>3, <3>4, <3>8
    <3>7. ASSUME NEW p \in Polls, poll[p].at = "answered"
          PROVE  (/\ Current(poll[p].answer.cursor)
                  /\ Covered(poll[p].answer.cursor, shown \cup poll[p].answer.events))'
      BY <3>1, <3>3, <3>4, <3>7, <3>8
    <3> HIDE DEF Current, Covered
    <3> QED BY <3>1, <3>5, <3>6, <3>7
  <2>2. ASSUME NEW p \in Polls, StartPoll(p) \/ PollFails(p) PROVE CoverInv'
    <3>1. UNCHANGED <<life, nextSeq, Logged, cursor, shown, staleSeq>>
      BY <2>2 DEF StartPoll, PollFails, agentVars, Logged
    <3>2. \A e \in Logged : ~(e.seq <= 0)
      BY <2>0 DEF Event
    <3>3. ASSUME NEW q \in Polls
          PROVE  /\ poll'[q].since \in {poll[q].since, cursor, [seq |-> 0, life |-> 0]}
                 /\ poll'[q].at = "answered" => poll'[q] = poll[q]
      BY <2>0, <2>2 DEF StartPoll, PollFails, TypeOK
    <3>4. (Current(cursor) /\ Covered(cursor, shown))'
      BY <3>1
    <3>5. ASSUME NEW q \in Polls PROVE (Current(poll[q].since) /\ Covered(poll[q].since, shown))'
      BY <2>0, <3>1, <3>2, <3>3
    <3>6. ASSUME NEW q \in Polls, poll'[q].at = "answered"
          PROVE  (/\ Current(poll[q].answer.cursor)
                  /\ Covered(poll[q].answer.cursor, shown \cup poll[q].answer.events))'
      BY <3>1, <3>3, <3>6
    <3> HIDE DEF Current, Covered
    <3> QED BY <3>4, <3>5, <3>6
  <2>3. ASSUME NEW p \in Polls, ServePoll(p) PROVE CoverInv'
    <3>1. UNCHANGED <<life, nextSeq, Logged, cursor, shown, staleSeq>>
      BY <2>3 DEF ServePoll, agentVars, Logged
    <3> QED BY <2>0, <2>3, <3>1, LoggedEvents, SMTT(20) DEF ServePoll, TypeOK, EventsSince, Newer, Fetch, Cursor, Event
  <2>4. ASSUME NEW p \in Polls, RenderPoll(p) PROVE CoverInv'
    <3>1. UNCHANGED <<life, nextSeq, Logged, staleSeq>>
      BY <2>4 DEF RenderPoll, agentVars, Logged
    <3>2. \A e \in Logged : ~(e.seq <= 0)
      BY <2>0 DEF Event
    <3>3. /\ poll[p].at = "answered" /\ shown' = shown \cup poll[p].answer.events
          /\ cursor' \in {cursor, poll[p].answer.cursor}
      BY <2>4 DEF RenderPoll
    <3>4. ASSUME NEW q \in Polls
          PROVE  /\ poll'[q].since \in {poll[q].since, [seq |-> 0, life |-> 0]}
                 /\ poll'[q].at = "answered" => poll'[q] = poll[q]
      BY <2>0, <2>4 DEF RenderPoll, TypeOK
    <3>5. (Current(cursor) /\ Covered(cursor, shown))'
      BY <3>1, <3>3
    <3>6. ASSUME NEW q \in Polls PROVE (Current(poll[q].since) /\ Covered(poll[q].since, shown))'
      BY <2>0, <3>1, <3>2, <3>3, <3>4
    <3>7. ASSUME NEW q \in Polls, poll'[q].at = "answered"
          PROVE  (/\ Current(poll[q].answer.cursor)
                  /\ Covered(poll[q].answer.cursor, shown \cup poll[q].answer.events))'
      BY <3>1, <3>3, <3>4, <3>7
    <3> HIDE DEF Current, Covered
    <3> QED BY <3>5, <3>6, <3>7
  <2>5. CASE RestartAgent
    BY <2>0, <2>5, RestartRemembers DEF RestartAgent, Restart, Logged, TypeOK, Fetch, Cursor, Answer
  <2> QED BY <2>1, <2>2, <2>3, <2>4, <2>5 DEF Next
<1> QED BY <1>1, <1>2, LogInvariant, TypeCorrect, PTL DEF Spec

\* NothingSkipped: in whatever order the answers come, a page whose cursor is
\* of this life of the agent has shown what the log holds up to it, but for
\* numbers that a cursor had passed before a restart.
THEOREM NothingIsSkipped == Spec => []NothingSkipped
<1>1. CoverInv => NothingSkipped
  BY DEF CoverInv, Covered, NothingSkipped, InStep
<1> QED BY <1>1, CoverInvariant, PTL

-----------------------------------------------------------------------------
\* e was numbered no later than the event k is the cursor of.
Upto(e, k) == e.life < k.life \/ (e.life = k.life /\ e.seq <= k.seq)

\* An answer has the events after the cursor it was asked with and up to its
\* own, which is no older.
AnswerInv ==
  \A p \in Polls : poll[p].at = "answered" =>
    /\ Upto(poll[p].since, poll[p].answer.cursor)
    /\ poll[p].answer.cursor.seq = 0 => poll[p].answer.events = {}
    /\ \A e \in poll[p].answer.events : ~Upto(e, poll[p].since) /\ Upto(e, poll[p].answer.cursor)

\* As long as fetches come one after the other, each asks with the cursor the
\* page still has, and all that was shown is up to it.
OrderInv ==
  overlapped \/
    /\ ~replayed
    /\ \A e \in shown : Upto(e, cursor)
    /\ \A p \in Polls : InFlight(p) => poll[p].since = cursor /\ \A q \in Polls : InFlight(q) => q = p

\* The cursor of an answer, unless it is 0, is the page's after it.
LEMMA RenderedUpto ==
  ASSUME TypeOK, AnswerInv, OrderInv, ~overlapped, NEW p \in Polls, RenderPoll(p)
  PROVE  ~replayed' /\ \A e \in shown' : Upto(e, cursor')
<1> DEFINE answer == poll[p].answer
<1>1. /\ poll[p].at = "answered" /\ poll[p].since = cursor
      /\ cursor' = IF answer.cursor.seq # 0 THEN answer.cursor ELSE cursor
      /\ shown' = shown \cup answer.events
      /\ replayed' = (replayed \/ shown \cap answer.events # {})
  BY DEF RenderPoll, OrderInv, InFlight
<1>2. /\ answer \in Answer /\ cursor \in Cursor /\ shown \subseteq Event
      /\ \A e \in shown : Upto(e, cursor)
      /\ Upto(cursor, answer.cursor)
      /\ answer.cursor.seq = 0 => answer.events = {}
      /\ \A e \in answer.events : ~Upto(e, cursor) /\ Upto(e, answer.cursor)
      /\ ~replayed
  BY <1>1 DEF TypeOK, AnswerInv, OrderInv
<1>3. ~replayed'
  BY <1>1, <1>2
<1>4. ASSUME NEW e \in shown PROVE Upto(e, cursor')
  <2>1. e \in Event /\ cursor' \in Cursor
    BY <1>1, <1>2 DEF Answer
  <2> QED BY <1>1, <1>2, <2>1 DEF Upto, Event, Cursor, Answer
<1>5. ASSUME NEW e \in answer.events PROVE Upto(e, cursor')
  <2>1. e \in Event /\ answer.cursor \in Cursor
    BY <1>1, <1>2 DEF Answer
  <2> QED BY <1>1, <1>2, <2>1 DEF Upto, Event, Cursor
<1> QED BY <1>1, <1>3, <1>4, <1>5

\* What the agent returns is after the cursor it was asked with.
LEMMA ServedUpto ==
  ASSUME LogInv, NEW k \in Cursor, Current(k)
  PROVE  LET answer == EventsSince(k)
         IN  /\ Upto(k, answer.cursor)
             /\ answer.cursor.seq = 0 => answer.events = {}
             /\ \A e \in answer.events : ~Upto(e, k) /\ Upto(e, answer.cursor)
<1>1. CASE events = <<>>
  BY <1>1, LoggedEvents DEF EventsSince, Newer, Upto, Cursor
<1>2. CASE events # <<>>
  <2>1. ASSUME NEW e \in Newer(k)
        PROVE  e \in Event /\ e.life = life /\ e.seq < nextSeq /\ e.seq > k.seq
    BY LoggedEvents DEF Newer
  <2> QED BY <1>2, <2>1, LoggedEvents
          DEF EventsSince, Upto, Current, Cursor, Event, LogInv, AgentTypeOK
<1> QED BY <1>1, <1>2

\* ReplayNeedsOverlap: an event is rendered a second time only if two fetches
\* were under way at once; no clear, restart or failed fetch replays any.
THEOREM ReplaysNeedOverlap == Spec => []ReplayNeedsOverlap
<1>1. Init => AnswerInv /\ OrderInv
  BY DEF Init, AnswerInv, OrderInv, InFlight, Idle
<1>2. LogInv /\ TypeOK /\ CoverInv /\ AnswerInv /\ OrderInv /\ [Next]_vars => AnswerInv' /\ OrderInv'
  <2> SUFFICES ASSUME LogInv, TypeOK, CoverInv, AnswerInv, OrderInv, [Next]_vars
               PROVE  AnswerInv' /\ OrderInv'
    OBVIOUS
  <2>0. Idle.at = "idle" /\ poll \in [Polls -> Fetch]
    BY DEF Idle, TypeOK
  <2>1. CASE (\E c \in Calls : AgentCall(c)) \/ ClearLogs \/ UNCHANGED vars
    BY <2>1 DEF AgentCall, ClearLogs, vars, viewVars, AnswerInv, OrderInv, InFlight
  <2>2. ASSUME NEW p \in Polls, StartPoll(p) PROVE AnswerInv' /\ OrderInv'
    BY <2>0, <2>2 DEF StartPoll, AnswerInv, OrderInv, InFlight
  <2>3. ASSUME NEW p \in Polls, ServePoll(p) PROVE AnswerInv' /\ OrderInv'
    <3>1. poll[p].since \in Cursor /\ Current(poll[p].since)
      BY <2>0 DEF Fetch, CoverInv
    <3>2. /\ poll'[p].since = poll[p].since /\ poll'[p].answer = EventsSince(poll[p].since)
          /\ \A q \in Polls \ {p} : poll'[q] = poll[q]
          /\ \A q \in Polls : poll'[q].since = poll[q].since /\ (InFlight(q)' => InFlight(q))
      BY <2>0, <2>3 DEF ServePoll, InFlight
    <3>3. AnswerInv'
      BY <3>1, <3>2, ServedUpto DEF AnswerInv
    <3>4. OrderInv'
      BY <2>3, <3>2 DEF OrderInv, ServePoll
    <3> QED BY <3>3, <3>4
  <2>4. ASSUME NEW p \in Polls, PollFails(p) PROVE AnswerInv' /\ OrderInv'
    BY <2>0, <2>4 DEF PollFails, AnswerInv, OrderInv, InFlight
  <2>5. ASSUME NEW p \in Polls, RenderPoll(p) PROVE AnswerInv' /\ OrderInv'
    <3>1. poll' = [poll EXCEPT ![p] = Idle] /\ overlapped' = overlapped /\ InFlight(p)
      BY <2>5 DEF RenderPoll, InFlight
    <3>2. AnswerInv'
      BY <2>0, <3>1 DEF AnswerInv
    <3>3. CASE ~overlapped
      <4>1. \A q \in Polls : ~InFlight(q)'
        BY <2>0, <3>1, <3>3 DEF OrderInv, InFlight
      <4>2. ~replayed' /\ \A e \in shown' : Upto(e, cursor')
        BY <2>5, <3>3, RenderedUpto
      <4> QED BY <3>2, <4>1, <4>2 DEF OrderInv
    <3> QED BY <3>1, <3>2, <3>3 DEF OrderInv
  <2>6. CASE RestartAgent
    <3>1. /\ \A q \in Polls : poll'[q] = poll[q] \/ poll'[q].at = "idle"
          /\ UNCHANGED <<cursor, shown, replayed, overlapped>>
      BY <2>0, <2>6 DEF RestartAgent
    <3> QED BY <3>1 DEF AnswerInv, OrderInv, InFlight
  <2> QED BY <2>1, <2>2, <2>3, <2>4, <2>5, <2>6 DEF Next
<1>3. OrderInv => ReplayNeedsOverlap
  BY DEF OrderInv, ReplayNeedsOverlap
<1> QED BY <1>1, <1>2, <1>3, LogInvariant, TypeCorrect, CoverInvariant, PTL DEF Spec
=============================================================================
