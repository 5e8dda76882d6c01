------------------------------ MODULE LogViewer ------------------------------
(***************************************************************************)
(* The agent log drawer of the credential-delegation portal (pollLogs,     *)
(* openLogs, clearLogs and the polling timer of portal/static/index.html)  *)
(* composed with the agent it polls.  The page is single-threaded, but a   *)
(* fetch is not: the timer and the drawer may each have one under way, and *)
(* their responses arrive in any order.                                    *)
(***************************************************************************)
EXTENDS EchoAgent, FiniteSets

CONSTANTS
  Polls,         \* fetches of the event log that may be under way at once
  NoAnswer

ASSUME PollsAssumption == IsFiniteSet(Polls)

VARIABLES
  cursor,        \* logs.cursor, and the life of the agent it comes from
  poll,          \* each fetch: where it is, its since, its answer
  shown,         \* history: events rendered
  replayed,      \* history: an event was rendered more than once
  overlapped,    \* history: two fetches were under way at once
  staleSeq       \* history: the largest number a cursor had when the agent
                 \* restarted, logs.cursor or one in flight

viewVars == <<cursor, poll, shown, replayed, overlapped, staleSeq>>
vars == <<agentVars, viewVars>>

Cursor == [seq : Nat, life : Nat]
Answer == [events : SUBSET Event, cursor : Cursor]
Fetch == [at : {"idle", "asked", "answered"}, since : Cursor, answer : Answer \cup {NoAnswer}]
Idle == [at |-> "idle", since |-> [seq |-> 0, life |-> 0], answer |-> NoAnswer]

TypeOK ==
  /\ AgentTypeOK
  /\ cursor \in Cursor
  /\ poll \in [Polls -> Fetch]
  /\ \A p \in Polls : poll[p].at = "answered" => poll[p].answer \in Answer
  /\ shown \subseteq Event
  /\ replayed \in BOOLEAN
  /\ overlapped \in BOOLEAN
  /\ staleSeq \in Nat

Init ==
  /\ AgentInit
  /\ cursor = [seq |-> 0, life |-> 0]
  /\ poll = [p \in Polls |-> Idle]
  /\ shown = {} /\ replayed = FALSE
  /\ overlapped = FALSE
  /\ staleSeq = 0

InFlight(p) == poll[p].at # "idle"

-----------------------------------------------------------------------------
\* pollLogs, from the timer or from openLogs: fetch with the cursor of now.
StartPoll(p) ==
  /\ poll[p].at = "idle"
  /\ poll' = [poll EXCEPT ![p] = [at |-> "asked", since |-> cursor, answer |-> NoAnswer]]
  /\ overlapped' = (overlapped \/ \E q \in Polls \ {p} : InFlight(q))
  /\ UNCHANGED <<agentVars, cursor, shown, replayed, staleSeq>>

\* The agent handles the GET.
ServePoll(p) ==
  /\ poll[p].at = "asked"
  /\ poll' = [poll EXCEPT ![p].at = "answered", ![p].answer = EventsSince(poll[p].since)]
  /\ UNCHANGED <<agentVars, cursor, shown, replayed, overlapped, staleSeq>>

\* The fetch throws or is not ok: "the next tick retries".  A GET leaves the
\* agent as it is, so that it makes no difference whether it was handled.
PollFails(p) ==
  /\ poll[p].at = "asked"
  /\ poll' = [poll EXCEPT ![p] = Idle]
  /\ UNCHANGED <<agentVars, cursor, shown, replayed, overlapped, staleSeq>>

\* Faulty variant: the cursor is left as it was.
RenderPollKeepsCursor(p) ==
  LET answer == poll[p].answer
  IN  /\ poll[p].at = "answered"
      /\ poll' = [poll EXCEPT ![p] = Idle]
      /\ shown' = shown \cup answer.events
      /\ replayed' = (replayed \/ shown \cap answer.events # {})
      /\ UNCHANGED <<agentVars, cursor, overlapped, staleSeq>>

\* The response is rendered; its cursor, unless it is 0, replaces the page's.
RenderPoll(p) ==
  LET answer == poll[p].answer
  IN  /\ poll[p].at = "answered"
      /\ poll' = [poll EXCEPT ![p] = Idle]
      /\ cursor' = IF answer.cursor.seq # 0 THEN answer.cursor ELSE cursor
      /\ shown' = shown \cup answer.events
      /\ replayed' = (replayed \/ shown \cap answer.events # {})
      /\ UNCHANGED <<agentVars, overlapped, staleSeq>>

\* clearLogs (of this page or another): the DELETE reaches the agent.
ClearLogs == ClearEvents /\ UNCHANGED viewVars

AgentCall(c) == CallStep(c) /\ UNCHANGED viewVars

CursorSeqs ==
  {cursor.seq} \cup {poll[p].since.seq : p \in Polls}
    \cup {poll[p].answer.cursor.seq : p \in {q \in Polls : poll[q].at = "answered"}}

\* A restart fails the fetches that are not answered yet.
RestartAgent ==
  /\ Restart
  /\ poll' = [p \in Polls |-> IF poll[p].at = "asked" THEN Idle ELSE poll[p]]
  /\ \E n \in CursorSeqs \cup {staleSeq} :
       /\ \A m \in CursorSeqs \cup {staleSeq} : m <= n
       /\ staleSeq' = n
  /\ UNCHANGED <<cursor, shown, replayed, overlapped>>

Next ==
  \/ \E c \in Calls : AgentCall(c)
  \/ \E p \in Polls : StartPoll(p) \/ ServePoll(p) \/ PollFails(p) \/ RenderPoll(p)
  \/ ClearLogs \/ RestartAgent

Spec == Init /\ [][Next]_vars

\* The timer goes on polling, and the network does not fail every fetch.
Fairness == \A p \in Polls :
  WF_vars(StartPoll(p)) /\ SF_vars(ServePoll(p)) /\ WF_vars(RenderPoll(p))
FairSpec == Spec /\ Fairness

-----------------------------------------------------------------------------
\* Properties

InStep == cursor.life = life

\* A page whose cursor comes from the running agent has shown every event up
\* to it that the log still holds, in whatever order responses came.  Only
\* numbers that a cursor of an earlier life had passed can be missing.
NothingSkipped ==
  InStep => \A e \in Logged :
              e.seq <= cursor.seq => e \in shown \/ e.seq <= staleSeq

\* An event is rendered twice only if two fetches were under way at once: no
\* clear and no restart replays any.
ReplayNeedsOverlap == replayed => overlapped

\* Every call that the middleware answered is numbered, once, and no other (one
\* whose endpoint raised is not in the log), whatever clears and polls went on,
\* until a restart starts the numbers again.
EveryAnswerIsLogged ==
  life = 0 => nextSeq = 1 + Cardinality({c \in Calls : pc[c] \in {"rejected", "answered"}})

\* A page left behind by a restart takes up the new numbers once there is an
\* event again.
ViewerResyncs == (events # <<>>) ~> (InStep \/ events = <<>>)
=============================================================================
