------------------------------ MODULE EchoAgent ------------------------------
(***************************************************************************)
(* The Entra-protected echo agent (a2a-credential-delegation/agent.py) as  *)
(* its event log shows it: the middleware that lets a call through or      *)
(* rejects it, and /debug/events over the bounded log.  The agent is one   *)
(* asyncio loop, so a handler is atomic between two awaits.                *)
(***************************************************************************)
EXTENDS Integers, Sequences

CONSTANTS
  Calls,         \* requests to the A2A endpoint
  MaxEvents,     \* EVENT_LOG_SIZE
  MaxRestarts    \* bound: times the agent is restarted

ASSUME MaxEventsAssumption == MaxEvents \in Nat \ {0}
ASSUME MaxRestartsAssumption == MaxRestarts \in Nat

VARIABLES
  pc,            \* where each call is
  events,        \* _EVENTS, the deque
  nextSeq,       \* what next(_EVENT_SEQ) will return
  life           \* restarts so far

agentVars == <<pc, events, nextSeq, life>>

Locs == {"idle", "executing", "rejected", "answered", "failed", "lost"}

\* The log numbers events from 1 in every life of the agent: seq and life
\* together identify an event.
Event == [seq : Nat \ {0}, life : Nat]

AgentTypeOK ==
  /\ pc \in [Calls -> Locs]
  /\ events \in Seq(Event) /\ Len(events) <= MaxEvents
  /\ nextSeq \in Nat \ {0}
  /\ life \in 0 .. MaxRestarts

AgentInit ==
  /\ pc = [c \in Calls |-> "idle"]
  /\ events = <<>> /\ nextSeq = 1
  /\ life = 0

-----------------------------------------------------------------------------
Goto(c, from, to) ==
  /\ pc[c] = from
  /\ pc' = [pc EXCEPT ![c] = to]

\* Faulty variant: a full log keeps its oldest events.
RecordKeepsOldest ==
  LET event == [seq |-> nextSeq, life |-> life]
  IN  /\ nextSeq' = nextSeq + 1
      /\ events' = IF Len(events) < MaxEvents THEN Append(events, event) ELSE events

\* record_event: number the event and append it; a full deque drops its head.
Record ==
  LET event == [seq |-> nextSeq, life |-> life]
  IN  /\ nextSeq' = nextSeq + 1
      /\ events' = Append(IF Len(events) < MaxEvents THEN events ELSE Tail(events), event)

\* extract_bearer or validate raises: the 401 is logged and returned.
Reject(c) ==
  /\ Goto(c, "idle", "rejected")
  /\ Record
  /\ UNCHANGED life

\* The token is valid: the call goes on to the task that echoes it ...
Authorize(c) ==
  /\ Goto(c, "idle", "executing")
  /\ UNCHANGED <<events, nextSeq, life>>

\* Faulty variant: only rejected calls are logged.
RespondUnlogged(c) ==
  /\ Goto(c, "executing", "answered")
  /\ UNCHANGED <<events, nextSeq, life>>

\* ... and is logged with its response, once that is drained, in the order
\* of the responses and not of the requests.
Respond(c) ==
  /\ Goto(c, "executing", "answered")
  /\ Record
  /\ UNCHANGED life

\* Or the endpoint raises, or the response while it is drained: the exception
\* passes through the middleware, past record_event.
EndpointRaises(c) ==
  /\ Goto(c, "executing", "failed")
  /\ UNCHANGED <<events, nextSeq, life>>

CallStep(c) == Reject(c) \/ Authorize(c) \/ Respond(c) \/ EndpointRaises(c)

\* DELETE /debug/events: "The sequence keeps counting".
ClearEvents ==
  /\ events' = <<>>
  /\ UNCHANGED <<pc, nextSeq, life>>

Logged == {events[i] : i \in 1 .. Len(events)}
Newer(since) == {e \in Logged : e.seq > since.seq}

\* The cursor of the newest event in the log.  The life a cursor belongs to is
\* not in the program: it is that of the agent whose event the number is from.
NewestCursor == [seq |-> events[Len(events)].seq, life |-> life]

\* Faulty variant: the cursor is that of the events returned.
EventsSinceOwnCursor(since) ==
  [events |-> Newer(since),
   cursor |-> IF Newer(since) # {} THEN NewestCursor ELSE since]

\* Faulty variant: the newest event is left for the next poll.
EventsSinceOffByOne(since) ==
  [events |-> {e \in Newer(since) : e.seq < nextSeq - 1},
   cursor |-> IF events # <<>> THEN NewestCursor ELSE since]

\* GET /debug/events?since=: what is newer than the cursor, and the cursor to
\* ask with next, the one asked with when the log is empty.  The list is in
\* the order of the numbers, which the set leaves out.
EventsSince(since) ==
  [events |-> Newer(since),
   cursor |-> IF events # <<>> THEN NewestCursor ELSE since]

\* The process is killed and started again: log, numbers and calls are gone.
Restart ==
  /\ life < MaxRestarts
  /\ life' = life + 1
  /\ events' = <<>> /\ nextSeq' = 1
  /\ pc' = [c \in Calls |-> IF pc[c] = "executing" THEN "lost" ELSE pc[c]]

-----------------------------------------------------------------------------
\* Properties of the log

\* The log is the tail of the event sequence since it was last cleared: its
\* numbers are consecutive, of this life, and end with the last one given.
LogIsATail ==
  \A i \in 1 .. Len(events) :
    /\ events[i].seq = nextSeq - 1 - (Len(events) - i)
    /\ events[i].life = life
=============================================================================
