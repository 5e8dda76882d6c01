---------------------------- MODULE SecureAgents ----------------------------
(***************************************************************************)
(* The two agents of the secure-agent-communication use case (agent.py),   *)
(* each the other's peer.  A chat message that a portal posts is answered  *)
(* by its agent or forwarded to the peer, which treats what it receives in *)
(* the same way: a chat is a chain of hops, handled by the two agents in   *)
(* turn.  Each agent is one asyncio loop, so a handler is atomic between   *)
(* two awaits; handlers of several chats interleave.                       *)
(***************************************************************************)
EXTENDS Integers, Sequences, SequencesExt

CONSTANTS
  Thatcher, Dexter,  \* the agents
  Nobody,            \* no agent is named
  Chats,             \* messages that the portals post
  Texts,             \* what each of them may say, see Word
  LogCap,            \* 100: entries after which INCOMING_LOG is trimmed
  MaxHops,           \* bound: hops of a chat that are modelled
  MaxResets          \* bound: restarts of an agent, and DELETEs of a log

Agents == {Thatcher, Dexter}
Hops == Chats \X (1 .. MaxHops)

\* A text is reduced to the agents it names and how: "tell" (also ask,
\* message, relay, forward), "send" ("send a message to X:"), "quote" (send
\* "..." to X, what it quotes being the words before it), "ping" (what only
\* the fallback of _extract_forward_text strips), "contact" (under a verb that
\* nothing strips), or "name" (without a verb).  "say to" is "tell" when words
\* follow it and "contact" when none do.
Word == [who : Agents \cup {Nobody},
         how : {"tell", "send", "quote", "ping", "contact", "name"}]

\* What _extract_forward_text strips of a text when nothing else is left of it.
Directives == {"tell", "send", "ping"}

ASSUME AgentsAssumption == Thatcher # Dexter /\ Nobody \notin {Thatcher, Dexter}
ASSUME TextsAssumption == \A c \in Chats : Texts[c] \subseteq Seq(Word)
ASSUME BoundsAssumption == LogCap \in Nat /\ MaxHops \in Nat \ {0} /\ MaxResets \in Nat

VARIABLES
  mode,      \* A2A_LEGACY_MODE: "legacy" or "native"
  cache,     \* _peer_legacy_cache: "unknown", "v03" or "v1"
  log,       \* INCOMING_LOG: <<hop, source>> entries
  origin,    \* the agent whose portal posted the chat
  said,      \* the text of each chat
  text,      \* what each hop received of it: the positions of its words
  pc,        \* where each hop is
  version,   \* the protocol each hop forwards in
  carded,    \* history: hops whose version came from a card of the peer
  cut,       \* history: agents that dropped entries from their log
  resets     \* those so far

vars == <<mode, cache, log, origin, said, text, pc, version, carded, cut, resets>>

Over == {"replied", "failed", "rejected", "lost"}
Sources == {"portal", "agent", "forwarded"}

TypeOK ==
  /\ mode \in [Agents -> {"legacy", "native"}]
  /\ cache \in [Agents -> {"unknown", "v03", "v1"}]
  /\ log \in [Agents -> Seq(Hops \X Sources)]
  /\ origin \in [Chats -> Agents]
  /\ said \in [Chats -> Seq(Word)]
  /\ text \in [Hops -> SUBSET Nat]
  /\ pc \in [Hops -> {"none", "arrived", "looking", "posting"} \cup Over]
  /\ version \in [Hops -> {"none", "v03", "v1"}]
  /\ carded \subseteq Hops /\ cut \subseteq Agents
  /\ resets \in 0 .. MaxResets

Init ==
  /\ mode \in [Agents -> {"legacy", "native"}]
  /\ cache = [a \in Agents |-> "unknown"]
  /\ log = [a \in Agents |-> <<>>]
  /\ origin = [c \in Chats |-> Thatcher]
  /\ said = [c \in Chats |-> <<>>]
  /\ text = [h \in Hops |-> {}]
  /\ pc = [h \in Hops |-> "none"]
  /\ version = [h \in Hops |-> "none"]
  /\ carded = {} /\ cut = {} /\ resets = 0

-----------------------------------------------------------------------------
(* Who handles a hop, and what the agents read in a text. *)

Peer(a) == IF a = Thatcher THEN Dexter ELSE Thatcher
At(h) == IF h[2] % 2 = 1 THEN origin[h[1]] ELSE Peer(origin[h[1]])
After(h) == <<h[1], h[2] + 1>>

Says(h, i) == said[h[1]][i]

StartsWithPeer(h) ==
  \E i \in text[h] : /\ Says(h, i) = [who |-> Peer(At(h)), how |-> "name"]
                     /\ \A j \in text[h] : i <= j
                     /\ text[h] # {i}

\* _should_forward: the peer is named, and there is a verb anywhere (not
\* necessarily with that name) or the text starts with the peer's name.
ShouldForward(h) ==
  /\ \E i \in text[h] : Says(h, i).who = Peer(At(h))
  /\ (\E i \in text[h] : Says(h, i).how # "name") \/ StartsWithPeer(h)

\* Faulty variant: the text is forwarded as it was received.
ExtractNothing(h) == text[h]

FollowsAny(h, found) == {j \in text[h] : \E i \in found : i < j}
LeadsAll(h, found) == {j \in text[h] : found # {} /\ \A i \in found : j < i}

Under(h, verb) == {i \in text[h] : Says(h, i).how = verb}

\* _extract_forward_text, in the order of its patterns: what follows the first
\* directive to the peer, or to send to anyone; what is quoted; what follows
\* the peer's name at the start; or else what is left when the directives to
\* the peer are stripped, or the whole text if nothing is.
ExtractForwardText(h) ==
  LET named == {i \in text[h] : Says(h, i).who = Peer(At(h))}
      told == FollowsAny(h, named \cap Under(h, "tell"))
      sent == FollowsAny(h, Under(h, "send"))
      quoted == LeadsAll(h, Under(h, "quote"))
      bare == text[h] \ {i \in named : Says(h, i).how \in Directives}
  IN  IF told # {} THEN told
      ELSE IF sent # {} THEN sent
      ELSE IF quoted # {} THEN quoted
      ELSE IF StartsWithPeer(h) THEN FollowsAny(h, text[h])
      ELSE IF bare # {} THEN bare ELSE text[h]

-----------------------------------------------------------------------------
(* The protocol versions. *)

\* Faulty variant: the card of a legacy agent lists 0.3 only.
CardVersionsOfMode(m) == IF m = "legacy" THEN {"v03"} ELSE {"v1"}

\* _supported_interfaces: what the card of an agent lists.
CardVersions(m) == IF m = "legacy" THEN {"v03", "v1"} ELSE {"v1"}

\* _card_is_legacy: any 1.0 interface is spoken to in 1.0.
CardVersion(m) == IF "v1" \in CardVersions(m) THEN "v1" ELSE "v03"

OwnVersion(m) == IF m = "legacy" THEN "v03" ELSE "v1"

\* The JSON-RPC routes take 0.3 (at /a2a/tasks/send, which the middleware
\* rewrites) in legacy mode only, and 1.0 always.
Accepts(m, v) == v = "v1" \/ m = "legacy"

-----------------------------------------------------------------------------
(* The steps of a hop.                                                     *)

Goto(h, from, to) == pc[h] = from /\ pc' = [pc EXCEPT ![h] = to]

\* A portal posts a chat message to its agent.
Chat(c, a, t) ==
  /\ Goto(<<c, 1>>, "none", "arrived")
  /\ origin' = [origin EXCEPT ![c] = a]
  /\ said' = [said EXCEPT ![c] = t]
  /\ text' = [text EXCEPT ![<<c, 1>>] = DOMAIN t]
  /\ UNCHANGED <<mode, cache, log, version, carded, cut, resets>>

Source(h) == IF h[2] = 1 THEN "portal" ELSE "agent"

\* Faulty variant: the trim tests the length before the append.
LoggedLate(h) ==
  LET longer == Append(log[At(h)], <<h, Source(h)>>)
  IN  IF Len(log[At(h)]) > LogCap THEN Tail(longer) ELSE longer

\* The log when the message of h is in: over the cap, one entry is dropped.
Logged(h) ==
  LET longer == Append(log[At(h)], <<h, Source(h)>>)
  IN  IF Len(longer) > LogCap THEN Tail(longer) ELSE longer

CutBy(h) == IF Len(log[At(h)]) >= LogCap THEN cut \cup {At(h)} ELSE cut

\* execute, no forwarding: log the message and answer it.
Answer(h) ==
  /\ Goto(h, "arrived", "replied")
  /\ ~ShouldForward(h)
  /\ log' = [log EXCEPT ![At(h)] = Logged(h)]
  /\ cut' = CutBy(h)
  /\ UNCHANGED <<mode, cache, origin, said, text, version, carded, resets>>

\* Faulty variant: only what arrives is logged.
BeginForwardUnlogged(h) ==
  LET a == At(h)
  IN  /\ Goto(h, "arrived", IF cache[a] = "unknown" THEN "looking" ELSE "posting")
      /\ ShouldForward(h)
      /\ log' = [log EXCEPT ![a] = Logged(h)]
      /\ cut' = CutBy(h)
      /\ version' = [version EXCEPT ![h] = IF cache[a] = "unknown" THEN "none" ELSE cache[a]]
      /\ carded' = IF cache[a] = "unknown" THEN carded ELSE carded \cup {h}
      /\ UNCHANGED <<mode, cache, origin, said, text, resets>>

\* execute, forwarding: log the message, and the forward even if it will
\* fail; then ask for the peer's card unless its version is cached.
BeginForward(h) ==
  LET a == At(h)
  IN  /\ Goto(h, "arrived", IF cache[a] = "unknown" THEN "looking" ELSE "posting")
      /\ ShouldForward(h)
      /\ log' = [log EXCEPT ![a] = Append(Logged(h), <<h, "forwarded">>)]
      /\ cut' = CutBy(h)
      /\ version' = [version EXCEPT ![h] = IF cache[a] = "unknown" THEN "none" ELSE cache[a]]
      /\ carded' = IF cache[a] = "unknown" THEN carded ELSE carded \cup {h}
      /\ UNCHANGED <<mode, cache, origin, said, text, resets>>

\* _peer_is_legacy: the card is read and its version kept ...
LookupOk(h) ==
  LET v == CardVersion(mode[Peer(At(h))])
  IN  /\ Goto(h, "looking", "posting")
      /\ version' = [version EXCEPT ![h] = v]
      /\ cache' = [cache EXCEPT ![At(h)] = v]
      /\ carded' = carded \cup {h}
      /\ UNCHANGED <<mode, log, origin, said, text, cut, resets>>

\* ... or neither path of the card answers and the agent's own mode serves.
LookupFails(h) ==
  /\ Goto(h, "looking", "posting")
  /\ version' = [version EXCEPT ![h] = OwnVersion(mode[At(h)])]
  /\ UNCHANGED <<mode, cache, log, origin, said, text, carded, cut, resets>>

\* The POST of a forward has not reached the peer.
InFlight(h) == pc[h] = "posting" /\ h[2] < MaxHops /\ pc[After(h)] = "none"

\* The peer takes the forwarded text as a message of its own.
Deliver(h) ==
  /\ InFlight(h) /\ Accepts(mode[Peer(At(h))], version[h])
  /\ Goto(After(h), "none", "arrived")
  /\ text' = [text EXCEPT ![After(h)] = ExtractForwardText(h)]
  /\ UNCHANGED <<mode, cache, log, origin, said, version, carded, cut, resets>>

\* The peer has no route for the request: raise_for_status raises.
Reject(h) ==
  /\ InFlight(h) /\ ~Accepts(mode[Peer(At(h))], version[h])
  /\ Goto(h, "posting", "rejected")
  /\ UNCHANGED <<mode, cache, log, origin, said, text, version, carded, cut, resets>>

\* The peer's answer, or its JSON-RPC error, becomes the reply.
GetReply(h) ==
  /\ Goto(h, "posting", "replied")
  /\ h[2] < MaxHops /\ pc[After(h)] \in Over \ {"lost"}
  /\ UNCHANGED <<mode, cache, log, origin, said, text, version, carded, cut, resets>>

\* No PEER_AGENT_URL, no connection, an HTTP error, or no answer in 30 s; in
\* the last case the peer goes on with what it received.
ForwardFails(h) ==
  /\ \E from \in {"looking", "posting"} : Goto(h, from, "failed")
  /\ UNCHANGED <<mode, cache, log, origin, said, text, version, carded, cut, resets>>

\* DELETE /incoming.
ClearIncoming(a) ==
  /\ resets < MaxResets
  /\ resets' = resets + 1
  /\ log' = [log EXCEPT ![a] = <<>>]
  /\ cut' = cut \cup {a}
  /\ UNCHANGED <<mode, cache, origin, said, text, pc, version, carded>>

\* An agent is restarted, in either mode: what it did and kept is lost.
Restart(a, m) ==
  /\ resets < MaxResets
  /\ resets' = resets + 1
  /\ mode' = [mode EXCEPT ![a] = m]
  /\ cache' = [cache EXCEPT ![a] = "unknown"]
  /\ log' = [log EXCEPT ![a] = <<>>]
  /\ cut' = cut \cup {a}
  /\ pc' = [h \in Hops |-> IF At(h) = a /\ pc[h] \notin {"none"} \cup Over
                           THEN "lost" ELSE pc[h]]
  /\ UNCHANGED <<origin, said, text, version, carded>>

HopStep(h) ==
  \/ Answer(h) \/ BeginForward(h) \/ LookupOk(h) \/ LookupFails(h)
  \/ Deliver(h) \/ Reject(h) \/ GetReply(h) \/ ForwardFails(h)

Next ==
  \/ \E c \in Chats, a \in Agents : \E t \in Texts[c] : Chat(c, a, t)
  \/ \E h \in Hops : HopStep(h)
  \/ \E a \in Agents : ClearIncoming(a)
  \/ \E a \in Agents, m \in {"legacy", "native"} : Restart(a, m)

Spec == Init /\ [][Next]_vars

-----------------------------------------------------------------------------
(* Properties.                                                             *)

\* execute drops at most one entry of INCOMING_LOG, and a forward adds two:
\* a log that is at its cap grows by forwards, and by nothing else.
OnlyForwardsOutgrowTheLog ==
  [][ \A a \in Agents :
        (Len(log[a]) >= LogCap /\ Len(log'[a]) > Len(log[a]))
          => Last(log'[a])[2] = "forwarded" ]_vars

\* "Log the outbound forward (even if it fails)": whatever became of a
\* forward, and before the peer sees it, it is in the log of its agent, if
\* that was not trimmed, cleared or lost.
ForwardsAreLogged ==
  \A h \in Hops :
    (At(h) \notin cut /\ (pc[h] \in {"looking", "posting", "failed", "rejected"}
                          \/ (h[2] < MaxHops /\ pc[After(h)] # "none")))
      => \E i \in DOMAIN log[At(h)] : log[At(h)][i] = <<h, "forwarded">>

\* The version of the peer is kept for good and the peer may be restarted in
\* the other mode: it still accepts the version of any card it ever had.
StaleVersionIsAccepted == \A h \in carded : pc[h] # "rejected"

\* A text whose names all come under directives is forwarded on and on only
\* by losing words, so a chain of forwards between the agents ends.
ForwardedTextsShrink ==
  \A h \in Hops :
    (/\ h[2] + 1 < MaxHops /\ pc[After(After(h))] # "none"
     /\ \A i \in text[h] : Says(h, i).who # Nobody => Says(h, i).how \in Directives)
      => text[After(h)] \subseteq text[h] /\ text[After(h)] # text[h]
=============================================================================
