------------------------- MODULE SecureAgentsProofs -------------------------
(***************************************************************************)
(* Proofs about SecureAgents: for any chats, texts and cap of the log, a   *)
(* version read from a card is never refused, every forward is logged,     *)
(* only forwards make a full log longer, and forwarded texts lose words.   *)
(***************************************************************************)
EXTENDS SecureAgents, WellFoundedInduction, TLAPS

\* A chat begins at its first hop.
ChainInv == \A h \in Hops : pc[h] # "none" => pc[<<h[1], 1>>] # "none"

\* Every card lists 1.0, so every version read from one is 1.0.
CardInv ==
  /\ \A a \in Agents : cache[a] # "v03"
  /\ \A h \in carded : version[h] = "v1" /\ pc[h] \notin {"none", "arrived", "looking", "rejected"}

\* What is known of a hop at the agent that handles it.
Forwarded(h) ==
  \/ pc[h] \in {"looking", "posting", "failed", "rejected"}
  \/ h[2] < MaxHops /\ pc[After(h)] # "none"
Has(s, f) == \E i \in DOMAIN s : s[i] = f
HasForward(h) == Has(log[At(h)], <<h, "forwarded">>)
LogInv == \A h \in Hops : At(h) \notin cut /\ Forwarded(h) => HasForward(h)

\* The agents are each other's peer, and the hops of a chat are its agents'.
LEMMA AtType ==
  ASSUME TypeOK, NEW h \in Hops
  PROVE  At(h) \in Agents /\ Peer(At(h)) \in Agents
BY DEF TypeOK, Hops, At, Peer, Agents

\* The next hop is a hop of the same chat.
LEMMA AfterType ==
  ASSUME NEW h \in Hops, h[2] < MaxHops
  PROVE  After(h) \in Hops /\ After(h) # h
BY BoundsAssumption DEF Hops, After

\* Two hops are not followed by the same hop.
LEMMA AfterDiffers ==
  ASSUME NEW g \in Hops, NEW h \in Hops, g # h
  PROVE  After(g) # After(h)
<1>1. /\ g = <<g[1], g[2]>> /\ g[2] \in Int
      /\ h = <<h[1], h[2]>> /\ h[2] \in Int
  BY BoundsAssumption DEF Hops
<1>2. ASSUME g[1] = h[1], g[2] + 1 = h[2] + 1 PROVE g = h
  <2>1. g[2] = h[2]
    BY <1>1, <1>2
  <2> QED BY ONLY <1>1, <1>2, <2>1
<1> QED BY <1>2 DEF After

\* A text is forwarded as a part of itself.
LEMMA ExtractKeepsWords == ASSUME NEW h PROVE ExtractForwardText(h) \subseteq text[h]
BY DEF ExtractForwardText, FollowsAny, LeadsAll

\* Logging a message keeps the log's type, and lengthens only a log that is
\* below the cap.
LEMMA LoggedType ==
  ASSUME TypeOK, NEW h \in Hops
  PROVE  /\ Logged(h) \in Seq(Hops \X Sources)
         /\ Len(log[At(h)]) >= LogCap => Len(Logged(h)) = Len(log[At(h)])
         /\ Len(log[At(h)]) < LogCap => Logged(h) = Append(log[At(h)], <<h, Source(h)>>)
<1> DEFINE longer == Append(log[At(h)], <<h, Source(h)>>)
<1>1. log[At(h)] \in Seq(Hops \X Sources)
  BY AtType DEF TypeOK
<1>2. <<h, Source(h)>> \in Hops \X Sources
  BY DEF Source, Sources
<1>3. /\ longer \in Seq(Hops \X Sources)
      /\ Len(longer) = Len(log[At(h)]) + 1
  BY <1>1, <1>2
<1>4. /\ Tail(longer) \in Seq(Hops \X Sources)
      /\ Len(Tail(longer)) = Len(longer) - 1
  BY <1>1, <1>3
<1>5. Logged(h) = IF Len(longer) > LogCap THEN Tail(longer) ELSE longer
  BY DEF Logged
<1> HIDE DEF longer
<1>6. Len(log[At(h)]) \in Nat /\ LogCap \in Nat
  BY <1>1, BoundsAssumption
<1>7. /\ Logged(h) \in Seq(Hops \X Sources)
      /\ Len(log[At(h)]) >= LogCap => Len(Logged(h)) = Len(log[At(h)])
      /\ Len(log[At(h)]) < LogCap => Logged(h) = longer
  BY <1>3, <1>4, <1>5, <1>6
<1> QED
  BY <1>7 DEF longer

-----------------------------------------------------------------------------
(* Types. *)

\* The initial states are well typed.
LEMMA InitTypes == Init => TypeOK
BY BoundsAssumption DEF Init, TypeOK, Agents, Over

\* Every step keeps the types.
LEMMA StepTypes == TypeOK /\ [Next]_vars => TypeOK'
<1> SUFFICES ASSUME TypeOK, [Next]_vars PROVE TypeOK'
  OBVIOUS
<1>1. ASSUME NEW c \in Chats, NEW a \in Agents, NEW t \in Texts[c], Chat(c, a, t)
      PROVE  TypeOK'
  <2>1. t \in Seq(Word)
    BY TextsAssumption
  <2>2. DOMAIN t \subseteq Nat /\ <<c, 1>> \in Hops
    BY <2>1, BoundsAssumption DEF Hops
  <2>3. /\ pc' \in [Hops -> {"none", "arrived", "looking", "posting"} \cup Over]
        /\ origin' \in [Chats -> Agents]
    BY <1>1, <2>2 DEF Chat, Goto, TypeOK
  <2>4. said' \in [Chats -> Seq(Word)]
    BY <1>1, <2>1 DEF Chat, TypeOK
  <2>5. text' \in [Hops -> SUBSET Nat]
    BY <1>1, <2>2 DEF Chat, TypeOK
  <2> QED BY <1>1, <2>3, <2>4, <2>5 DEF Chat, TypeOK
<1>2. ASSUME NEW h \in Hops, HopStep(h) PROVE TypeOK'
  <2>0. At(h) \in Agents /\ Peer(At(h)) \in Agents
    BY AtType
  <2>1. CASE Answer(h)
    BY <2>0, <2>1, LoggedType DEF Answer, Goto, CutBy, TypeOK, Over
  <2>2. CASE BeginForward(h)
    <3>1. Append(Logged(h), <<h, "forwarded">>) \in Seq(Hops \X Sources)
      BY LoggedType DEF Sources
    <3> QED
      BY <2>0, <2>2, <3>1 DEF BeginForward, Goto, CutBy, TypeOK
  <2>3. CASE LookupOk(h)
    BY <2>0, <2>3 DEF LookupOk, Goto, CardVersion, TypeOK
  <2>4. CASE LookupFails(h)
    BY <2>0, <2>4 DEF LookupFails, Goto, OwnVersion, TypeOK
  <2>5. CASE Deliver(h)
    <3>1. After(h) \in Hops
      BY <2>5, AfterType DEF Deliver, InFlight
    <3>2. ExtractForwardText(h) \in SUBSET Nat
      BY ExtractKeepsWords DEF TypeOK
    <3>3. text' \in [Hops -> SUBSET Nat]
      BY <2>5, <3>1, <3>2 DEF Deliver, TypeOK
    <3> QED BY <2>5, <3>1, <3>3 DEF Deliver, InFlight, Goto, TypeOK
  <2>6. CASE Reject(h)
    BY <2>6 DEF Reject, Goto, TypeOK, Over
  <2>7. CASE GetReply(h)
    BY <2>7 DEF GetReply, Goto, TypeOK, Over
  <2>8. CASE ForwardFails(h)
    BY <2>8 DEF ForwardFails, Goto, TypeOK, Over
  <2> QED
    BY <1>2, <2>1, <2>2, <2>3, <2>4, <2>5, <2>6, <2>7, <2>8 DEF HopStep
<1>3. ASSUME NEW a \in Agents, ClearIncoming(a) PROVE TypeOK'
  BY <1>3, BoundsAssumption DEF ClearIncoming, TypeOK
<1>4. ASSUME NEW a \in Agents, NEW m \in {"legacy", "native"}, Restart(a, m) PROVE TypeOK'
  BY <1>4, BoundsAssumption DEF Restart, TypeOK, Over
<1>5. CASE UNCHANGED vars
  BY <1>5 DEF vars, TypeOK
<1> QED
  BY <1>1, <1>2, <1>3, <1>4, <1>5 DEF Next

\* The state is well typed in every reachable state.
THEOREM TypeCorrect == Spec => []TypeOK
BY InitTypes, StepTypes, PTL DEF Spec

-----------------------------------------------------------------------------
(* Versions. *)

\* A card lists 1.0 whatever the mode of its agent, and every agent takes it.
LEMMA CardsListV1 == ASSUME NEW m \in {"legacy", "native"} PROVE CardVersion(m) = "v1"
BY DEF CardVersion, CardVersions

\* Every step keeps CardInv.
LEMMA StepCards == TypeOK /\ CardInv /\ [Next]_vars => CardInv'
<1> SUFFICES ASSUME TypeOK, CardInv, [Next]_vars PROVE CardInv'
  OBVIOUS
<1> USE DEF TypeOK
<1>1. ASSUME NEW c \in Chats, NEW a \in Agents, NEW t \in Texts[c], Chat(c, a, t)
      PROVE  CardInv'
  BY <1>1 DEF Chat, Goto, CardInv
<1>2. ASSUME NEW h \in Hops, HopStep(h) PROVE CardInv'
  <2>0. At(h) \in Agents /\ Peer(At(h)) \in Agents
    BY AtType
  <2>1. CASE Answer(h)
    BY <2>1 DEF Answer, Goto, CardInv
  <2>2. CASE BeginForward(h)
    <3>1. CASE cache[At(h)] = "unknown"
      BY <2>0, <2>2, <3>1 DEF BeginForward, Goto, CardInv
    <3>2. CASE cache[At(h)] = "v1"
      BY <2>0, <2>2, <3>2 DEF BeginForward, Goto, CardInv
    <3> QED BY <2>0, <3>1, <3>2 DEF CardInv
  <2>3. CASE LookupOk(h)
    <3>1. CardVersion(mode[Peer(At(h))]) = "v1"
      BY <2>0, CardsListV1
    <3> QED
      BY <2>0, <2>3, <3>1 DEF LookupOk, Goto, CardInv
  <2>4. CASE LookupFails(h)
    BY <2>4 DEF LookupFails, Goto, CardInv
  <2>5. CASE Deliver(h)
    BY <2>5, AfterType DEF Deliver, InFlight, Goto, CardInv
  <2>6. CASE Reject(h)
    BY <2>0, <2>6 DEF Reject, Accepts, Goto, CardInv
  <2>7. CASE GetReply(h)
    BY <2>7 DEF GetReply, Goto, CardInv
  <2>8. CASE ForwardFails(h)
    BY <2>8 DEF ForwardFails, Goto, CardInv
  <2> QED
    BY <1>2, <2>1, <2>2, <2>3, <2>4, <2>5, <2>6, <2>7, <2>8 DEF HopStep
<1>3. ASSUME NEW a \in Agents, ClearIncoming(a) PROVE CardInv'
  BY <1>3 DEF ClearIncoming, CardInv
<1>4. ASSUME NEW a \in Agents, NEW m \in {"legacy", "native"}, Restart(a, m) PROVE CardInv'
  BY <1>4 DEF Restart, CardInv
<1>5. CASE UNCHANGED vars
  BY <1>5 DEF vars, CardInv
<1> QED
  BY <1>1, <1>2, <1>3, <1>4, <1>5 DEF Next

\* A forward in a version that was ever read from the peer's card is not
\* refused, however often the peer has been restarted in the other mode.
THEOREM CardVersionsHold == Spec => []StaleVersionIsAccepted
<1>1. Init => CardInv
  BY DEF Init, CardInv
<1>2. CardInv => StaleVersionIsAccepted
  BY DEF CardInv, StaleVersionIsAccepted
<1> QED
  BY <1>1, <1>2, TypeCorrect, StepCards, PTL DEF Spec

-----------------------------------------------------------------------------
(* The log. *)

\* Every step that is not a restart leads a hop on, and keeps ChainInv.
LEMMA StepChain == TypeOK /\ ChainInv /\ [Next]_vars => ChainInv'
<1> SUFFICES ASSUME TypeOK, ChainInv, [Next]_vars PROVE ChainInv'
  OBVIOUS
<1> USE DEF TypeOK
<1>0. \A h \in Hops : <<h[1], 1>> \in Hops
  BY BoundsAssumption DEF Hops
<1>1. ASSUME NEW c \in Chats, NEW a \in Agents, NEW t \in Texts[c], Chat(c, a, t)
      PROVE  ChainInv'
  BY <1>0, <1>1 DEF Chat, Goto, ChainInv
<1>2. ASSUME NEW h \in Hops, HopStep(h) PROVE ChainInv'
  <2>1. CASE Deliver(h)
    <3>1. After(h) \in Hops /\ After(h)[1] = h[1]
      BY <2>1, AfterType DEF Deliver, InFlight, After
    <3> QED
      BY <1>0, <2>1, <3>1 DEF Deliver, InFlight, Goto, ChainInv
  <2>2. CASE Answer(h) \/ BeginForward(h) \/ LookupOk(h) \/ LookupFails(h)
    BY <1>0, <2>2 DEF Answer, BeginForward, LookupOk, LookupFails, Goto, ChainInv
  <2>3. CASE Reject(h) \/ GetReply(h) \/ ForwardFails(h)
    BY <1>0, <2>3 DEF Reject, GetReply, ForwardFails, Goto, ChainInv
  <2> QED
    BY <1>2, <2>1, <2>2, <2>3 DEF HopStep
<1>3. ASSUME NEW a \in Agents, ClearIncoming(a) PROVE ChainInv'
  BY <1>3 DEF ClearIncoming, ChainInv
<1>4. ASSUME NEW a \in Agents, NEW m \in {"legacy", "native"}, Restart(a, m) PROVE ChainInv'
  BY <1>0, <1>4 DEF Restart, ChainInv
<1>5. CASE UNCHANGED vars
  BY <1>5 DEF vars, ChainInv
<1> QED
  BY <1>1, <1>2, <1>3, <1>4, <1>5 DEF Next

\* Appending to a log keeps what it has.
LEMMA AppendKeeps ==
  ASSUME NEW s \in Seq(Hops \X Sources), NEW e \in Hops \X Sources,
         NEW f, Has(s, f)
  PROVE  Has(Append(s, e), f)
BY DEF Has

\* ... and ends it with what was appended.
LEMMA AppendHas ==
  ASSUME NEW s \in Seq(Hops \X Sources), NEW e \in Hops \X Sources
  PROVE  Has(Append(s, e), e)
<1>1. Len(s) + 1 \in DOMAIN Append(s, e) /\ Append(s, e)[Len(s) + 1] = e
  OBVIOUS
<1> QED BY <1>1 DEF Has

\* Logging the message of h keeps every entry of a log that is not cut by it.
LEMMA LoggedKeeps ==
  ASSUME TypeOK, NEW h \in Hops, NEW f, At(h) \notin CutBy(h), Has(log[At(h)], f)
  PROVE  Has(Logged(h), f)
<1>1. log[At(h)] \in Seq(Hops \X Sources) /\ <<h, Source(h)>> \in Hops \X Sources
  BY AtType DEF TypeOK, Source, Sources
<1>2. Logged(h) = Append(log[At(h)], <<h, Source(h)>>)
  <2>1. Len(log[At(h)]) < LogCap
    BY <1>1, BoundsAssumption DEF CutBy
  <2> QED BY <2>1, LoggedType
<1> QED BY <1>1, <1>2, AppendKeeps

\* A step that forwards nothing new, and neither cuts nor changes a log.
LEMMA LogUnchanged ==
  ASSUME LogInv, UNCHANGED <<log, origin>>, cut \subseteq cut',
         \A g \in Hops : At(g) \notin cut' /\ Forwarded(g)' => Forwarded(g)
  PROVE  LogInv'
BY DEF LogInv, HasForward, At

\* Every step keeps LogInv.
LEMMA StepLog == TypeOK /\ ChainInv /\ LogInv /\ [Next]_vars => LogInv'
<1> SUFFICES ASSUME TypeOK, ChainInv, LogInv, [Next]_vars PROVE LogInv'
  OBVIOUS
<1> USE DEF TypeOK
<1>0. \A g \in Hops : g[2] < MaxHops => After(g) \in Hops
  BY AfterType
<1>1. ASSUME NEW c \in Chats, NEW a \in Agents, NEW t \in Texts[c], Chat(c, a, t)
      PROVE  LogInv'
  <2> SUFFICES ASSUME NEW g \in Hops, (At(g) \notin cut)', Forwarded(g)'
               PROVE  HasForward(g)'
    BY DEF LogInv
  <2>1. <<c, 1>> \in Hops /\ pc[<<c, 1>>] = "none"
    BY <1>1, BoundsAssumption DEF Chat, Goto, Hops
  <2>2. g[1] # c
    <3>1. g[1] = c => pc[g] = "none" /\ (g[2] < MaxHops => pc[After(g)] = "none")
      BY <1>0, <2>1 DEF ChainInv, After
    <3>2. g[2] < MaxHops => After(g) # <<c, 1>>
      BY DEF After, Hops
    <3> QED BY <1>0, <1>1, <2>1, <3>1, <3>2 DEF Chat, Goto, Forwarded, After
  <2>3. At(g)' = At(g)
    BY <1>1, <2>2 DEF Chat, At, Hops
  <2>4. Forwarded(g)
    BY <1>0, <1>1, <2>2 DEF Chat, Goto, Forwarded, After
  <2> QED
    BY <1>1, <2>3, <2>4 DEF Chat, LogInv, HasForward
<1>2. ASSUME NEW h \in Hops, HopStep(h) PROVE LogInv'
  <2>1. CASE Answer(h) \/ BeginForward(h)
    <3>1. /\ pc[h] = "arrived" /\ origin' = origin /\ cut' = CutBy(h)
          /\ \A g \in Hops : g # h => pc'[g] = pc[g]
          /\ pc'[h] # "none"
      BY <2>1 DEF Answer, BeginForward, Goto
    <3>2. /\ \A a \in Agents : a # At(h) => log'[a] = log[a]
          /\ Answer(h) => log'[At(h)] = Logged(h) /\ pc'[h] = "replied"
          /\ BeginForward(h) => log'[At(h)] = Append(Logged(h), <<h, "forwarded">>)
      BY <2>1, AtType DEF Answer, BeginForward, Goto
    <3>3. Logged(h) \in Seq(Hops \X Sources) /\ <<h, "forwarded">> \in Hops \X Sources
      BY LoggedType DEF Sources
    <3> SUFFICES ASSUME NEW g \in Hops, At(g) \notin cut', Forwarded(g)'
                 PROVE  HasForward(g)'
      BY <3>1 DEF LogInv, At
    <3>4. At(g)' = At(g) /\ At(g) \in Agents
      BY <3>1, AtType DEF At
    <3>5. CASE g = h /\ BeginForward(h)
      <4>1. Has(Append(Logged(h), <<h, "forwarded">>), <<h, "forwarded">>)
        BY <3>3, AppendHas
      <4> QED
        BY <3>2, <3>4, <3>5, <4>1 DEF HasForward
    <3>6. CASE ~(g = h /\ BeginForward(h))
      <4>1. Forwarded(g)
        BY <1>0, <2>1, <3>1, <3>2, <3>6 DEF Forwarded, After
      <4>2. At(g) \notin cut
        BY <3>1 DEF CutBy
      <4>3. Has(log[At(g)], <<g, "forwarded">>)
        BY <4>1, <4>2 DEF LogInv, HasForward
      <4>4. CASE At(g) # At(h)
        BY <3>2, <3>4, <4>3, <4>4 DEF HasForward
      <4>5. CASE At(g) = At(h)
        <5>1. Has(Logged(h), <<g, "forwarded">>)
          BY <3>1, <4>3, <4>5, LoggedKeeps
        <5>2. Has(Append(Logged(h), <<h, "forwarded">>), <<g, "forwarded">>)
          BY <3>3, <5>1, AppendKeeps
        <5> QED
          BY <2>1, <3>2, <3>4, <4>5, <5>1, <5>2 DEF HasForward
      <4> QED BY <4>4, <4>5
    <3> QED BY <3>5, <3>6
  <2>2. CASE Deliver(h)
    <3>1. \A g \in Hops : Forwarded(g)' => Forwarded(g)
      <4> SUFFICES ASSUME NEW g \in Hops, Forwarded(g)' PROVE Forwarded(g)
        OBVIOUS
      <4>1. CASE g = h
        BY <2>2, <4>1 DEF Deliver, InFlight, Forwarded
      <4>2. CASE g # h
        <5>1. After(g) # After(h)
          BY <4>2, AfterDiffers
        <5>2. /\ \A k \in Hops : k # After(h) => pc'[k] = pc[k]
              /\ pc'[After(h)] = "arrived" /\ After(h) \in Hops
          BY <1>0, <2>2 DEF Deliver, InFlight, Goto
        <5> QED
          BY <1>0, <5>1, <5>2 DEF Forwarded, After
      <4> QED BY <4>1, <4>2
    <3> QED
      BY <2>2, <3>1, LogUnchanged DEF Deliver
  <2>3. CASE LookupOk(h) \/ LookupFails(h) \/ Reject(h) \/ GetReply(h) \/ ForwardFails(h)
    <3>1. /\ UNCHANGED <<log, origin, cut>>
          /\ \A g \in Hops : g # h => pc'[g] = pc[g]
          /\ pc[h] \in {"looking", "posting"} /\ pc'[h] # "none"
      BY <2>3 DEF LookupOk, LookupFails, Reject, GetReply, ForwardFails, Goto, InFlight
    <3>2. \A g \in Hops : Forwarded(g)' => Forwarded(g)
      BY <1>0, <3>1 DEF Forwarded, After
    <3> QED
      BY <3>1, <3>2, LogUnchanged
  <2> QED
    BY <1>2, <2>1, <2>2, <2>3 DEF HopStep
<1>3. ASSUME NEW a \in Agents, ClearIncoming(a) PROVE LogInv'
  BY <1>3, AtType DEF ClearIncoming, LogInv, Forwarded, HasForward, At, After
<1>4. ASSUME NEW a \in Agents, NEW m \in {"legacy", "native"}, Restart(a, m) PROVE LogInv'
  <2> SUFFICES ASSUME NEW g \in Hops, At(g) \notin cut', Forwarded(g)' PROVE HasForward(g)'
    BY <1>4 DEF Restart, LogInv, At
  <2>1. At(g)' = At(g) /\ At(g) # a /\ At(g) \notin cut /\ At(g) \in Agents
    BY <1>4, AtType DEF Restart, At
  <2>2. Forwarded(g)
    BY <1>0, <1>4, <2>1 DEF Restart, Forwarded, After
  <2> QED
    BY <1>4, <2>1, <2>2 DEF Restart, LogInv, HasForward
<1>5. CASE UNCHANGED vars
  BY <1>5 DEF vars, LogInv, Forwarded, HasForward, At, After
<1> QED
  BY <1>1, <1>2, <1>3, <1>4, <1>5 DEF Next

\* Whatever becomes of a forward, its agent has logged it before the peer
\* sees it, and keeps it until its log is trimmed, cleared or lost.
THEOREM ForwardsLogged == Spec => []ForwardsAreLogged
<1>1. Init => ChainInv /\ LogInv
  BY AfterType DEF Init, ChainInv, LogInv, Forwarded
<1>2. LogInv => ForwardsAreLogged
  BY DEF LogInv, ForwardsAreLogged, Forwarded, HasForward, Has
<1> QED
  BY <1>1, <1>2, TypeCorrect, StepChain, StepLog, PTL DEF Spec

\* A full log is made longer by forwards, one entry each, and by nothing else.
THEOREM FullLogsGrowByForwards == Spec => OnlyForwardsOutgrowTheLog
<1>1. ASSUME TypeOK, [Next]_vars, NEW a \in Agents,
             Len(log[a]) >= LogCap, Len(log'[a]) > Len(log[a])
      PROVE  Last(log'[a])[2] = "forwarded"
  <2> USE DEF TypeOK
  <2>0. Len(log[a]) \in Nat /\ log[a] \in Seq(Hops \X Sources)
    BY <1>1
  <2>1. PICK h \in Hops : Answer(h) \/ BeginForward(h)
    <3>1. log' # log /\ ~(log'[a] = <<>>)
      BY <1>1, <2>0
    <3>2. ASSUME NEW b \in Agents, log' = [log EXCEPT ![b] = <<>>] PROVE FALSE
      BY <1>1, <2>0, <3>1, <3>2
    <3>3. \A b \in Agents, m \in {"legacy", "native"} : ~ClearIncoming(b) /\ ~Restart(b, m)
      BY <3>2 DEF ClearIncoming, Restart
    <3>4. \A c \in Chats, b \in Agents : \A t \in Texts[c] : ~Chat(c, b, t)
      BY <3>1 DEF Chat
    <3>5. PICK h \in Hops : HopStep(h)
      BY <1>1, <3>1, <3>3, <3>4 DEF Next, vars
    <3> QED
      BY <3>1, <3>5 DEF HopStep, LookupOk, LookupFails, Deliver, Reject, GetReply, ForwardFails
  <2>2. a = At(h)
    BY <1>1, <2>0, <2>1 DEF Answer, BeginForward
  <2>3. Len(Logged(h)) = Len(log[a]) /\ Logged(h) \in Seq(Hops \X Sources)
    BY <1>1, <2>2, LoggedType
  <2>4. BeginForward(h)
    BY <1>1, <2>0, <2>1, <2>2, <2>3 DEF Answer
  <2>5. log'[a] = Append(Logged(h), <<h, "forwarded">>)
    BY <1>1, <2>2, <2>4 DEF BeginForward
  <2>6. Last(log'[a]) = <<h, "forwarded">>
    BY <2>3, <2>5 DEF Last
  <2> QED BY <2>6
<1>2. TypeOK /\ [Next]_vars
        => [\A a \in Agents :
              (Len(log[a]) >= LogCap /\ Len(log'[a]) > Len(log[a]))
                => Last(log'[a])[2] = "forwarded"]_vars
  BY <1>1
<1> QED
  BY <1>2, TypeCorrect, PTL DEF Spec, OnlyForwardsOutgrowTheLog

-----------------------------------------------------------------------------
(* Texts. *)

\* A hop that is forwarded was to be, and the next has what was extracted of
\* its text.
TextAt(h) ==
  /\ Forwarded(h) => pc[h] # "none" /\ ShouldForward(h)
  /\ h[2] < MaxHops /\ pc[After(h)] # "none" => text[After(h)] = ExtractForwardText(h)
TextInv == \A h \in Hops : TextAt(h)

\* What is read in a text depends on the text and on whose agents they are.
LEMMA ReadingStays ==
  ASSUME NEW h, text'[h] = text[h], said'[h[1]] = said[h[1]], origin'[h[1]] = origin[h[1]]
  PROVE  ShouldForward(h)' = ShouldForward(h) /\ ExtractForwardText(h)' = ExtractForwardText(h)
<1>1. At(h)' = At(h)
  BY DEF At
<1>2. StartsWithPeer(h)' = StartsWithPeer(h)
  BY <1>1 DEF StartsWithPeer, Says
<1>3. ShouldForward(h)' = ShouldForward(h)
  BY <1>1, <1>2 DEF ShouldForward, Says
<1>4. ExtractForwardText(h)' = ExtractForwardText(h)
  BY <1>1, <1>2 DEF ExtractForwardText, FollowsAny, LeadsAll, Under, Says
<1> QED BY <1>3, <1>4

\* A hop that a step leaves alone, with the next one.
LEMMA TextStays ==
  ASSUME NEW h \in Hops, TextAt(h),
         text'[h] = text[h], said'[h[1]] = said[h[1]], origin'[h[1]] = origin[h[1]],
         Forwarded(h)' => Forwarded(h) /\ pc'[h] # "none",
         h[2] < MaxHops /\ pc'[After(h)] # "none" =>
           pc[After(h)] # "none" /\ text'[After(h)] = text[After(h)]
  PROVE  TextAt(h)'
<1>1. ShouldForward(h)' = ShouldForward(h) /\ ExtractForwardText(h)' = ExtractForwardText(h)
  BY ReadingStays
<1>2. (Forwarded(h) => pc[h] # "none" /\ ShouldForward(h))'
  BY <1>1 DEF TextAt
<1>3. (h[2] < MaxHops /\ pc[After(h)] # "none" => text[After(h)] = ExtractForwardText(h))'
  <2>1. After(h)' = After(h)
    BY DEF After
  <2> QED BY <1>1, <2>1 DEF TextAt
<1> QED BY <1>2, <1>3 DEF TextAt

\* Every step keeps TextInv.
LEMMA StepTexts == TypeOK /\ ChainInv /\ TextInv /\ [Next]_vars => TextInv'
<1> SUFFICES ASSUME TypeOK, ChainInv, TextInv, [Next]_vars, NEW g \in Hops PROVE TextAt(g)'
  BY DEF TextInv
<1>0. /\ TextAt(g) /\ g[1] \in Chats /\ (g[2] < MaxHops => After(g) \in Hops)
      /\ pc \in [Hops -> {"none", "arrived", "looking", "posting"} \cup Over]
      /\ said \in [Chats -> Seq(Word)] /\ text \in [Hops -> SUBSET Nat] /\ origin \in [Chats -> Agents]
  BY AfterType DEF TypeOK, TextInv, Hops
<1>1. ASSUME NEW c \in Chats, NEW a \in Agents, NEW t \in Texts[c], Chat(c, a, t)
      PROVE  TextAt(g)'
  <2>0. /\ <<c, 1>> \in Hops /\ pc[<<c, 1>>] = "none"
        /\ pc' = [pc EXCEPT ![<<c, 1>>] = "arrived"]
        /\ text' = [text EXCEPT ![<<c, 1>>] = DOMAIN t]
        /\ said' = [said EXCEPT ![c] = t] /\ origin' = [origin EXCEPT ![c] = a]
    BY <1>1, BoundsAssumption DEF Chat, Goto, Hops
  <2>1. After(g) # <<c, 1>>
    BY DEF After, Hops
  <2>2. CASE g[1] = c
    <3>1. pc[g] = "none" /\ (g[2] < MaxHops => pc[After(g)] = "none")
      BY <1>0, <2>0, <2>2 DEF ChainInv, After
    <3>2. pc'[g] \in {"none", "arrived"} /\ (g[2] < MaxHops => pc'[After(g)] = "none")
      BY <1>0, <2>0, <2>1, <3>1
    <3> QED BY <3>2 DEF TextAt, Forwarded, After
  <2>3. CASE g[1] # c
    <3>1. /\ pc'[g] = pc[g] /\ text'[g] = text[g]
          /\ said'[g[1]] = said[g[1]] /\ origin'[g[1]] = origin[g[1]]
          /\ g[2] < MaxHops => pc'[After(g)] = pc[After(g)] /\ text'[After(g)] = text[After(g)]
      BY <1>0, <2>0, <2>1, <2>3
    <3> QED BY <1>0, <3>1, TextStays DEF Forwarded, After, TextAt
  <2> QED BY <2>2, <2>3
<1>2. ASSUME NEW h \in Hops, HopStep(h) PROVE TextAt(g)'
  <2>1. CASE Deliver(h)
    <3>0. /\ After(h) \in Hops /\ After(h) # h /\ h[2] < MaxHops /\ pc[h] = "posting" /\ pc[After(h)] = "none"
          /\ pc' = [pc EXCEPT ![After(h)] = "arrived"]
          /\ text' = [text EXCEPT ![After(h)] = ExtractForwardText(h)]
          /\ UNCHANGED <<said, origin>>
      BY <2>1, AfterType DEF Deliver, InFlight, Goto
    <3>1. CASE g = h
      <4>1. text'[g] = text[g] /\ pc'[g] = "posting" /\ text'[After(g)] = ExtractForwardText(g)
        BY <1>0, <3>0, <3>1
      <4>2. Forwarded(g)
        BY <3>0, <3>1 DEF Forwarded
      <4>3. ShouldForward(g)' /\ ExtractForwardText(g)' = ExtractForwardText(g)
        BY <1>0, <3>0, <4>1, <4>2, ReadingStays DEF TextAt
      <4> QED BY <4>1, <4>3 DEF TextAt, After
    <3>2. CASE g = After(h)
      <4>1. pc[g] = "none" /\ ~Forwarded(g)
        BY <1>0, <3>0, <3>2 DEF TextAt
      <4>2. g[2] < MaxHops => pc'[After(g)] = "none"
        <5>1. g[2] < MaxHops => After(g) # After(h)
          BY <3>0, <3>2, AfterDiffers
        <5> QED BY <1>0, <3>0, <4>1, <5>1 DEF Forwarded
      <4>3. pc'[g] = "arrived"
        BY <1>0, <3>0, <3>2
      <4> QED BY <4>2, <4>3 DEF TextAt, Forwarded, After
    <3>3. CASE g # h /\ g # After(h)
      <4>1. After(g) # After(h)
        BY <3>3, AfterDiffers
      <4>2. /\ pc'[g] = pc[g] /\ text'[g] = text[g]
            /\ g[2] < MaxHops => pc'[After(g)] = pc[After(g)] /\ text'[After(g)] = text[After(g)]
        BY <1>0, <3>0, <3>3, <4>1
      <4> QED BY <1>0, <3>0, <4>2, TextStays DEF Forwarded, After, TextAt
    <3> QED BY <3>1, <3>2, <3>3
  <2>2. CASE BeginForward(h)
    <3>0. /\ UNCHANGED <<said, text, origin>> /\ ShouldForward(h)
          /\ pc' \in [Hops -> {pc[h], "none", "arrived", "looking", "posting"} \cup Over]
          /\ pc'[h] \in {"looking", "posting"} /\ pc[h] = "arrived"
          /\ \A k \in Hops : k # h => pc'[k] = pc[k]
      BY <1>0, <2>2 DEF BeginForward, Goto
    <3>1. ShouldForward(g)' = ShouldForward(g) /\ ExtractForwardText(g)' = ExtractForwardText(g)
      BY <3>0, ReadingStays
    <3>2. g[2] < MaxHops /\ pc'[After(g)] # "none" => pc[After(g)] # "none"
      BY <1>0, <3>0
    <3>3. CASE g = h
      BY <1>0, <3>0, <3>1, <3>2, <3>3 DEF TextAt, After
    <3>4. CASE g # h
      BY <1>0, <3>0, <3>2, <3>4, TextStays DEF TextAt, Forwarded, After
    <3> QED BY <3>3, <3>4
  <2>3. CASE Answer(h) \/ LookupOk(h) \/ LookupFails(h) \/ Reject(h) \/ GetReply(h) \/ ForwardFails(h)
    <3>0. /\ UNCHANGED <<said, text, origin>>
          /\ \A k \in Hops : k # h => pc'[k] = pc[k]
          /\ pc[h] \in {"arrived", "looking", "posting"} /\ pc'[h] # "none"
          /\ pc[h] = "arrived" => pc'[h] = "replied"
      BY <1>0, <2>3 DEF Answer, LookupOk, LookupFails, Reject, GetReply, ForwardFails, Goto, InFlight
    <3>1. g[2] < MaxHops /\ pc'[After(g)] # "none" => pc[After(g)] # "none"
      BY <1>0, <3>0
    <3>2. Forwarded(g)' => Forwarded(g) /\ pc'[g] # "none"
      <4>1. CASE g = h
        BY <3>0, <3>1, <4>1 DEF Forwarded, After
      <4>2. CASE g # h
        BY <1>0, <3>0, <3>1, <4>2 DEF Forwarded, After, TextAt
      <4> QED BY <4>1, <4>2
    <3> QED BY <1>0, <3>0, <3>1, <3>2, TextStays
  <2> QED BY <1>2, <2>1, <2>2, <2>3 DEF HopStep
<1>3. ASSUME NEW a \in Agents, ClearIncoming(a) PROVE TextAt(g)'
  BY <1>0, <1>3, TextStays DEF ClearIncoming, Forwarded, After, TextAt
<1>4. ASSUME NEW a \in Agents, NEW m \in {"legacy", "native"}, Restart(a, m) PROVE TextAt(g)'
  <2>1. /\ UNCHANGED <<said, text, origin>>
        /\ \A k \in Hops : pc'[k] = pc[k] \/ (pc[k] # "none" /\ pc'[k] = "lost")
    BY <1>0, <1>4 DEF Restart
  <2>2. pc'[g] = pc[g] \/ (pc[g] # "none" /\ pc'[g] = "lost")
    BY <2>1
  <2>3. g[2] < MaxHops /\ pc'[After(g)] # "none" => pc[After(g)] # "none"
    BY <1>0, <2>1
  <2>4. Forwarded(g)' => Forwarded(g) /\ pc'[g] # "none"
    BY <1>0, <2>2, <2>3 DEF Forwarded, After, TextAt
  <2> QED BY <1>0, <2>1, <2>3, <2>4, TextStays
<1>5. CASE UNCHANGED vars
  BY <1>0, <1>5, TextStays DEF vars, Forwarded, After, TextAt
<1> QED
  BY <1>1, <1>2, <1>3, <1>4, <1>5 DEF Next

\* A set of naturals has a least element.
LEMMA LeastWord ==
  ASSUME NEW S \in SUBSET Nat, S # {}
  PROVE  \E m \in S : \A i \in S : m <= i
<1>1. PICK m \in S : \A i \in S : ~(<<i, m>> \in OpToRel(<, Nat))
  BY NatLessThanWellFounded, WFMin
<1>2. \A i \in S : ~(i < m)
  BY <1>1 DEF OpToRel
<1> QED BY <1>2

\* What a forward extracts of a text whose names all come under directives is
\* less than it, unless every word is a directive to the peer.
LEMMA DirectivesAreStripped ==
  ASSUME TypeOK, NEW h \in Hops, ShouldForward(h), ExtractForwardText(h) = text[h],
         \A i \in text[h] : Says(h, i).who # Nobody => Says(h, i).how \in Directives
  PROVE  \A i \in text[h] : Says(h, i).who = Peer(At(h))
<1> DEFINE named == {i \in text[h] : Says(h, i).who = Peer(At(h))}
           told == FollowsAny(h, named \cap Under(h, "tell"))
           sent == FollowsAny(h, Under(h, "send"))
           quoted == LeadsAll(h, Under(h, "quote"))
           bare == text[h] \ {i \in named : Says(h, i).how \in Directives}
<1>0. text[h] \subseteq Nat /\ Peer(At(h)) # Nobody
  BY AtType, AgentsAssumption DEF TypeOK, Agents
<1>1. \/ told # {} /\ ExtractForwardText(h) = told
      \/ sent # {} /\ ExtractForwardText(h) = sent
      \/ quoted # {} /\ ExtractForwardText(h) = quoted
      \/ StartsWithPeer(h)
      \/ ExtractForwardText(h) = IF bare # {} THEN bare ELSE text[h]
  BY DEF ExtractForwardText
<1>2. ASSUME NEW found \in SUBSET text[h], found # {} PROVE FollowsAny(h, found) # text[h]
  <2>1. PICK m \in found : \A i \in found : m <= i
    BY <1>0, <1>2, LeastWord
  <2>2. m \in text[h] /\ m \notin FollowsAny(h, found)
    <3>1. \A i \in found : i \in Nat
      BY <1>0
    <3>2. \A i \in found : ~(i < m)
      BY <2>1, <3>1
    <3> QED BY <3>2 DEF FollowsAny
  <2> QED BY <2>2
<1>3. told # {} => told # text[h]
  <2>1. named \cap Under(h, "tell") \in SUBSET text[h]
    BY DEF Under
  <2>2. told # {} => named \cap Under(h, "tell") # {}
    BY DEF FollowsAny
  <2> QED BY <1>2, <2>1, <2>2
<1>4. sent # {} => sent # text[h]
  <2>1. Under(h, "send") \in SUBSET text[h]
    BY DEF Under
  <2>2. sent # {} => Under(h, "send") # {}
    BY DEF FollowsAny
  <2> QED BY <1>2, <2>1, <2>2
<1>5. quoted # {} => quoted # text[h]
  <2> SUFFICES ASSUME quoted # {} PROVE quoted # text[h]
    OBVIOUS
  <2>1. PICK i \in Under(h, "quote") : TRUE
    BY DEF LeadsAll
  <2>2. i \in text[h] /\ ~(i < i)
    BY <1>0, <2>1 DEF Under
  <2>3. i \notin quoted
    BY <2>1, <2>2 DEF LeadsAll
  <2> QED BY <2>2, <2>3
<1>6. ~StartsWithPeer(h)
  <2> SUFFICES ASSUME NEW i \in text[h], Says(h, i) = [who |-> Peer(At(h)), how |-> "name"] PROVE FALSE
    BY DEF StartsWithPeer
  <2>1. Says(h, i).who = Peer(At(h)) /\ Says(h, i).how = "name"
    OBVIOUS
  <2> QED BY <1>0, <2>1 DEF Directives
<1>7. bare # text[h]
  <2>1. PICK i \in text[h] : Says(h, i).who = Peer(At(h))
    BY DEF ShouldForward
  <2>2. Says(h, i).how \in Directives
    BY <1>0, <2>1
  <2> QED BY <2>1, <2>2
<1>8. bare = {}
  BY <1>1, <1>3, <1>4, <1>5, <1>6, <1>7
<1> QED BY <1>8

\* Forwarding ends: the second forward of a text whose names all come under
\* directives goes on with fewer words than it had.
THEOREM ForwardingEnds == Spec => []ForwardedTextsShrink
<1>1. Init => ChainInv /\ TextInv
  BY AfterType DEF Init, ChainInv, TextInv, TextAt, Forwarded
<1>2. TypeOK /\ TextInv => ForwardedTextsShrink
  <2> SUFFICES ASSUME TypeOK, TextInv, NEW h \in Hops, h[2] + 1 < MaxHops, pc[After(After(h))] # "none",
                      \A i \in text[h] : Says(h, i).who # Nobody => Says(h, i).how \in Directives
               PROVE  text[After(h)] \subseteq text[h] /\ text[After(h)] # text[h]
    BY DEF ForwardedTextsShrink
  <2>1. h[2] \in Nat /\ h[2] < MaxHops
    BY BoundsAssumption DEF Hops
  <2>2. After(h) \in Hops /\ After(h)[1] = h[1] /\ After(h)[2] = h[2] + 1
    BY <2>1, AfterType DEF After
  <2>3. Forwarded(After(h)) /\ TextAt(After(h))
    BY <2>2 DEF Forwarded, TextInv
  <2>4. pc[After(h)] # "none" /\ ShouldForward(After(h))
    BY <2>3 DEF TextAt
  <2>5. TextAt(h) /\ Forwarded(h)
    BY <2>1, <2>4 DEF Forwarded, TextInv
  <2>6. ShouldForward(h) /\ text[After(h)] = ExtractForwardText(h)
    BY <2>1, <2>4, <2>5 DEF TextAt
  <2>7. Peer(At(After(h))) = At(h) /\ At(h) # Peer(At(h))
    <3>1. origin[h[1]] \in Agents
      BY DEF TypeOK, Hops
    <3>2. (h[2] + 1) % 2 = 1 - (h[2] % 2) /\ h[2] % 2 \in {0, 1}
      BY <2>1
    <3>3. At(After(h)) = Peer(At(h))
      <4>1. At(After(h)) = IF h[2] % 2 = 0 THEN origin[h[1]] ELSE Peer(origin[h[1]])
        <5>1. At(After(h)) = IF (h[2] + 1) % 2 = 1 THEN origin[h[1]] ELSE Peer(origin[h[1]])
          BY <2>2, Zenon DEF At
        <5>2. (h[2] + 1) % 2 = 1 <=> h[2] % 2 = 0
          BY ONLY <2>1, <3>2
        <5> QED BY ONLY <5>1, <5>2
      <4>2. Peer(Peer(origin[h[1]])) = origin[h[1]]
        BY <3>1, AgentsAssumption DEF Peer, Agents
      <4> QED BY <3>2, <4>1, <4>2 DEF At
    <3> QED BY <3>3, AtType, AgentsAssumption DEF Peer, Agents
  <2>8. \A i : Says(After(h), i) = Says(h, i)
    BY <2>2 DEF Says
  <2>9. text[After(h)] # text[h]
    <3> SUFFICES ASSUME text[After(h)] = text[h] PROVE FALSE
      OBVIOUS
    <3>1. \A i \in text[h] : Says(h, i).who = Peer(At(h))
      BY <2>6, DirectivesAreStripped
    <3>2. PICK i \in text[h] : Says(h, i).who = At(h)
      BY <2>4, <2>7, <2>8 DEF ShouldForward
    <3> QED BY <2>7, <3>1, <3>2
  <2> QED BY <2>6, <2>9, ExtractKeepsWords
<1> QED
  BY <1>1, <1>2, TypeCorrect, StepChain, StepTexts, PTL DEF Spec
=============================================================================
