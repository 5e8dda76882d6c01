----------------------------- MODULE McpProofs -----------------------------
(***************************************************************************)
(* Proofs about both sides of MCP.  DelegateAgent, for any number of tasks *)
(* and calls and any versions: its types, what it leaves at the server,    *)
(* what its requests carry, and that it implements DelegatedTask.          *)
(* SampleServers, for questions of any number of words: where the copies   *)
(* of the servers, of the validators and of the word lists agree.  An      *)
(* input meets one answer, so that the invariant, RepliedInv, only says    *)
(* which; what is proved is about the operators that answer.               *)
(***************************************************************************)
EXTENDS DelegateAgent, SampleServers, WellFoundedInduction, TLAPS

USE MaxCallsAssumption, VersionsAssumption, NoSessionAssumption

-----------------------------------------------------------------------------
\* A set of naturals has a least element, and a bounded one a greatest.
LEMMA LeastElement ==
  ASSUME NEW S \in SUBSET Nat, S # {}
  PROVE  \E m \in S : \A n \in S : m <= n
<1>1. PICK m \in S : \A n \in S : ~ (<<n, m>> \in OpToRel(<, Nat))
  BY NatLessThanWellFounded, WFMin
<1>2. \A n \in S : ~ (n < m)
  BY <1>1 DEF OpToRel
<1> QED BY <1>2

\* The newest of the versions a server names is one of them.
LEMMA GreatestElement ==
  ASSUME NEW top \in Nat, NEW S \in SUBSET (1 .. top), S # {}
  PROVE  \E m \in S : \A n \in S : n <= m
<1> DEFINE Below == {top - n : n \in S}
<1>1. Below \in SUBSET Nat /\ Below # {}
  <2>1. \A n \in S : n \in 1 .. top
    OBVIOUS
  <2>2. \A n \in S : top - n \in Nat
    BY <2>1
  <2> QED BY <2>2
<1> HIDE DEF Below
<1>2. PICK d \in Below : \A e \in Below : d <= e
  BY <1>1, LeastElement
<1> USE DEF Below
<1>3. PICK m \in S : d = top - m
  OBVIOUS
<1>4. \A n \in S : top - m <= top - n
  BY <1>2, <1>3
<1>5. \A n \in S : n <= m
  BY <1>4
<1> QED BY <1>5

\* _negotiate_version chooses one of the versions the server named.
LEMMA NegotiatedVersion ==
  ASSUME NEW S \in SUBSET Versions, S # {}
  PROVE  NegotiateVersion(S) \in S
<1> DEFINE known == {i \in 1 .. Len(KnownVersions) : KnownVersions[i] \in S}
<1>1. CASE known # {}
  <2>1. known \in SUBSET Nat
    OBVIOUS
  <2>2. \E i \in known : \A j \in known : i <= j
    <3> HIDE DEF known
    <3> QED BY <1>1, <2>1, LeastElement
  <2>3. (CHOOSE i \in known : \A j \in known : i <= j) \in known
    BY <2>2
  <2> QED BY <1>1, <2>3 DEF NegotiateVersion
<1>2. CASE known = {}
  <2>1. \E v \in S : \A w \in S : w <= v
    BY GreatestElement DEF Versions
  <2>2. (CHOOSE v \in S : \A w \in S : w <= v) \in S
    BY <2>1
  <2> QED BY <1>2, <2>2 DEF NegotiateVersion
<1> QED BY <1>1, <1>2
-----------------------------------------------------------------------------
TaskAction(t) ==
  \/ Prompt(t) \/ ReplyLocally(t) \/ OpenSession(t) \/ EndTask(t)
  \/ InitializeAccepted(t) /\ UNCHANGED taskState
  \/ Renegotiate(t) /\ UNCHANGED taskState
  \/ EnterFails(t) /\ UNCHANGED taskState
  \/ Notified(t) /\ UNCHANGED taskState
  \/ CallSucceeds(t) /\ UNCHANGED taskState
  \/ CallEndsPlan(t) /\ UNCHANGED taskState
  \/ CallNeedsConsent(t) /\ UNCHANGED taskState
  \/ CallFails(t) /\ UNCHANGED taskState
  \/ DeleteAnswered(t) /\ UNCHANGED taskState

\* The cases of a step, for the proofs below.
LEMMA StepCases ==
  ASSUME [Next]_vars
  PROVE  (\E t \in Tasks : TaskAction(t)) \/ UserStep \/ UNCHANGED vars
BY DEF Next, TaskStep, ClientStep, TaskAction

\* The user changes nothing but the consent.
LEMMA UserStepChanges ==
  ASSUME UserStep
  PROVE  /\ consent' \in BOOLEAN
         /\ UNCHANGED <<conn, planned, executed, supported, sessions, faulty, taskState>>
BY DEF UserStep, Approve, Revoke

-----------------------------------------------------------------------------
\* What the end of a client's block makes of it.
LEMMA Raises ==
  ASSUME TypeOK, NEW t \in Tasks, NEW why \in {"ok", "consent", "error"}
  PROVE  /\ RaiseInside(t, why) \in [Tasks -> Conn]
         /\ RaiseBefore(t, why) \in [Tasks -> Conn]
<1>1. conn \in [Tasks -> Conn] /\ conn[t] \in Conn
  BY DEF TypeOK, ClientTypeOK
<1>2. \A at \in {"delete", "closed"} : [conn[t] EXCEPT !.result = why, !.at = at] \in Conn
  BY <1>1 DEF Conn, Exchanges
<1>3. RaiseBefore(t, why) = [conn EXCEPT ![t] = [conn[t] EXCEPT !.result = why, !.at = "closed"]]
  BY <1>1 DEF RaiseBefore
<1>4. \E at \in {"delete", "closed"} :
        RaiseInside(t, why) = [conn EXCEPT ![t] = [conn[t] EXCEPT !.result = why, !.at = at]]
  BY <1>1 DEF RaiseInside
<1> QED BY <1>1, <1>2, <1>3, <1>4

\* What a task expects of its client in each state, and the counts that follow.
TaskInv ==
  \A t \in Tasks :
    /\ executed[t] <= planned[t]
    /\ taskState[t] = "none" => conn[t].at = "none" /\ planned[t] = 0 /\ executed[t] = 0
    /\ conn[t].at \in Exchanges => taskState[t] = "working"
    /\ conn[t].at \in Exchanges \ {"delete"} => executed[t] < planned[t]
    /\ conn[t].at = "none" => executed[t] = 0
    /\ conn[t].at # "none" => planned[t] > 0
    /\ conn[t].at \in {"delete", "closed"} => conn[t].result # "none"
    /\ conn[t].result = "ok" => executed[t] = planned[t]
    /\ conn[t].result = "consent" => executed[t] < planned[t]
    /\ conn[t].result # "none" => conn[t].at \in {"delete", "closed"}

\* What is open at the server for a task whose exchanges did not fail.
LeakInv ==
  \A t \in Tasks \ faulty : \A s \in sessions : s[1] = t =>
    conn[t].at \in {"notify", "call", "delete"} /\ conn[t].session = s

-----------------------------------------------------------------------------
\* A record of a client that moves on, with its version and its session.
LEMMA ClientMoves ==
  ASSUME NEW x \in Conn, NEW at \in {"none", "closed"} \cup Exchanges,
         NEW version \in Versions, NEW session \in Sessions \cup {NoSession}
  PROVE  /\ [x EXCEPT !.at = at] \in Conn
         /\ [x EXCEPT !.at = at, !.session = session, !.version = version] \in Conn
         /\ [x EXCEPT !.at = at, !.version = version, !.session = session] \in Conn
BY DEF Conn

\* Each action of a task keeps the types.
LEMMA ActionKeepsTypes ==
  ASSUME TypeOK, TaskInv, supported # {}, NEW t \in Tasks, TaskAction(t)
  PROVE  TypeOK'
<1> USE DEF TypeOK, ClientTypeOK
<1>0. conn[t] \in Conn
  OBVIOUS
<1>1. CASE Prompt(t)
  BY <1>1 DEF Prompt, Terminal, Exchanges, Sessions
<1>2. CASE ReplyLocally(t)
  BY <1>2 DEF ReplyLocally, clientVars, Terminal, Exchanges, Sessions
<1>3. CASE OpenSession(t)
  BY <1>3, <1>0, ClientMoves DEF OpenSession, Enter, Terminal, Exchanges, Sessions
<1>4. CASE EndTask(t)
  <2>1. conn[t].result \in {"ok", "consent", "error"}
    BY <1>4, <1>0 DEF EndTask, TaskInv, Conn
  <2> QED BY <1>4, <2>1 DEF EndTask, clientVars, Terminal
<1>5. CASE InitializeAccepted(t) /\ UNCHANGED taskState
  <2>1. PICK version \in supported, session \in {NoSession, <<t, "accepted">>} :
          /\ sessions' = sessions \cup ({session} \ {NoSession})
          /\ conn' = [conn EXCEPT ![t].at = "notify", ![t].session = session,
                                  ![t].version = version]
    BY <1>5 DEF InitializeAccepted
  <2>2. version \in Versions /\ session \in Sessions \cup {NoSession}
    BY DEF Sessions
  <2>3. [conn[t] EXCEPT !.at = "notify", !.session = session, !.version = version] \in Conn
    BY <1>0, <2>2, ClientMoves DEF Exchanges
  <2>4. conn' \in [Tasks -> Conn]
    BY <2>1, <2>3
  <2> QED BY <1>5, <2>1, <2>2, <2>4 DEF InitializeAccepted
<1>6. CASE Renegotiate(t) /\ UNCHANGED taskState
  <2>1. NegotiateVersion(supported) \in Versions
    BY NegotiatedVersion
  <2>2. [conn[t] EXCEPT !.at = "reinitialize", !.session = NoSession,
                        !.version = NegotiateVersion(supported)] \in Conn
    BY <1>0, <2>1, ClientMoves DEF Exchanges
  <2>3. conn' \in [Tasks -> Conn]
    BY <1>6, <2>2 DEF Renegotiate
  <2>4. sessions' \subseteq Sessions /\ faulty' \subseteq Tasks
    BY <1>6 DEF Renegotiate, Sessions
  <2> QED BY <1>6, <2>3, <2>4 DEF Renegotiate
<1>7. CASE EnterFails(t) /\ UNCHANGED taskState
  <2>1. conn' \in [Tasks -> Conn]
    BY <1>7, Raises DEF EnterFails
  <2>2. \E opened \in {NoSession, <<t, "accepted">>} :
          sessions' = sessions \cup ({opened} \ {NoSession})
    BY <1>7 DEF EnterFails
  <2>3. sessions' \subseteq Sessions
    BY <2>2 DEF Sessions
  <2>4. faulty' \subseteq Tasks
    BY <1>7 DEF EnterFails
  <2> QED BY <1>7, <2>1, <2>3, <2>4 DEF EnterFails
<1>8. CASE Notified(t) /\ UNCHANGED taskState
  BY <1>8, <1>0, ClientMoves DEF Notified, Terminal, Exchanges, Sessions
<1>9. CASE CallSucceeds(t) /\ UNCHANGED taskState
  BY <1>9, <1>0, Raises, SMTT(20) DEF CallSucceeds, Terminal, Exchanges, Sessions
<1>10. CASE CallEndsPlan(t) /\ UNCHANGED taskState
  BY <1>10, <1>0, Raises DEF CallEndsPlan, Terminal, Exchanges, Sessions
<1>11. CASE CallNeedsConsent(t) /\ UNCHANGED taskState
  BY <1>11, <1>0, Raises DEF CallNeedsConsent, Terminal, Exchanges, Sessions
<1>12. CASE CallFails(t) /\ UNCHANGED taskState
  <2>1. conn' \in [Tasks -> Conn]
    BY <1>12, Raises DEF CallFails
  <2>2. executed[t] + 1 \in 0 .. MaxCalls
    <3>1. executed[t] \in 0 .. MaxCalls /\ planned[t] \in 0 .. MaxCalls
      OBVIOUS
    <3>2. executed[t] < planned[t]
      BY <1>12 DEF CallFails, TaskInv, Exchanges
    <3> QED BY <3>1, <3>2
  <2>3. executed' \in [Tasks -> 0 .. MaxCalls]
    BY <1>12, <2>2 DEF CallFails
  <2> QED BY <1>12, <2>1, <2>3 DEF CallFails
<1>13. CASE DeleteAnswered(t) /\ UNCHANGED taskState
  BY <1>13, <1>0, ClientMoves DEF DeleteAnswered, Terminal, Exchanges, Sessions
<1> QED BY <1>1, <1>2, <1>3, <1>4, <1>5, <1>6, <1>7, <1>8, <1>9, <1>10, <1>11, <1>12, <1>13 DEF TaskAction

\* Each action of a task keeps what the tasks expect of their clients.
LEMMA ActionKeepsTasks ==
  ASSUME TypeOK, TaskInv, NEW t \in Tasks, TaskAction(t)
  PROVE  TaskInv'
<1> USE DEF TypeOK, ClientTypeOK, Conn, Exchanges, TaskInv
<1>1. CASE Prompt(t)
  BY <1>1 DEF Prompt
<1>2. CASE ReplyLocally(t)
  BY <1>2 DEF ReplyLocally, clientVars
<1>3. CASE OpenSession(t)
  BY <1>3 DEF OpenSession, Enter
<1>4. CASE EndTask(t)
  BY <1>4 DEF EndTask, clientVars
<1>5. CASE InitializeAccepted(t) /\ UNCHANGED taskState
  BY <1>5 DEF InitializeAccepted
<1>6. CASE Renegotiate(t) /\ UNCHANGED taskState
  BY <1>6 DEF Renegotiate
<1>7. CASE EnterFails(t) /\ UNCHANGED taskState
  BY <1>7 DEF EnterFails, RaiseBefore
<1>8. CASE Notified(t) /\ UNCHANGED taskState
  BY <1>8 DEF Notified
<1>9. CASE CallSucceeds(t) /\ UNCHANGED taskState
  BY <1>9 DEF CallSucceeds, RaiseInside
<1>10. CASE CallEndsPlan(t) /\ UNCHANGED taskState
  BY <1>10 DEF CallEndsPlan, RaiseInside
<1>11. CASE CallNeedsConsent(t) /\ UNCHANGED taskState
  BY <1>11 DEF CallNeedsConsent, RaiseInside
<1>12. CASE CallFails(t) /\ UNCHANGED taskState
  BY <1>12 DEF CallFails, RaiseInside
<1>13. CASE DeleteAnswered(t) /\ UNCHANGED taskState
  BY <1>13 DEF DeleteAnswered
<1> QED BY <1>1, <1>2, <1>3, <1>4, <1>5, <1>6, <1>7, <1>8, <1>9, <1>10, <1>11, <1>12, <1>13 DEF TaskAction

\* Each action of a task leaves no session behind but by a fault, and carries
\* what was agreed.
LEMMA ActionKeepsSessions ==
  ASSUME TypeOK, LeakInv, RequestsCarryAgreement, supported # {}, NEW t \in Tasks, TaskAction(t)
  PROVE  LeakInv' /\ RequestsCarryAgreement'
<1> USE DEF TypeOK, ClientTypeOK, Conn, Exchanges, LeakInv, RequestsCarryAgreement, Sessions
<1>1. CASE Prompt(t)
  BY <1>1 DEF Prompt
<1>2. CASE ReplyLocally(t)
  BY <1>2 DEF ReplyLocally, clientVars
<1>3. CASE OpenSession(t)
  BY <1>3 DEF OpenSession, Enter
<1>4. CASE EndTask(t)
  BY <1>4 DEF EndTask, clientVars
<1>5. CASE InitializeAccepted(t) /\ UNCHANGED taskState
  BY <1>5 DEF InitializeAccepted
<1>6. CASE Renegotiate(t) /\ UNCHANGED taskState
  <2>1. PICK session \in {NoSession, <<t, "refused">>} :
          /\ sessions' = sessions \cup ({session} \ {NoSession})
          /\ faulty' = IF session # NoSession THEN faulty \cup {t} ELSE faulty
    BY <1>6 DEF Renegotiate
  <2>2. /\ \A u \in Tasks : u # t => conn'[u] = conn[u]
        /\ conn[t].at = "initialize" /\ conn'[t].at = "reinitialize"
        /\ conn'[t].session = NoSession /\ conn'[t].version = NegotiateVersion(supported)
        /\ UNCHANGED supported
    BY <1>6 DEF Renegotiate
  <2>3. NegotiateVersion(supported) \in supported
    BY NegotiatedVersion
  <2>4. RequestsCarryAgreement'
    BY <2>2, <2>3
  <2>5. LeakInv'
    BY <2>1, <2>2
  <2> QED BY <2>4, <2>5
<1>7. CASE EnterFails(t) /\ UNCHANGED taskState
  <2>1. PICK opened \in {NoSession, <<t, "accepted">>} :
          /\ sessions' = sessions \cup ({opened} \ {NoSession})
          /\ faulty' = IF {opened, conn[t].session} # {NoSession} THEN faulty \cup {t} ELSE faulty
    BY <1>7 DEF EnterFails
  <2>2. /\ \A u \in Tasks : u # t => conn'[u] = conn[u]
        /\ conn[t].at \in {"initialize", "reinitialize", "notify"} /\ conn'[t].at = "closed"
        /\ UNCHANGED supported
    BY <1>7 DEF EnterFails, RaiseBefore
  <2>3. RequestsCarryAgreement'
    BY <2>2
  <2>4. ASSUME t \notin faulty' PROVE sessions' = sessions /\ conn[t].session = NoSession
    <3>1. {opened, conn[t].session} = {NoSession}
      BY <2>1, <2>4
    <3>2. opened = NoSession /\ conn[t].session = NoSession
      BY <3>1
    <3> QED BY <2>1, <3>2
  <2>5. ASSUME NEW u \in Tasks \ faulty', NEW s \in sessions', s[1] = u
        PROVE  conn'[u].at \in {"notify", "call", "delete"} /\ conn'[u].session = s
    <3>1. u \notin faulty
      BY <2>1, <2>5
    <3>2. CASE u = t
      <4>1. s \in sessions /\ conn[t].session = NoSession
        BY <2>4, <2>5, <3>2
      <4> QED BY <2>5, <3>1, <3>2, <4>1
    <3>3. CASE u # t
      <4>1. s \in sessions
        BY <2>1, <2>5, <3>3
      <4> QED BY <2>2, <2>5, <3>1, <3>3, <4>1
    <3> QED BY <3>2, <3>3
  <2>6. LeakInv'
    BY <2>5
  <2> QED BY <2>3, <2>6
<1>8. CASE Notified(t) /\ UNCHANGED taskState
  BY <1>8 DEF Notified
<1>9. CASE CallSucceeds(t) /\ UNCHANGED taskState
  BY <1>9 DEF CallSucceeds, RaiseInside
<1>10. CASE CallEndsPlan(t) /\ UNCHANGED taskState
  BY <1>10 DEF CallEndsPlan, RaiseInside
<1>11. CASE CallNeedsConsent(t) /\ UNCHANGED taskState
  BY <1>11 DEF CallNeedsConsent, RaiseInside
<1>12. CASE CallFails(t) /\ UNCHANGED taskState
  BY <1>12 DEF CallFails, RaiseInside
<1>13. CASE DeleteAnswered(t) /\ UNCHANGED taskState
  BY <1>13 DEF DeleteAnswered
<1> QED BY <1>1, <1>2, <1>3, <1>4, <1>5, <1>6, <1>7, <1>8, <1>9, <1>10, <1>11, <1>12, <1>13 DEF TaskAction

-----------------------------------------------------------------------------
IInv == TypeOK /\ TaskInv /\ LeakInv /\ RequestsCarryAgreement /\ supported # {}

\* The invariant is one: the versions a gateway supports do not change.
LEMMA Inductive == Spec => []IInv
<1>1. ASSUME Init PROVE IInv
  <2>1. [at |-> "none", version |-> FirstVersion, session |-> NoSession, result |-> "none"] \in Conn
    BY DEF Conn
  <2>2. TypeOK /\ supported # {}
    <3>1. conn \in [Tasks -> Conn]
      BY <1>1, <2>1 DEF Init, ClientInit
    <3>2. 0 \in 0 .. MaxCalls
      OBVIOUS
    <3>3. planned \in [Tasks -> 0 .. MaxCalls] /\ executed \in [Tasks -> 0 .. MaxCalls]
      BY <1>1, <3>2 DEF Init, ClientInit
    <3>4. supported \subseteq Versions /\ supported # {}
      BY <1>1 DEF Init, ClientInit
    <3>5. consent \in BOOLEAN /\ sessions \subseteq Sessions /\ faulty \subseteq Tasks
      BY <1>1 DEF Init, ClientInit
    <3>6. taskState \in [Tasks -> {"none", "working"} \cup Terminal]
      BY <1>1 DEF Init
    <3> QED BY <3>1, <3>3, <3>4, <3>5, <3>6 DEF TypeOK, ClientTypeOK
  <2>3. \A t \in Tasks :
          /\ conn[t].at = "none" /\ conn[t].result = "none"
          /\ planned[t] = 0 /\ executed[t] = 0
    BY <1>1 DEF Init, ClientInit
  <2>4. TaskInv
    <3>1. \A t \in Tasks : taskState[t] = "none"
      BY <1>1 DEF Init
    <3>2. /\ "none" \notin Exchanges /\ "none" \notin {"delete", "closed"}
          /\ \A x \in Exchanges : x # "none"
      BY DEF Exchanges
    <3>3. \A t \in Tasks : conn[t].at \notin Exchanges
      BY <2>3, <3>2
    <3>4. \A t \in Tasks : executed[t] <= planned[t]
      <4> TAKE t \in Tasks
      <4>1. planned[t] = 0 /\ executed[t] = 0
        BY <2>3
      <4>2. 0 <= 0
        OBVIOUS
      <4> QED BY <4>1, <4>2, Zenon
    <3> QED BY <2>3, <3>1, <3>3, <3>4, Zenon DEF TaskInv
  <2>5. LeakInv /\ RequestsCarryAgreement
    BY <1>1, <2>3 DEF Init, ClientInit, LeakInv, RequestsCarryAgreement
  <2> QED BY <2>2, <2>4, <2>5 DEF IInv
<1>2. IInv /\ [Next]_vars => IInv'
  <2> SUFFICES ASSUME IInv, [Next]_vars PROVE IInv'
    OBVIOUS
  <2>1. ASSUME NEW t \in Tasks, TaskAction(t) PROVE IInv'
    <3>1. supported' = supported
      BY <2>1 DEF TaskAction, Prompt, ReplyLocally, OpenSession, Enter, EndTask, clientVars,
           InitializeAccepted, Renegotiate, EnterFails, Notified, CallSucceeds, CallEndsPlan,
           CallNeedsConsent, CallFails, DeleteAnswered
    <3> QED BY <2>1, <3>1, ActionKeepsTypes, ActionKeepsTasks, ActionKeepsSessions DEF IInv
  <2>2. CASE UserStep
    BY <2>2, UserStepChanges DEF IInv, TypeOK, ClientTypeOK, TaskInv, LeakInv,
       RequestsCarryAgreement
  <2>3. CASE UNCHANGED vars
    BY <2>3 DEF vars, clientVars, IInv, TypeOK, ClientTypeOK, TaskInv, LeakInv,
       RequestsCarryAgreement
  <2> QED BY StepCases, <2>1, <2>2, <2>3
<1> QED BY <1>1, <1>2, PTL DEF Spec

\* The clients, tasks, counts and sessions keep their types.
THEOREM TypeCorrect == Spec => []TypeOK
BY Inductive, PTL DEF IInv

\* A closed client has left a session at the server only if one of its
\* exchanges failed, or its initialize was refused.
THEOREM LeaksComeFromFaults == Spec => []LeakNeedsFault
<1>1. IInv => LeakNeedsFault
  BY DEF IInv, LeakInv, LeakNeedsFault
<1> QED BY <1>1, Inductive, PTL

\* What was agreed with the server is what requests carry.
THEOREM AgreementIsCarried == Spec => []RequestsCarryAgreement
BY Inductive, PTL DEF IInv

-----------------------------------------------------------------------------
\* The agent implements the promise of DelegatedTask: each step of a task is
\* one of its steps, or changes nothing of it.
THEOREM TaskRefinement == Spec => ImplementsTask
<1>1. Init => Task!Init
  BY DEF Init, ClientInit, Task!Init
<1>2. IInv /\ [Next]_vars => [Task!Next]_Task!vars
  <2> SUFFICES ASSUME IInv, [Next]_vars PROVE [Task!Next]_Task!vars
    OBVIOUS
  <2> USE DEF IInv, TypeOK, ClientTypeOK
  <2>1. ASSUME NEW t \in Tasks, Prompt(t) PROVE Task!Prompt(t)
    BY <2>1 DEF Prompt, Task!Prompt
  <2>2. ASSUME NEW t \in Tasks, ReplyLocally(t) PROVE Task!End(t, "completed")
    BY <2>2 DEF ReplyLocally, clientVars, Task!End, TaskInv
  <2>3. ASSUME NEW t \in Tasks, EndTask(t)
        PROVE  \E how \in {"completed", "auth_required", "failed"} : Task!End(t, how)
    <3>1. conn[t].result \in {"ok", "consent", "error"}
      BY <2>3 DEF EndTask, TaskInv, Conn
    <3>2. taskState[t] = "working" /\ UNCHANGED <<planned, executed>>
      BY <2>3 DEF EndTask, clientVars
    <3>3. CASE conn[t].result = "ok"
      BY <2>3, <3>2, <3>3 DEF EndTask, TaskInv, Task!End
    <3>4. CASE conn[t].result = "consent"
      BY <2>3, <3>2, <3>4 DEF EndTask, TaskInv, Task!End
    <3>5. CASE conn[t].result = "error"
      BY <2>3, <3>2, <3>5 DEF EndTask, Task!End
    <3> QED BY <3>1, <3>3, <3>4, <3>5
  <2>4. ASSUME NEW t \in Tasks, CallSucceeds(t) \/ CallEndsPlan(t) \/ CallFails(t),
               UNCHANGED taskState
        PROVE  Task!Execute(t) \/ UNCHANGED Task!vars
    <3>1. taskState[t] = "working" /\ executed[t] < planned[t]
      BY <2>4 DEF CallSucceeds, CallEndsPlan, CallFails, TaskInv, Exchanges
    <3> QED BY <2>4, <3>1 DEF CallSucceeds, CallEndsPlan, CallFails, Task!Execute, Task!vars
  <2>5. ASSUME NEW t \in Tasks, UNCHANGED taskState,
               \/ InitializeAccepted(t) \/ Renegotiate(t) \/ EnterFails(t) \/ Notified(t)
               \/ CallNeedsConsent(t) \/ DeleteAnswered(t)
        PROVE  UNCHANGED Task!vars
    BY <2>5 DEF InitializeAccepted, Renegotiate, EnterFails, Notified, CallNeedsConsent,
         DeleteAnswered, Task!vars
  <2>6. ASSUME NEW t \in Tasks, OpenSession(t) PROVE UNCHANGED Task!vars
    BY <2>6 DEF OpenSession, Enter, Task!vars
  <2>7. CASE UserStep
    BY <2>7, UserStepChanges DEF Task!vars
  <2>8. CASE UNCHANGED vars
    BY <2>8 DEF vars, clientVars, Task!vars
  <2>9. ASSUME NEW t \in Tasks, TaskAction(t) PROVE [Task!Next]_Task!vars
    BY <2>1, <2>2, <2>3, <2>4, <2>5, <2>6, <2>9 DEF TaskAction, Task!Next
  <2> QED BY StepCases, <2>7, <2>8, <2>9
<1> QED BY <1>1, <1>2, Inductive, PTL DEF Spec, ImplementsTask, Task!Spec

-----------------------------------------------------------------------------
\* SampleServers

\* What each server was asked, and said.
Replied ==
  /\ input.kind = "message" =>
       \E x \in Computed(input.r.op, input.r.a, input.r.b) :
         /\ answers.computed = x /\ answers.mcp = Mcp(input.r, x)
         /\ answers.latest = McpLatest(WithMetadata(input.r), x)
         /\ answers.chat = McpChat(input.r)
         /\ answers.rest \in (CASE input.r.name = "calculator" -> RestCalculator(input.r, x)
                                [] input.r.name = "weather_forecast" -> {RestWeather(input.r)}
                                [] OTHER -> {RestGreeting(input.r)})
  /\ input.kind \in {"send", "legacy"} =>
       answers.latest = McpLatest(input.r, "finite") /\ answers.mcp = Mcp(input.r, "finite")
  /\ input.kind = "token" => answers.refusals = Judged(input.t, input.s)
  /\ input.kind = "question" =>
       answers.personal \in PersonalReply(input.text) /\ answers.finance = Match(input.text)

RepliedInv == input \in Inputs /\ (answers # <<>> => Replied)

\* The answers are those of the servers, validators and agents to the input.
LEMMA RepliedInvariant == SampleSpec => []RepliedInv
<1>1. SampleInit => RepliedInv
  BY DEF SampleInit, RepliedInv
<1>2. RepliedInv /\ [SampleNext]_sampleVars => RepliedInv'
  <2> SUFFICES ASSUME RepliedInv, [SampleNext]_sampleVars PROVE RepliedInv'
    OBVIOUS
  <2>1. CASE AnswerMessage
    <3>1. input' = input /\ input.kind = "message"
      BY <2>1 DEF AnswerMessage
    <3>2. PICK x \in Computed(input.r.op, input.r.a, input.r.b) : \E rest \in RestCalculator(input.r, x) :
            answers' = [computed |-> x, mcp |-> Mcp(input.r, x), latest |-> McpLatest(WithMetadata(input.r), x),
                        chat |-> McpChat(input.r),
                        rest |-> CASE input.r.name = "calculator" -> rest
                                   [] input.r.name = "weather_forecast" -> RestWeather(input.r)
                                   [] OTHER -> RestGreeting(input.r)]
      BY <2>1, Zenon DEF AnswerMessage
    <3>3. /\ answers'.computed = x /\ answers'.mcp = Mcp(input.r, x)
          /\ answers'.latest = McpLatest(WithMetadata(input.r), x) /\ answers'.chat = McpChat(input.r)
          /\ answers'.rest \in (CASE input.r.name = "calculator" -> RestCalculator(input.r, x)
                                  [] input.r.name = "weather_forecast" -> {RestWeather(input.r)}
                                  [] OTHER -> {RestGreeting(input.r)})
      BY <3>2
    <3>4. Replied'
      BY <3>1, <3>3 DEF Replied
    <3> QED BY <3>1, <3>4 DEF RepliedInv
  <2>2. CASE AnswerSend
    <3>1. /\ input' = input /\ input.kind \in {"send", "legacy"}
          /\ answers'.latest = McpLatest(input.r, "finite") /\ answers'.mcp = Mcp(input.r, "finite")
      BY <2>2 DEF AnswerSend
    <3> QED BY <3>1 DEF RepliedInv, Replied
  <2>3. CASE AnswerToken
    <3>1. input' = input /\ input.kind = "token" /\ answers'.refusals = Judged(input.t, input.s)
      BY <2>3 DEF AnswerToken
    <3> QED BY <3>1 DEF RepliedInv, Replied
  <2>4. CASE AnswerQuestion
    <3>1. /\ input' = input /\ input.kind = "question"
          /\ answers'.personal \in PersonalReply(input.text) /\ answers'.finance = Match(input.text)
      BY <2>4 DEF AnswerQuestion
    <3> QED BY <3>1 DEF RepliedInv, Replied
  <2>5. CASE UNCHANGED sampleVars
    BY <2>5 DEF sampleVars, RepliedInv, Replied
  <2> QED BY <2>1, <2>2, <2>3, <2>4, <2>5 DEF SampleNext
<1> QED BY <1>1, <1>2, PTL DEF SampleSpec

-----------------------------------------------------------------------------
\* Tokens

\* What is genuine is what extract_bearer and the decoding let pass, at the
\* agents that are configured with audiences and issuers.
LEMMA GenuinePasses ==
  ASSUME NEW t \in Tokens, NEW s \in Settings, s.agent \in {"echo", "personal"}
  PROVE  ExtractBearer(t) = {} /\ Decode(t, s) = {} <=> Genuine(t, s)
<1>1. CASE t.header # "jwt"
  BY <1>1 DEF Decode, Genuine
<1>2. CASE t.header = "jwt"
  BY <1>2 DEF ExtractBearer, Decode, Genuine
<1> QED BY <1>1, <1>2

\* The claims that Entra puts into the tokens of each flow.
LEMMA JwtClaims ==
  ASSUME NEW t \in Tokens, t.header = "jwt"
  PROVE  /\ t.grant.flow \in {"user", "machine", "idToken"}
         /\ t.grant.flow = "user" => t.grant.scp # {} /\ ~t.grant.idtypApp
         /\ t.grant.flow = "machine" => t.grant.scp = {} /\ ~t.grant.names
         /\ t.grant.flow = "idToken" => t.grant.scp = {} /\ ~t.grant.idtypApp /\ t.grant.names \in BOOLEAN
<1> DEFINE g == t.grant
<1>1. \/ g \in [flow : {"user"}, scp : (SUBSET Scopes) \ {{}}, idtypApp : {FALSE}, names : BOOLEAN]
      \/ g \in [flow : {"machine"}, scp : {{}}, idtypApp : BOOLEAN, names : {FALSE}]
      \/ g \in [flow : {"idToken"}, scp : {{}}, idtypApp : {FALSE}, names : BOOLEAN]
  BY DEF Tokens, Grants
<1> HIDE DEF g
<1>2. /\ g.flow \in {"user", "machine", "idToken"}
      /\ g.flow = "user" => g.scp # {} /\ ~g.idtypApp
      /\ g.flow = "machine" => g.scp = {} /\ ~g.names
      /\ g.flow = "idToken" => g.scp = {} /\ ~g.idtypApp /\ g.names \in BOOLEAN
  BY ONLY <1>1
<1> QED BY ONLY <1>2 DEF g

\* FlowsAreTold: the claims of each flow lead a genuine token to the check of
\* its flow, for every configuration of the agents; an id token without a name
\* alone is led to the check of another.
THEOREM FlowsAreWellTold == SampleSpec => []FlowsAreTold
<1>1. ASSUME NEW t \in Tokens, NEW s \in Settings, s.agent = "echo", t.header = "jwt"
      PROVE  LET asMachine == t.grant.flow = "machine" \/ (t.grant.flow = "idToken" /\ ~t.grant.names)
             IN  /\ asMachine => (Judged(t, s) = {} <=> Genuine(t, s) /\ (s.role => t.role))
                 /\ t.grant.flow = "user" =>
                      (Judged(t, s) = {} <=> Genuine(t, s) /\ s.scope \in t.grant.scp \cup {"none"})
                 /\ t.grant.flow = "idToken" /\ ~asMachine =>
                      (Judged(t, s) = {} <=> Genuine(t, s) /\ s.scope = "none")
  <2>1. Judged(t, s) = {} <=> Genuine(t, s) /\ CheckAuthorization(t, s) = {}
    BY <1>1, GenuinePasses DEF Judged, Echo
  <2>2. t.grant.flow = "machine" \/ (t.grant.flow = "idToken" /\ ~t.grant.names) => IsAppOnly(t)
    <3>1. t.grant.flow \in {"machine", "idToken"} => t.grant.scp = {}
      BY <1>1, JwtClaims
    <3>2. t.grant.flow = "machine" => ~t.grant.names
      BY <1>1, JwtClaims
    <3> QED BY <3>1, <3>2 DEF IsAppOnly
  <2>3. t.grant.flow = "user" \/ (t.grant.flow = "idToken" /\ t.grant.names) => ~IsAppOnly(t)
    <3>1. t.grant.flow \in {"user", "idToken"} => ~t.grant.idtypApp
      BY <1>1, JwtClaims
    <3>2. t.grant.flow = "user" => t.grant.scp # {}
      BY <1>1, JwtClaims
    <3> QED BY <3>1, <3>2 DEF IsAppOnly
  <2>4. IsAppOnly(t) => (CheckAuthorization(t, s) = {} <=> (s.role => t.role))
    BY DEF CheckAuthorization
  <2>5. ~IsAppOnly(t) => (CheckAuthorization(t, s) = {} <=> s.scope \in t.grant.scp \cup {"none"})
    BY DEF CheckAuthorization, HasScope
  <2>6. t.grant.flow = "idToken" => t.grant.scp = {} /\ t.grant.names \in BOOLEAN
    BY <1>1, JwtClaims
  <2> QED BY <2>1, <2>2, <2>3, <2>4, <2>5, <2>6
<1>2. ASSUME NEW t \in Tokens, NEW s \in Settings, s.agent \in {"personal", "advisory"}
      PROVE  LET passed == IF s.agent = "personal" THEN Genuine(t, s) ELSE t.header = "jwt"
             IN  Judged(t, s) = {} <=> t.header = "jwt" /\ t.grant.flow = "user" /\ passed /\ s.scope \in t.grant.scp
  <2>1. t.header = "jwt" /\ s.scope \in t.grant.scp => t.grant.flow = "user"
    BY JwtClaims
  <2>2. HasScope(t, s) = {} <=> s.scope \in t.grant.scp
    BY DEF HasScope
  <2>3. CASE s.agent = "personal"
    <3>1. Judged(t, s) = {} <=> Genuine(t, s) /\ HasScope(t, s) = {}
      BY <2>3, GenuinePasses DEF Judged, Personal
    <3> QED BY <2>1, <2>2, <2>3, <3>1 DEF Genuine
  <2>4. CASE s.agent = "advisory"
    <3>1. Judged(t, s) = {} <=> t.header = "jwt" /\ HasScope(t, s) = {}
      BY <2>4 DEF Judged, Advisory, ExtractBearer
    <3> QED BY <2>1, <2>2, <2>4, <3>1
  <2> QED BY <1>2, <2>3, <2>4
<1>3. ASSUME NEW t \in Tokens, NEW s \in Settings, s.agent = "echo", Judged(t, s) = {}
      PROVE  t.header = "jwt"
  BY <1>3, GenuinePasses DEF Judged, Echo, Genuine
<1>4. RepliedInv => FlowsAreTold
  <2> SUFFICES ASSUME RepliedInv, Answered("token") PROVE FlowsAreTold
    BY DEF FlowsAreTold
  <2> DEFINE t == input.t  s == input.s
  <2>1. t \in Tokens /\ s \in Settings
    BY DEF RepliedInv, Answered, Inputs
  <2>2. answers.refusals = Judged(t, s)
    BY DEF RepliedInv, Replied, Answered
  <2>3. s.agent \in {"echo", "personal", "advisory", "personalOpen", "orchestrator"}
    BY <2>1 DEF Settings
  <2> HIDE DEF t, s
  <2>4. CASE s.agent = "echo"
    BY <1>1, <1>3, <2>1, <2>2, <2>4 DEF FlowsAreTold, t, s
  <2>5. CASE s.agent \in {"personal", "advisory"}
    BY <1>2, <2>1, <2>2, <2>5 DEF FlowsAreTold, t, s
  <2>6. CASE s.agent \in {"personalOpen", "orchestrator"}
    BY <2>6 DEF FlowsAreTold, t, s
  <2> QED BY <2>3, <2>4, <2>5, <2>6
<1> QED BY <1>4, RepliedInvariant, PTL

-----------------------------------------------------------------------------
\* Questions

\* The words of the finance agent's table.
LEMMA FinanceWords ==
  WordsOf(FinanceTable) =
    {"balance", "account", "how much", "money", "transaction", "spent", "purchase", "recent",
     "budget", "spending", "expense", "category", "invest", "portfolio", "stock", "holding", "return",
     "credit", "score", "fico", "loan", "mortgage", "debt", "liabilit", "saving", "save"}
<1> DEFINE T == FinanceTable
<1>1. DOMAIN T = 1 .. 7
  BY DEF FinanceTable
<1>2. /\ T[1].words = {"balance", "account", "how much", "money"}
      /\ T[2].words = {"transaction", "spent", "purchase", "recent"}
      /\ T[3].words = {"budget", "spending", "expense", "category"}
      /\ T[4].words = {"invest", "portfolio", "stock", "holding", "return"}
      /\ T[5].words = {"credit", "score", "fico"}
      /\ T[6].words = {"loan", "mortgage", "debt", "liabilit"}
      /\ T[7].words = {"saving", "save"}
  BY DEF FinanceTable, Row
<1> HIDE DEF T
<1>3. UNION {T[i].words : i \in DOMAIN T} =
        T[1].words \cup T[2].words \cup T[3].words \cup T[4].words \cup T[5].words \cup T[6].words \cup T[7].words
  <2>1. ASSUME NEW i \in DOMAIN T PROVE i = 1 \/ i = 2 \/ i = 3 \/ i = 4 \/ i = 5 \/ i = 6 \/ i = 7
    BY <1>1
  <2>2. 1 \in DOMAIN T /\ 2 \in DOMAIN T /\ 3 \in DOMAIN T /\ 4 \in DOMAIN T /\ 5 \in DOMAIN T
        /\ 6 \in DOMAIN T /\ 7 \in DOMAIN T
    BY <1>1
  <2> QED BY <2>1, <2>2, Zenon
<1>4. WordsOf(FinanceTable) = UNION {T[i].words : i \in DOMAIN T}
  BY DEF WordsOf, T
<1> QED BY <1>2, <1>3, <1>4

\* A text without any of these has no answer in the table.
LEMMA NoMatch == ASSUME NEW text, Match(text) = "default" PROVE text \cap WordsOf(FinanceTable) = {}
<1> DEFINE hits == {i \in DOMAIN FinanceTable : FinanceTable[i].words \cap text # {}}
           first == CHOOSE i \in hits : \A j \in hits : i <= j
<1>1. SUFFICES ASSUME hits # {} PROVE FALSE
  BY DEF WordsOf
<1>2. hits \subseteq 1 .. 7
  <2>1. DOMAIN FinanceTable = 1 .. 7
    BY DEF FinanceTable
  <2> QED BY <2>1
<1>3. first \in hits
  <2> HIDE DEF hits
  <2>1. PICK m \in hits : \A j \in hits : m <= j
    BY <1>1, <1>2, LeastElement
  <2> QED BY <2>1
<1>4. FinanceTable[first].answer = "default"
  BY <1>1 DEF Match, FirstMatch
<1>5. \A i \in 1 .. 7 : FinanceTable[i].answer # "default"
  <2>1. /\ FinanceTable[1].answer = "balance" /\ FinanceTable[2].answer = "transactions"
        /\ FinanceTable[3].answer = "budget" /\ FinanceTable[4].answer = "investments"
        /\ FinanceTable[5].answer = "credit" /\ FinanceTable[6].answer = "loan"
        /\ FinanceTable[7].answer = "savings"
    BY DEF FinanceTable, Row
  <2>2. \A i \in 1 .. 7 : i = 1 \/ i = 2 \/ i = 3 \/ i = 4 \/ i = 5 \/ i = 6 \/ i = 7
    OBVIOUS
  <2> QED BY <2>1, <2>2
<1> QED BY <1>2, <1>3, <1>4, <1>5

\* Questions of any number of words are routed and answered alike by the two
\* lists of finance words, but for the words that Unasked and Unknowing name.
THEOREM RoutingIsAgreed == SampleSpec => []RoutingAgrees
<1>1. /\ WordsOf(FinanceTable) \ FinanceKeywords \subseteq Unasked
      /\ FinanceKeywords \ WordsOf(FinanceTable) \subseteq Unknowing
      /\ Unasked \cap FinanceKeywords = {}
  BY FinanceWords DEF FinanceKeywords, Unasked, Unknowing
<1>2. RepliedInv => RoutingAgrees
  <2> SUFFICES ASSUME RepliedInv, Answered("question") PROVE
        LET asked == answers.personal.by = "finance"
        IN  /\ answers.finance # "default" /\ ~asked => input.text \cap WordsOf(FinanceTable) \subseteq Unasked
            /\ asked /\ answers.finance = "default" => input.text \cap FinanceKeywords \subseteq Unknowing
            /\ input.text \subseteq Unasked => ~asked
            /\ asked => answers.personal.says \in {answers.finance, "noText", "dump", "apology"}
    BY DEF RoutingAgrees
  <2>1. answers.personal \in PersonalReply(input.text) /\ answers.finance = Match(input.text)
    BY DEF RepliedInv, Replied, Answered
  <2>2. /\ answers.personal.by = "finance" <=> input.text \cap FinanceKeywords # {}
        /\ answers.personal.by = "finance" => answers.personal.says \in CallAgent(Match(input.text))
    BY <2>1 DEF PersonalReply, IsFinanceQuery
  <2>3. CallAgent(Match(input.text)) \subseteq {answers.finance, "noText", "dump", "apology"}
    BY <2>1 DEF CallAgent, ResponseText
  <2>4. answers.finance = "default" => input.text \cap WordsOf(FinanceTable) = {}
    BY <2>1, NoMatch
  <2> QED BY <1>1, <2>2, <2>3, <2>4
<1> QED BY <1>2, RepliedInvariant, PTL

-----------------------------------------------------------------------------
\* Sends of the two clients

\* What the client of the older protocol sends, at either server.
LEMMA LegacySends ==
  ASSUME NEW r \in Legacy
  PROVE  Mcp(r, "finite").code = "ok" /\ McpLatest(r, "finite") = Answer(400, "mismatch")
<1>1. PICK m \in {"initialize", "tools/list", "tools/call"}, name \in {"calculator", "weather_forecast"} :
        r = McpClientRequest(m, name, "object")
  BY DEF Legacy
<1>2. /\ r.body = "object" /\ r.rpc /\ r.method = m /\ r.name = name /\ r.meta = "absent"
      /\ r.hVersion = "absent" /\ r.op = "add" /\ r.a = "int" /\ r.b = "int"
      /\ r.city = "text" /\ r.days = "within"
      /\ r.params = IF m = "tools/list" THEN "absent" ELSE "object"
      /\ r.args = IF m = "tools/call" THEN "object" ELSE "absent"
      /\ r.client = IF m = "initialize" THEN "object" ELSE "absent"
  BY <1>1 DEF McpClientRequest, NoRequest
<1>3. Mcp(r, "finite").code = "ok"
  <2>1. CASE m = "initialize"
    BY <1>2, <2>1 DEF Mcp, Initialize, HasGet, Answer
  <2>2. CASE m = "tools/list"
    BY <1>2, <2>2 DEF Mcp, ToolsList, Answer
  <2>3. CASE m = "tools/call"
    <3>1. Mcp(r, "finite") = IF name = "calculator" THEN Calculator(r, "finite") ELSE Weather(r)
      BY <1>2, <2>3 DEF Mcp, ToolsCall, HasGet, Given
    <3>2. Calculator(r, "finite").code = "ok" /\ Weather(r).code = "ok"
      BY <1>2 DEF Calculator, Weather, DaysPass, Operations, Operands, Numbers, Answer
    <3> QED BY <3>1, <3>2
  <2> QED BY <2>1, <2>2, <2>3
<1>4. LatestMetadata(r) = Answer(400, "mismatch")
  BY <1>2 DEF LatestMetadata, HasGetOr
<1> QED BY <1>2, <1>3, <1>4 DEF McpLatest, LatestOrigin, AllowedOrigins, Answer

\* What the stateless client sends, its headers overridden or not, at either.
LEMMA OverriddenSends ==
  ASSUME NEW r \in Overridden
  PROVE  LET repeats == /\ r.hVersion = r.version /\ r.hMethod = r.method
                        /\ r.method = "tools/call" => r.hName = r.name
         IN  /\ McpLatest(r, "finite").code = "ok" <=> repeats /\ r.version = "2026-07-28"
             /\ McpLatest(r, "finite").code = "version" <=>
                  r.version = "1900-01-01" /\ r.hVersion = r.version
             /\ Mcp(r, "finite").code = IF r.method = "server/discover" THEN "noMethod" ELSE "ok"
<1>1. PICK m \in {"server/discover", "tools/list", "tools/call"}, version \in {"2026-07-28", "1900-01-01"},
           hVersion \in {"absent", "2026-07-28", "1900-01-01"},
           hMethod \in {"absent", "server/discover", "tools/list", "tools/call"},
           hName \in {"absent", "calculator", "weather_forecast"}, origin \in {"absent", "other"} :
        r = [LatestClientRequest(m, IF m = "tools/call" THEN "calculator" ELSE "absent", version)
              EXCEPT !.hVersion = hVersion, !.hMethod = hMethod, !.hName = hName, !.origin = origin]
  BY DEF Overridden
<1>2. /\ r.body = "object" /\ r.rpc /\ r.method = m /\ r.meta = "object" /\ r.client = "object"
      /\ r.params = "object" /\ r.version = version /\ r.hVersion = hVersion /\ r.hMethod = hMethod
      /\ r.hName = hName /\ r.name = IF m = "tools/call" THEN "calculator" ELSE "absent"
      /\ r.op = "add" /\ r.a = "int" /\ r.b = "int"
      /\ r.args = IF m = "tools/call" THEN "object" ELSE "absent"
  BY <1>1 DEF LatestClientRequest, NoRequest
<1>3. LatestMetadata(r) =
        IF hVersion # version THEN Answer(400, "mismatch")
        ELSE IF version # "2026-07-28" THEN Answer(400, "version")
        ELSE IF hMethod # m \/ (m = "tools/call" /\ hName # r.name) THEN Answer(400, "mismatch")
        ELSE Answer(200, "ok")
  BY <1>2 DEF LatestMetadata, HasGetOr
<1>4. /\ McpLatest(r, "finite") =
           IF LatestMetadata(r).code # "ok" THEN LatestMetadata(r)
           ELSE IF m = "tools/call" THEN LatestToolsCall(r, "finite") ELSE Answer(200, "ok")
      /\ m = "tools/call" => LatestToolsCall(r, "finite") = LatestCalculator(r, "finite")
      /\ Mcp(r, "finite") = IF m = "tools/list" THEN Answer(200, "ok")
                            ELSE IF m = "tools/call" THEN ToolsCall(r, "finite") ELSE Answer(200, "noMethod")
      /\ m = "tools/call" => ToolsCall(r, "finite") = Calculator(r, "finite")
  <2>1. LatestOrigin(r).code = "ok"
    BY DEF LatestOrigin, AllowedOrigins, Answer
  <2>2. McpLatest(r, "finite") =
           IF LatestMetadata(r).code # "ok" THEN LatestMetadata(r)
           ELSE IF m = "tools/call" THEN LatestToolsCall(r, "finite") ELSE Answer(200, "ok")
    BY <1>2, <2>1 DEF McpLatest, Discover, LatestToolsList, HasGet
  <2>3. m = "tools/call" => LatestToolsCall(r, "finite") = LatestCalculator(r, "finite")
    BY <1>2 DEF LatestToolsCall, Given, HasGetOr
  <2>4. Mcp(r, "finite") = IF m = "tools/list" THEN Answer(200, "ok")
                           ELSE IF m = "tools/call" THEN ToolsCall(r, "finite") ELSE Answer(200, "noMethod")
    BY <1>2 DEF Mcp, ToolsList
  <2>5. m = "tools/call" => ToolsCall(r, "finite") = Calculator(r, "finite")
    BY <1>2 DEF ToolsCall, Given, HasGet
  <2> QED BY <2>2, <2>3, <2>4, <2>5
<1>5. LatestCalculator(r, "finite") = Answer(200, "ok") /\ Calculator(r, "finite") = Answer(200, "ok")
  BY <1>2 DEF LatestCalculator, Calculator, Operations, Operands, Numbers, NotFinite
<1> QED BY <1>2, <1>3, <1>4, <1>5 DEF Answer

\* The stateless server answers its client's sends exactly when the headers
\* repeat the body in a version it knows; each client's sends are answered by
\* the older server for the methods it has, and by the stateless one never if
\* they come from the older client.
THEOREM SendsAreWellJudged == SampleSpec => []SendsAreJudged
<1>1. RepliedInv => SendsAreJudged
  <2> SUFFICES ASSUME RepliedInv PROVE SendsAreJudged
    OBVIOUS
  <2>1. ASSUME Answered("legacy") PROVE answers.mcp.code = "ok" /\ answers.latest = Answer(400, "mismatch")
    <3>1. input.r \in Legacy /\ answers.latest = McpLatest(input.r, "finite") /\ answers.mcp = Mcp(input.r, "finite")
      BY <2>1 DEF RepliedInv, Replied, Answered, Inputs
    <3> QED BY <3>1, LegacySends
  <2>2. ASSUME Answered("send")
        PROVE  input.r \in Overridden /\ answers.latest = McpLatest(input.r, "finite") /\ answers.mcp = Mcp(input.r, "finite")
    BY <2>2 DEF RepliedInv, Replied, Answered, Inputs
  <2> QED BY <2>1, <2>2, OverriddenSends DEF SendsAreJudged
<1> QED BY <1>1, RepliedInvariant, PTL

-----------------------------------------------------------------------------
\* Messages

\* A call of some tool, whatever its arguments.
CallOfATool(r) ==
  /\ DOMAIN r = DOMAIN NoRequest
  /\ r.body = "object" /\ r.rpc /\ r.method = "tools/call" /\ r.params = "object" /\ r.name # "absent"

\* The stateless server finds the metadata in order, if the message has params.
LEMMA MetadataPasses ==
  ASSUME NEW r, NEW x, CallOfATool(r)
  PROVE  /\ McpLatest(WithMetadata(r), x) =
              IF r.name \notin {"calculator", "weather_forecast"} THEN Answer(200, "invalid")
              ELSE IF ~HasGetOr(r.args) THEN Crash
              ELSE IF r.name = "calculator" THEN LatestCalculator(Given(r), x) ELSE LatestWeather(Given(r))
         /\ Mcp(r, x) =
              IF r.name \notin {"calculator", "weather_forecast"} THEN Answer(200, "invalid")
              ELSE IF ~HasGet(r.args) THEN Crash
              ELSE IF r.name = "calculator" THEN Calculator(Given(r), x) ELSE Weather(Given(r))
<1> DEFINE m == WithMetadata(r)
<1>1. /\ r.body = "object" /\ r.rpc /\ r.method = "tools/call" /\ r.params = "object"
      /\ DOMAIN r = DOMAIN NoRequest
  BY DEF CallOfATool
<1>2. /\ m.body = "object" /\ m.rpc /\ m.method = "tools/call" /\ m.params = "object" /\ m.meta = "object"
      /\ m.version = "2026-07-28" /\ m.hVersion = "2026-07-28" /\ m.hMethod = "tools/call"
      /\ m.hName = r.name /\ m.name = r.name /\ m.args = r.args
      /\ m.op = r.op /\ m.a = r.a /\ m.b = r.b /\ m.city = r.city /\ m.days = r.days
  BY <1>1 DEF WithMetadata, LatestClientRequest, NoRequest
<1>3. LatestMetadata(m).code = "ok" /\ LatestOrigin(m).code = "ok"
  BY <1>2 DEF LatestMetadata, LatestOrigin, AllowedOrigins, Answer, HasGetOr, CallOfATool
<1>4. McpLatest(m, x) = LatestToolsCall(m, x)
  BY <1>2, <1>3 DEF McpLatest
<1>5. Mcp(r, x) = ToolsCall(r, x)
  BY <1>1 DEF Mcp
<1>6. LatestCalculator(Given(m), x) = LatestCalculator(Given(r), x) /\ LatestWeather(Given(m)) = LatestWeather(Given(r))
  <2>1. /\ Given(m).op = Given(r).op /\ Given(m).a = Given(r).a /\ Given(m).b = Given(r).b
        /\ Given(m).city = Given(r).city /\ Given(m).days = Given(r).days
    BY <1>1, <1>2 DEF Given, NoArguments, NoRequest, WithMetadata
  <2> QED BY <2>1 DEF LatestCalculator, LatestWeather
<1> HIDE DEF m
<1>7. McpLatest(m, x) =
              IF r.name \notin {"calculator", "weather_forecast"} THEN Answer(200, "invalid")
              ELSE IF ~HasGetOr(r.args) THEN Crash
              ELSE IF r.name = "calculator" THEN LatestCalculator(Given(r), x) ELSE LatestWeather(Given(r))
  BY <1>2, <1>4, <1>6 DEF LatestToolsCall
<1>8. Mcp(r, x) =
              IF r.name \notin {"calculator", "weather_forecast"} THEN Answer(200, "invalid")
              ELSE IF ~HasGet(r.args) THEN Crash
              ELSE IF r.name = "calculator" THEN Calculator(Given(r), x) ELSE Weather(Given(r))
  BY <1>1, <1>5 DEF ToolsCall, HasGet
<1> QED BY <1>7, <1>8 DEF m

\* What the inputs of each kind have in common.
LEMMA CalculationFields ==
  ASSUME NEW r \in Calculations
  PROVE  /\ r.op \in Operations \cup {"other"} /\ r.a \in Operands /\ r.b \in Operands
         /\ r.name = "calculator" /\ r.args = "object" /\ CallOfATool(r)
<1>1. PICK op \in Operations \cup {"other"}, a \in Operands, b \in Operands :
        r = Calculation(op, a, b)
  BY DEF Calculations
<1> QED BY <1>1 DEF Calculation, CallWith, NoRequest, CallOfATool

\* Calls of the other tools, by name.
LEMMA ForecastFields ==
  ASSUME NEW r \in Forecasts \cup Unknown
  PROVE  /\ r.name \notin {"absent", "calculator"} /\ r.args \in Kinds /\ CallOfATool(r)
         /\ r \in Forecasts =>
              /\ r.name = "weather_forecast" /\ r.days \in DayClasses
              /\ r.city \in {"absent", "empty", "blank", "text"}
         /\ r \in Unknown => r.name # "weather_forecast" /\ r.message \in Messages
<1>0. r \notin Forecasts \/ r \notin Unknown
  <2>1. ASSUME r \in Forecasts PROVE r.name = "weather_forecast"
    <3>1. PICK args \in Kinds, city \in {"absent", "empty", "blank", "text"}, days \in DayClasses :
            r = Forecast(args, city, days)
      BY <2>1 DEF Forecasts
    <3> QED BY <3>1 DEF Forecast, CallWith, NoRequest
  <2>2. ASSUME r \in Unknown PROVE r.name # "weather_forecast"
    <3>1. PICK name \in {"chat", "other"}, args \in Kinds, message \in Messages :
            r = Other(name, args, message)
      BY <2>2 DEF Unknown
    <3> QED BY <3>1 DEF Other, CallWith, NoRequest
  <2> QED BY <2>1, <2>2
<1>1. CASE r \in Forecasts
  <2>1. PICK args \in Kinds, city \in {"absent", "empty", "blank", "text"}, days \in DayClasses :
          r = Forecast(args, city, days)
    BY <1>1 DEF Forecasts
  <2>2. /\ r.name = "weather_forecast" /\ r.args = args /\ r.city = city /\ r.days = days
        /\ CallOfATool(r)
    BY <2>1 DEF Forecast, CallWith, NoRequest, CallOfATool
  <2> QED BY <1>0, <1>1, <2>2
<1>2. CASE r \in Unknown
  <2>1. PICK name \in {"chat", "other"}, args \in Kinds, message \in Messages :
          r = Other(name, args, message)
    BY <1>2 DEF Unknown
  <2>2. r.name = name /\ r.args = args /\ r.message = message /\ CallOfATool(r)
    BY <2>1 DEF Other, CallWith, NoRequest, CallOfATool
  <2> QED BY <1>0, <1>2, <2>2
<1> QED BY <1>1, <1>2

\* Messages that name no tool.
LEMMA MessyFields ==
  ASSUME NEW r \in Messy
  PROVE  /\ DOMAIN r = DOMAIN NoRequest /\ r.name = "absent"
         /\ r.body \in {"broken", "list", "scalar", "object"} /\ r.rpc \in BOOLEAN
         /\ r.method \in {"initialize", "tools/list", "tools/call", "server/discover", "ping"}
         /\ r.params \in Kinds /\ r.client \in Kinds
<1>1. PICK body \in {"broken", "list", "scalar", "object"}, rpc \in BOOLEAN,
           method \in {"initialize", "tools/list", "tools/call", "server/discover", "ping"},
           params \in Kinds, client \in Kinds :
        r = Mess(body, rpc, method, params, client)
  BY DEF Messy
<1> QED BY <1>1 DEF Mess, NoRequest

\* What arithmetic comes to is "none" exactly where both servers refuse, and
\* raises only for an int beyond the floats.
LEMMA ComputedNone ==
  ASSUME NEW op \in Operations \cup {"other"}, NEW a \in Operands, NEW b \in Operands, NEW x \in Computed(op, a, b)
  PROVE  /\ x = "none" <=> (op = "divide" /\ b = "zero") \/ {a, b} \cap (Operands \ Numbers) # {}
         /\ x = "raises" => "huge" \in {a, b}
<1> DEFINE both == {a, b}
<1>1. CASE (op = "divide" /\ b = "zero") \/ both \cap (Operands \ Numbers) # {}
  <2>1. Computed(op, a, b) = {"none"}
    BY <1>1 DEF Computed
  <2> QED BY <1>1, <2>1
<1>2. CASE ~((op = "divide" /\ b = "zero") \/ both \cap (Operands \ Numbers) # {})
  <2>1. Computed(op, a, b) \subseteq {"raises", "finite", "huge", "nan", "inf"}
    BY <1>2 DEF Computed
  <2>2. "huge" \notin both => "raises" \notin Computed(op, a, b)
    BY <1>2 DEF Computed
  <2> QED BY <1>2, <2>1, <2>2
<1> QED BY <1>1, <1>2

\* OddNumbers, of a result that is not yet an answer.
Odd(r, x) ==
  /\ r.name = "calculator" /\ r.op \in Operations /\ x # "none"
  /\ x = "raises" \/ {r.a, r.b, x} \cap NotFinite # {}

\* The three calculators, on one calculation.
LEMMA CalculatorsAgree ==
  ASSUME NEW r \in Calculations, NEW x \in Computed(r.op, r.a, r.b), NEW rest \in RestCalculator(r, x)
  PROVE  /\ Mcp(r, x) = McpLatest(WithMetadata(r), x) <=> ~Odd(r, x)
         /\ Mcp(r, x).code = "ok" /\ ~Odd(r, x) /\ "huge" \notin {r.a, r.b} => rest.code = "ok"
         /\ rest.code = "ok" /\ "digits" \notin {r.a, r.b} => Mcp(r, x).code = "ok"
         /\ McpLatest(WithMetadata(r), x) = Crash => Odd(r, x)
<1> DEFINE op == r.op  a == r.a  b == r.b
<1>2. /\ op \in Operations \cup {"other"} /\ a \in Operands /\ b \in Operands
      /\ r.name = "calculator" /\ r.args = "object" /\ CallOfATool(r)
  BY CalculationFields
<1>3. McpLatest(WithMetadata(r), x) = LatestCalculator(r, x) /\ Mcp(r, x) = Calculator(r, x)
  BY <1>2, MetadataPasses DEF HasGet, HasGetOr, Given
<1>4. /\ x = "none" <=> (op = "divide" /\ b = "zero") \/ {a, b} \cap (Operands \ Numbers) # {}
      /\ x = "raises" => "huge" \in {a, b}
  <2> HIDE DEF op, a, b
  <2>1. x \in Computed(op, a, b)
    BY DEF op, a, b
  <2> QED BY <1>2, <2>1, ComputedNone
<1>5. CASE op = "other" \/ x = "none"
  <2>1. Calculator(r, x) = Answer(200, "invalid") /\ LatestCalculator(r, x) = Answer(200, "invalid") /\ ~Odd(r, x)
    BY <1>2, <1>4, <1>5 DEF Calculator, LatestCalculator, Odd, Operations
  <2>2. rest.code = "ok" => "digits" \in {a, b}
    BY <1>2, <1>4, <1>5 DEF RestCalculator, RestTakes, Operations, Operands, Numbers, Answer
  <2> QED BY <1>2, <1>3, <2>1, <2>2 DEF Answer, Crash
<1>6. CASE op \in Operations /\ x # "none"
  <2>1. /\ Calculator(r, x) = IF x = "raises" THEN Answer(200, "failed") ELSE Answer(200, "ok")
        /\ LatestCalculator(r, x) =
             IF x = "raises" \/ {a, b, x} \cap NotFinite # {} THEN Crash ELSE Answer(200, "ok")
        /\ Odd(r, x) <=> x = "raises" \/ {a, b, x} \cap NotFinite # {}
    BY <1>2, <1>4, <1>6 DEF Calculator, LatestCalculator, Odd
  <2>2. a \in Numbers /\ b \in Numbers /\ ~(op = "divide" /\ b = "zero")
    BY <1>2, <1>4, <1>6
  <2>3. ~Odd(r, x) /\ "huge" \notin {a, b} => rest.code = "ok"
    <3>1. ~Odd(r, x) => x \notin NotFinite
      BY <2>1
    <3>2. "huge" \notin {a, b} => RestTakes(a) /\ RestTakes(b)
      BY <2>2 DEF RestTakes
    <3>3. ~Odd(r, x) /\ "huge" \notin {a, b} => RestCalculator(r, x) = {Answer(200, "ok")}
      BY <1>6, <2>2, <3>1, <3>2 DEF RestCalculator
    <3> QED BY <3>3 DEF Answer
  <2>4. rest.code = "ok" => x # "raises"
    BY <1>2, <1>4 DEF RestCalculator, RestTakes, Answer
  <2> QED BY <1>2, <1>3, <2>1, <2>3, <2>4 DEF Answer, Crash
<1> QED BY <1>2, <1>5, <1>6

\* The stateless server fails on a forecast only where the older does.
LEMMA ForecastsAgree ==
  ASSUME NEW r \in Forecasts \cup Unknown, NEW x, McpLatest(WithMetadata(r), x) = Crash
  PROVE  Mcp(r, x) = Crash
<1>1. r.name \notin {"absent", "calculator"} /\ r.args \in Kinds /\ CallOfATool(r)
  BY ForecastFields
<1>2. r.name = "weather_forecast" /\ (~HasGetOr(r.args) \/ LatestWeather(Given(r)) = Crash)
  BY <1>1, MetadataPasses DEF Answer, Crash
<1>3. Mcp(r, x) = IF ~HasGet(r.args) THEN Crash ELSE Weather(Given(r))
  BY <1>1, <1>2, MetadataPasses
<1>4. LatestWeather(Given(r)) = Weather(Given(r))
  BY DEF LatestWeather, Weather
<1> QED BY <1>1, <1>2, <1>3, <1>4 DEF HasGet, HasGetOr, Kinds

\* The two MCP servers and the REST API, on one forecast.
LEMMA WeathersAgree ==
  ASSUME NEW r \in Forecasts, NEW x
  PROVE  /\ r.args # "null" => Mcp(r, x) = McpLatest(WithMetadata(r), x)
         /\ RestWeather(r).code = "ok" /\ r.args = "object" => Mcp(r, x).code = "ok"
         /\ Mcp(r, x).code = "ok" /\ RestWeather(r).code # "ok" => r.city = "blank" \/ r.days \in {"true", "fraction"}
<1>1. /\ r.name = "weather_forecast" /\ r.args \in Kinds /\ CallOfATool(r) /\ r.days \in DayClasses
      /\ r.city \in {"absent", "empty", "blank", "text"}
  BY ForecastFields
<1>2. /\ McpLatest(WithMetadata(r), x) = IF ~HasGetOr(r.args) THEN Crash ELSE LatestWeather(Given(r))
      /\ Mcp(r, x) = IF ~HasGet(r.args) THEN Crash ELSE Weather(Given(r))
  BY <1>1, MetadataPasses
<1>3. LatestWeather(Given(r)) = Weather(Given(r))
  BY DEF LatestWeather, Weather
<1>4. r.args # "null" => (HasGet(r.args) <=> HasGetOr(r.args))
  BY <1>1 DEF HasGet, HasGetOr, Kinds
<1>5. r.args = "object" => Mcp(r, x) = Weather(r)
  BY <1>2 DEF HasGet, Given
<1>6. r.args # "object" => Mcp(r, x).code # "ok"
  <2>1. r.args # "object" => Weather(Given(r)).code # "ok"
    BY <1>1 DEF Weather, Given, NoArguments, CallOfATool, NoRequest, Answer
  <2> QED BY <1>2, <2>1 DEF Crash, Answer
<1>7. RestWeather(r).code = "ok" => Weather(r).code = "ok"
  BY <1>1 DEF RestWeather, Weather, DaysPass, Answer
<1>8. Weather(r).code = "ok" /\ RestWeather(r).code # "ok" => r.city = "blank" \/ r.days \in {"true", "fraction"}
  BY <1>1 DEF RestWeather, Weather, DaysPass, DayClasses, Answer, Crash
<1> QED BY <1>2, <1>3, <1>4, <1>5, <1>6, <1>7, <1>8

\* The chat server and the REST API's greeting, on one call by name.
LEMMA ChatsAgree ==
  ASSUME NEW r \in Unknown, r.name = "chat", r.args = "object", r.message # "number"
  PROVE  McpChat(r).code = RestGreeting(r).code
<1>1. CallOfATool(r) /\ r.message \in Messages
  BY ForecastFields
<1>2. McpChat(r) = Chat(r)
  BY <1>1 DEF CallOfATool, McpChat, ChatToolsCall, HasGet
<1> QED BY <1>1, <1>2 DEF Chat, RestGreeting, Messages, Answer

\* And the chat server and the older MCP server, on what is no call.
LEMMA OthersAgree ==
  ASSUME NEW r, NEW x, r.method # "tools/call"
  PROVE  \/ McpChat(r) = Mcp(r, x)
         \/ r.method = "initialize" /\ Mcp(r, x) = Crash /\ McpChat(r).code = "ok"
<1>1. CASE r.body = "object" /\ r.rpc /\ r.method = "initialize"
  BY <1>1 DEF McpChat, Mcp, Initialize, Answer
<1>2. CASE ~(r.body = "object" /\ r.rpc /\ r.method = "initialize")
  BY <1>2 DEF McpChat, Mcp, ToolsList
<1> QED BY <1>1, <1>2

\* And on whatever else is sent, but for a list of params and for
\* server/discover, which look at members that the older does not.
LEMMA MessyAgree ==
  ASSUME NEW r \in Messy, NEW x, McpLatest(WithMetadata(r), x) = Crash
  PROVE  Mcp(r, x) = Crash \/ r.method = "server/discover" \/ r.params = "list"
<1> DEFINE m == WithMetadata(r)
           body == r.body  rpc == r.rpc  method == r.method  params == r.params
<1>1. /\ DOMAIN r = DOMAIN NoRequest /\ r.name = "absent"
      /\ body \in {"broken", "list", "scalar", "object"} /\ rpc \in BOOLEAN
      /\ method \in {"initialize", "tools/list", "tools/call", "server/discover", "ping"}
      /\ params \in Kinds
  BY MessyFields
<1>2. /\ m.body = body /\ m.rpc = rpc /\ m.method = method /\ m.params = params /\ m.name = "absent"
      /\ m.meta = "object" /\ m.hName = "absent"
  BY <1>1 DEF WithMetadata, LatestClientRequest, NoRequest
<1> HIDE DEF m
<1> SUFFICES ASSUME body = "object", method # "server/discover", params # "list" PROVE FALSE
  <2>1. CASE body # "object"
    BY <1>2, <2>1 DEF McpLatest, Mcp, LatestOrigin, AllowedOrigins, Answer, Crash, m
  <2> QED BY <1>2, <2>1
<1>3. LatestMetadata(m) # Crash
  <2>1. HasGetOr(m.params) /\ HasGetOr(m.meta)
    BY <1>1, <1>2 DEF HasGetOr, Kinds
  <2>2. LatestMetadata(m) \in {Answer(400, "mismatch"), Answer(400, "version"), Answer(200, "ok")}
    BY <2>1 DEF LatestMetadata
  <2> QED BY <2>2 DEF Answer, Crash
<1>4. method = "tools/call" => LatestMetadata(m).code # "ok"
  BY <1>2 DEF LatestMetadata, HasGetOr, Kinds, Answer, Crash
<1>5. McpLatest(m, x) \in {LatestMetadata(m), Answer(400, "badRequest"), Answer(200, "ok"), Answer(404, "noMethod")}
  BY <1>2, <1>4 DEF McpLatest, LatestOrigin, AllowedOrigins, LatestToolsList, Answer
<1> QED BY <1>3, <1>5 DEF Answer, Crash, m

\* Of one message the MCP servers, the chat server and the REST API say the same,
\* but where ServersAgree names a cause: a number that one of them cannot hold
\* or encode, a string of digits, or a member that only one of them looks at.
THEOREM ServersAreAgreed == SampleSpec => []ServersAgree
<1>1. RepliedInv => ServersAgree
  <2> SUFFICES ASSUME RepliedInv, Answered("message") PROVE ServersAgree
    BY DEF ServersAgree
  <2> DEFINE r == input.r
  <2>1. r \in Calculations \cup Forecasts \cup Unknown \cup Messy
    BY DEF RepliedInv, Answered, Inputs
  <2>2. PICK x \in Computed(r.op, r.a, r.b) :
          /\ answers.computed = x /\ answers.mcp = Mcp(r, x) /\ answers.latest = McpLatest(WithMetadata(r), x)
          /\ answers.chat = McpChat(r)
          /\ answers.rest \in (CASE r.name = "calculator" -> RestCalculator(r, x)
                                 [] r.name = "weather_forecast" -> {RestWeather(r)}
                                 [] OTHER -> {RestGreeting(r)})
    BY DEF RepliedInv, Replied, Answered
  <2>3. OddNumbers(r) <=> Odd(r, x)
    BY <2>2 DEF OddNumbers, Odd
  <2> HIDE DEF r
  <2>4. CASE r \in Calculations
    <3>1. r.name = "calculator" /\ r \notin Forecasts \cup Unknown \cup Messy
      BY <2>4, CalculationFields, ForecastFields, MessyFields
    <3>2. answers.rest \in RestCalculator(r, x)
      BY <2>2, <3>1
    <3>3. CalculationsAlike(r) /\ (answers.latest = Crash => OddNumbers(r))
      BY <2>2, <2>3, <2>4, <3>2, CalculatorsAgree DEF CalculationsAlike
    <3> QED BY <3>1, <3>3 DEF ServersAgree, r
  <2>5. CASE r \in Forecasts
    <3>1. r.name = "weather_forecast" /\ r \notin Calculations \cup Unknown \cup Messy
      BY <2>5, CalculationFields, ForecastFields, MessyFields
    <3>2. answers.rest = RestWeather(r)
      BY <2>2, <3>1
    <3>3. ForecastsAlike(r)
      BY <2>2, <2>5, <3>2, WeathersAgree DEF ForecastsAlike
    <3>4. answers.latest = Crash => answers.mcp = Crash
      BY <2>2, <2>5, ForecastsAgree
    <3> QED BY <3>1, <3>3, <3>4 DEF ServersAgree, r
  <2>6. CASE r \in Unknown
    <3>1. r.name \notin {"calculator", "weather_forecast"} /\ r \notin Calculations \cup Forecasts
      BY <2>6, CalculationFields, ForecastFields
    <3>2. answers.rest = RestGreeting(r)
      BY <2>2, <3>1
    <3>3. r.method = "tools/call"
      BY <2>6, ForecastFields DEF CallOfATool
    <3>4. ChatAlike(r)
      BY <2>2, <2>6, <3>2, <3>3, ChatsAgree DEF ChatAlike
    <3>5. answers.latest = Crash => answers.mcp = Crash
      BY <2>2, <2>6, ForecastsAgree
    <3> QED BY <3>1, <3>4, <3>5 DEF ServersAgree, r
  <2>7. CASE r \in Messy
    <3>1. r.name = "absent" /\ r \notin Calculations \cup Forecasts
      BY <2>7, CalculationFields, ForecastFields, MessyFields
    <3>2. ChatAlike(r)
      BY <2>2, <3>1, OthersAgree DEF ChatAlike
    <3>3. answers.latest = Crash => answers.mcp = Crash \/ r.method = "server/discover" \/ r.params = "list"
      BY <2>2, <2>7, MessyAgree
    <3> QED BY <3>1, <3>2, <3>3 DEF ServersAgree, r
  <2> QED BY <2>1, <2>4, <2>5, <2>6, <2>7
<1> QED BY <1>1, RepliedInvariant, PTL
=============================================================================
