--------------------------- MODULE LoadTestProofs ---------------------------
(***************************************************************************)
(* Proofs about the load test: the server that runs locust, for every      *)
(* number of runs, stop requests and scenarios, and the locust file it     *)
(* runs in its iterations mode, for every set of users and every budget.   *)
(*                                                                         *)
(* LoadTestServer.  The inductive invariant says, run by run, what the     *)
(* place of its thread implies about the processes it has spawned.         *)
(***************************************************************************)
EXTENDS LoadTestServer, LocustIterations, FiniteSetTheorems, TLAPS

USE RunsAssumption, ScenariosAssumption, NoProcAssumption

Stopped == {"terminating", "exited"}

\* What the place of a single run's thread says of its only process.
SingleAt(r) ==
  /\ pc[r] \in {"idle", "submitted", "refused", "failed"} => procs[<<r, 1>>] = "none"
  /\ pc[r] = "streaming" => procs[<<r, 1>>] # "none"
  /\ pc[r] = "doneYield" => procs[<<r, 1>>] = "exited"
  /\ pc[r] \in {"clearing", "finished"} => procs[<<r, 1>>] \in Stopped

\* What the place of a suite's thread says of the process k of the suite.
SuiteAt(u, k) ==
  /\ k > scen[u] => procs[<<u, k>>] = "none"
  /\ k < scen[u] => procs[<<u, k>>] = "exited"
  /\ k = scen[u] =>
       /\ pc[u] # "idle"
       /\ pc[u] \in {"scenarioStart", "failed"} => procs[<<u, k>>] = "none"
       /\ pc[u] \in {"spawned", "reading"} => procs[<<u, k>>] # "none"
       /\ pc[u] \in {"waiting", "closing"} => procs[<<u, k>>] \in Stopped
       /\ pc[u] \in {"loopHead", "clearing", "scenarioEnd", "doneYield", "finished"}
            => procs[<<u, k>>] = "exited"
       /\ pc[u] = "closed" => procs[<<u, k>>] \in {"none", "exited"}

ProcInv ==
  /\ \A r \in SingleRuns : SingleAt(r)
  /\ \A u \in SuiteRuns : \A k \in 1 .. NumScenarios : SuiteAt(u, k)

\* A late scenario was spawned with the flag up, and the next one would need
\* the flag down at the head of the loop.
LateInv ==
  \A u \in SuiteRuns :
    lateSpawns[u] > 0 => lateSpawns[u] = 1 /\ suiteStop /\ pc[u] # "scenarioStart"

FileInv ==
  \A r \in Runs :
    /\ tmpFile[r] = "removed" => pc[r] \in {"finished", "refused"}
    /\ pc[r] \in {"finished", "refused"} => tmpFile[r] # "present"

-----------------------------------------------------------------------------
\* From its first scenario on, a suite's process is a member of Procs.
ScenInv ==
  \A u \in SuiteRuns :
    pc[u] \in {"scenarioStart", "spawned", "reading", "waiting", "closing",
              "clearing", "scenarioEnd"} => scen[u] > 0

TypeInv == TypeOK /\ ScenInv

\* Every variable keeps its type.
THEOREM TypeCorrect == Spec => []TypeInv
<1>1. Init => TypeInv
  <2> USE DEF Init, Runs
  <2>1. Init => TypeOK
    <3> SUFFICES ASSUME Init PROVE TypeOK
      OBVIOUS
    <3>1. pc \in [Runs -> SingleLocs \cup SuiteLocs]
      BY DEF SingleLocs, SuiteLocs
    <3>2. /\ \A r \in SingleRuns : pc[r] \in SingleLocs
          /\ \A u \in SuiteRuns : pc[u] \in SuiteLocs
      BY DEF SingleLocs, SuiteLocs
    <3>3. suiteStop \in BOOLEAN
      OBVIOUS
    <3> QED BY <3>1, <3>2, <3>3 DEF TypeOK
  <2>2. Init => ScenInv
    BY DEF ScenInv
  <2> QED BY <2>1, <2>2 DEF TypeInv
<1>2. TypeInv /\ [Next]_vars => TypeInv'
  <2> SUFFICES ASSUME TypeInv, [Next]_vars PROVE TypeInv'
    OBVIOUS
  <2> USE DEF TypeInv, ScenInv, TypeOK, Runs, SingleLocs, SuiteLocs, Goto, stopVars, suiteVars
  <2>1. ASSUME NEW r \in SingleRuns, SingleStep(r) \/ StreamClosed(r) PROVE TypeInv'
    <3>1. <<r, 1>> \in Procs
      BY DEF Procs
    <3> USE <3>1 DEF SingleProc, Spawn, Terminate, Unlink, WriteTmpFile
    <3>2. CASE Submit(r)
      BY <3>2 DEF Submit
    <3>3. CASE StartRefused(r)
      BY <3>3 DEF StartRefused
    <3>4. CASE StartOk(r)
      BY <3>4 DEF StartOk
    <3>5. CASE StartRaises(r)
      BY <3>5 DEF StartRaises
    <3>6. CASE StreamEof(r)
      BY <3>6 DEF StreamEof
    <3>7. CASE StreamDone(r)
      BY <3>7 DEF StreamDone
    <3>8. CASE ClearSlot(r)
      BY <3>8 DEF ClearSlot, EmptySlot
    <3>9. CASE StreamClosed(r)
      BY <3>9 DEF StreamClosed
    <3> QED BY <2>1, <3>2, <3>3, <3>4, <3>5, <3>6, <3>7, <3>8, <3>9 DEF SingleStep
  <2>2. ASSUME NEW u \in SuiteRuns,
               SuiteStep(u) \/ SuiteClosedReading(u) \/ SuiteClosedBetween(u)
        PROVE  TypeInv'
    <3> USE DEF SuiteProc, Spawn, Terminate, Unlink, WriteTmpFile
    <3>1. scen[u] > 0 => <<u, scen[u]>> \in Procs
      BY DEF Procs
    <3>2. CASE SuiteSubmit(u)
      <4>1. suiteStop' \in BOOLEAN /\ lateSpawns' \in [SuiteRuns -> Nat]
        BY <3>2 DEF SuiteSubmit
      <4>2. tmpFile' \in [Runs -> {"none", "present", "removed"}]
        BY <3>2 DEF SuiteSubmit
      <4> QED BY <3>2, <4>1, <4>2 DEF SuiteSubmit
    <3>3. CASE SuiteNextScenario(u)
      BY <3>3 DEF SuiteNextScenario
    <3>4. CASE SuiteSpawn(u)
      <4>1. lateSpawns' \in [SuiteRuns -> Nat]
        BY <3>4 DEF SuiteSpawn
      <4> QED BY <3>4, <4>1 DEF SuiteSpawn
    <3>5. CASE SuiteLineAfterStop(u)
      BY <3>5 DEF SuiteLineAfterStop
    <3>6. CASE SuiteClosedReading(u)
      BY <3>6 DEF SuiteClosedReading
    <3>7. CASE SuiteFillSlot(u)
      BY <3>7, <3>1 DEF SuiteFillSlot
    <3>8. CASE SuiteClear(u)
      BY <3>8 DEF SuiteClear, EmptySlot
    <3>9. CASE SuiteClosedClear(u)
      BY <3>9 DEF SuiteClosedClear, EmptySlot
    <3>10. CASE SuiteDone(u)
      BY <3>10 DEF SuiteDone
    <3>11. CASE SuiteLoopEnds(u)
      BY <3>11 DEF SuiteLoopEnds
    <3>12. CASE SuiteSpawnRaises(u)
      BY <3>12 DEF SuiteSpawnRaises
    <3>13. CASE SuiteEof(u)
      BY <3>13 DEF SuiteEof
    <3>14. CASE SuiteWaited(u)
      BY <3>14 DEF SuiteWaited
    <3>15. CASE SuiteScenarioDone(u)
      BY <3>15 DEF SuiteScenarioDone
    <3>16. CASE SuiteClosedBetween(u)
      BY <3>16 DEF SuiteClosedBetween
    <3> QED BY <2>2, <3>2, <3>3, <3>4, <3>5, <3>6, <3>7, <3>8, <3>9, <3>10, <3>11, <3>12, <3>13,
               <3>14, <3>15, <3>16 DEF SuiteStep
  <2>3. ASSUME NEW s \in StopCalls, StopStep(s) PROVE TypeInv'
    <3>1. CASE StopFlag(s)
      BY <3>1 DEF StopFlag
    <3>2. CASE StopRead(s)
      BY <3>2 DEF StopRead
    <3>3. CASE StopReply(s)
      BY <3>3 DEF StopReply, Terminate
    <3> QED BY <2>3, <3>1, <3>2, <3>3 DEF StopStep
  <2>4. ASSUME NEW p \in Procs, ProcEnds(p) \/ ProcObeysSigterm(p) PROVE TypeInv'
    BY <2>4 DEF ProcEnds, ProcObeysSigterm, ExitOf
  <2>5. CASE UNCHANGED vars
    BY <2>5 DEF vars
  <2> QED BY <2>1, <2>2, <2>3, <2>4, <2>5 DEF Next, ClientGone
<1> QED BY <1>1, <1>2, PTL DEF Spec

-----------------------------------------------------------------------------
\* A process moves forward only: /stop and the operating system do no more
\* to it than stop it, which no place of its run's thread objects to.
Advances(p) ==
  \/ procs'[p] = procs[p]
  \/ procs[p] = "running" /\ procs'[p] \in Stopped
  \/ procs[p] = "terminating" /\ procs'[p] = "exited"

LEMMA StoppingKeepsProcInv ==
  ASSUME TypeInv, ProcInv, UNCHANGED <<pc, scen>>, \A p \in Procs : Advances(p)
  PROVE  ProcInv'
<1>1. ASSUME NEW r \in SingleRuns PROVE SingleAt(r)'
  <2>1. SingleAt(r) /\ Advances(<<r, 1>>)
    BY DEF ProcInv, Procs
  <2> QED BY <2>1 DEF SingleAt, Advances, Stopped
<1>2. ASSUME NEW u \in SuiteRuns, NEW k \in 1 .. NumScenarios PROVE SuiteAt(u, k)'
  <2>1. SuiteAt(u, k) /\ Advances(<<u, k>>)
    BY DEF ProcInv, Procs
  <2> QED BY <2>1 DEF SuiteAt, Advances, Stopped
<1> QED BY <1>1, <1>2 DEF ProcInv

\* A step of one run leaves what is said of the other runs as it is.
LEMMA OthersUntouched ==
  ASSUME TypeInv, ProcInv, NEW r \in Runs,
         \A q \in Runs \ {r} : pc'[q] = pc[q],
         \A v \in SuiteRuns \ {r} : scen'[v] = scen[v],
         \A p \in Procs : p[1] # r => procs'[p] = procs[p]
  PROVE  /\ \A q \in SingleRuns \ {r} : SingleAt(q)'
         /\ \A v \in SuiteRuns \ {r} : \A k \in 1 .. NumScenarios : SuiteAt(v, k)'
<1>1. ASSUME NEW q \in SingleRuns \ {r} PROVE SingleAt(q)'
  <2>1. procs'[<<q, 1>>] = procs[<<q, 1>>] /\ pc'[q] = pc[q]
    BY DEF Procs, Runs
  <2> QED BY <2>1 DEF SingleAt, ProcInv
<1>2. ASSUME NEW v \in SuiteRuns \ {r}, NEW k \in 1 .. NumScenarios PROVE SuiteAt(v, k)'
  <2>1. procs'[<<v, k>>] = procs[<<v, k>>] /\ pc'[v] = pc[v] /\ scen'[v] = scen[v]
    BY DEF Procs, Runs
  <2> QED BY <2>1 DEF SuiteAt, ProcInv
<1> QED BY <1>1, <1>2

\* The steps of a single run keep what is said of its own process.
LEMMA SingleKeepsProcInv ==
  ASSUME TypeInv, ProcInv, NEW r \in SingleRuns, SingleStep(r) \/ StreamClosed(r)
  PROVE  ProcInv'
<1> USE DEF TypeInv, TypeOK
<1>1. r \in Runs /\ <<r, 1>> \in Procs /\ SingleAt(r)
  BY DEF Runs, Procs, ProcInv
<1>2. /\ \A q \in Runs \ {r} : pc'[q] = pc[q]
      /\ UNCHANGED scen
      /\ \A p \in Procs : p[1] # r => procs'[p] = procs[p]
  BY <1>1 DEF SingleStep, Submit, StartRefused, StartOk, StartRaises, StreamEof, StreamDone,
     ClearSlot, StreamClosed, Goto, Spawn, Terminate, SingleProc, suiteVars
<1>3. SingleAt(r)'
  <2> USE <1>1 DEF SingleAt, Goto, SingleProc, Stopped
  <2>1. CASE Submit(r) \/ StartRefused(r) \/ StartRaises(r)
    BY <2>1 DEF Submit, StartRefused, StartRaises
  <2>2. CASE StartOk(r)
    BY <2>2 DEF StartOk, Spawn
  <2>3. CASE StreamEof(r) \/ StreamDone(r) \/ ClearSlot(r)
    BY <2>3 DEF StreamEof, StreamDone, ClearSlot
  <2>4. CASE StreamClosed(r)
    BY <2>4 DEF StreamClosed, Terminate
  <2> QED BY <2>1, <2>2, <2>3, <2>4 DEF SingleStep
<1>4. /\ \A q \in SingleRuns \ {r} : SingleAt(q)'
      /\ \A v \in SuiteRuns \ {r} : \A k \in 1 .. NumScenarios : SuiteAt(v, k)'
  BY <1>1, <1>2, OthersUntouched
<1> QED BY <1>3, <1>4 DEF ProcInv

\* The steps of a suite keep what is said of its own processes.
LEMMA SuiteKeepsProcInv ==
  ASSUME TypeInv, ProcInv, NEW u \in SuiteRuns,
         SuiteStep(u) \/ SuiteClosedReading(u) \/ SuiteClosedBetween(u)
  PROVE  ProcInv'
<1> USE DEF TypeInv, TypeOK
<1>1. u \in Runs
  BY DEF Runs
<1>2. /\ \A q \in Runs \ {u} : pc'[q] = pc[q]
      /\ \A v \in SuiteRuns \ {u} : scen'[v] = scen[v]
      /\ \A p \in Procs : p[1] # u => procs'[p] = procs[p]
  BY <1>1 DEF SuiteStep, SuiteSubmit, SuiteNextScenario, SuiteLoopEnds, SuiteSpawn,
     SuiteSpawnRaises, SuiteFillSlot, SuiteLineAfterStop, SuiteEof, SuiteWaited, SuiteClear,
     SuiteScenarioDone, SuiteDone, SuiteClosedClear, SuiteClosedReading, SuiteClosedBetween,
     Goto, Spawn, Terminate, SuiteProc, suiteVars
<1>3. ASSUME NEW k \in 1 .. NumScenarios PROVE SuiteAt(u, k)'
  <2>1. SuiteAt(u, k) /\ <<u, k>> \in Procs
    BY DEF ProcInv, Procs
  <2>2. scen[u] \in 0 .. NumScenarios /\ (scen[u] > 0 => <<u, scen[u]>> \in Procs)
    BY DEF Procs
  <2> USE <2>1, <2>2 DEF SuiteAt, Goto, SuiteProc, Stopped, suiteVars
  <2>3. CASE SuiteNextScenario(u)
    BY <2>3, <1>1 DEF SuiteNextScenario
  <2>4. CASE SuiteSpawn(u)
    BY <2>4, <1>1 DEF SuiteSpawn, Spawn
  <2>5. CASE SuiteLineAfterStop(u) \/ SuiteClosedReading(u)
    BY <2>5, <1>1 DEF SuiteLineAfterStop, SuiteClosedReading, Terminate
  <2>6. CASE \/ SuiteSubmit(u) \/ SuiteLoopEnds(u) \/ SuiteSpawnRaises(u) \/ SuiteFillSlot(u)
             \/ SuiteEof(u) \/ SuiteWaited(u) \/ SuiteClear(u) \/ SuiteScenarioDone(u)
             \/ SuiteDone(u) \/ SuiteClosedClear(u) \/ SuiteClosedBetween(u)
    BY <2>6, <1>1 DEF SuiteSubmit, SuiteLoopEnds, SuiteSpawnRaises, SuiteFillSlot, SuiteEof,
       SuiteWaited, SuiteClear, SuiteScenarioDone, SuiteDone, SuiteClosedClear,
       SuiteClosedBetween
  <2> QED BY <2>3, <2>4, <2>5, <2>6 DEF SuiteStep
<1>4. /\ \A q \in SingleRuns \ {u} : SingleAt(q)'
      /\ \A v \in SuiteRuns \ {u} : \A k \in 1 .. NumScenarios : SuiteAt(v, k)'
  BY <1>1, <1>2, OthersUntouched
<1> QED BY <1>3, <1>4 DEF ProcInv

\* What the places of the threads imply about the processes always holds.
THEOREM ProcInvHolds == Spec => []ProcInv
<1>1. Init => ProcInv
  BY DEF Init, ProcInv, SingleAt, SuiteAt, Runs, Procs
<1>2. TypeInv /\ ProcInv /\ [Next]_vars => ProcInv'
  <2> SUFFICES ASSUME TypeInv, ProcInv, [Next]_vars PROVE ProcInv'
    OBVIOUS
  <2>1. ASSUME NEW r \in SingleRuns, SingleStep(r) \/ StreamClosed(r) PROVE ProcInv'
    BY <2>1, SingleKeepsProcInv
  <2>2. ASSUME NEW u \in SuiteRuns,
               SuiteStep(u) \/ SuiteClosedReading(u) \/ SuiteClosedBetween(u)
        PROVE  ProcInv'
    BY <2>2, SuiteKeepsProcInv
  <2>3. ASSUME NEW s \in StopCalls, StopStep(s) PROVE ProcInv'
    <3>1. \A p \in Procs : Advances(p)
      BY <2>3 DEF StopStep, StopFlag, StopRead, StopReply, Terminate, Advances, Stopped,
         TypeInv, TypeOK
    <3>2. UNCHANGED <<pc, scen>>
      BY <2>3 DEF StopStep, StopFlag, StopRead, StopReply, suiteVars
    <3> QED BY <3>1, <3>2, StoppingKeepsProcInv
  <2>4. ASSUME NEW p \in Procs, ProcEnds(p) \/ ProcObeysSigterm(p) PROVE ProcInv'
    <3>1. \A q \in Procs : Advances(q)
      BY <2>4 DEF ProcEnds, ProcObeysSigterm, ExitOf, Advances, Stopped, TypeInv, TypeOK
    <3>2. UNCHANGED <<pc, scen>>
      BY <2>4 DEF ProcEnds, ProcObeysSigterm, ExitOf, suiteVars
    <3> QED BY <3>1, <3>2, StoppingKeepsProcInv
  <2>5. CASE UNCHANGED vars
    BY <2>5 DEF vars, ProcInv, SingleAt, SuiteAt
  <2> QED BY <2>1, <2>2, <2>3, <2>4, <2>5 DEF Next, ClientGone
<1> QED BY <1>1, <1>2, TypeCorrect, PTL DEF Spec

\* NoOrphanTest: a response that has ended leaves no test running unstopped.
THEOREM NoOrphans == Spec => []NoOrphanTest
<1>1. TypeInv /\ ProcInv => NoOrphanTest
  <2> SUFFICES ASSUME TypeInv, ProcInv, NEW p \in Procs, procs[p] = "running"
               PROVE  pc[p[1]] \in {"streaming", "spawned", "reading"}
    BY DEF NoOrphanTest
  <2> USE DEF TypeInv, TypeOK
  <2>1. CASE p \in SingleRuns \X {1}
    <3>1. PICK r \in SingleRuns : p = <<r, 1>>
      BY <2>1
    <3>2. SingleAt(r) /\ pc[r] \in SingleLocs
      BY DEF ProcInv
    <3> QED BY <3>1, <3>2 DEF SingleAt, Stopped, SingleLocs
  <2>2. CASE p \in SuiteRuns \X (1 .. NumScenarios)
    <3>1. PICK u \in SuiteRuns, k \in 1 .. NumScenarios : p = <<u, k>>
      BY <2>2
    <3>2. SuiteAt(u, k) /\ pc[u] \in SuiteLocs /\ scen[u] \in 0 .. NumScenarios
      BY DEF ProcInv
    <3>3. k = scen[u]
      BY <3>1, <3>2 DEF SuiteAt
    <3> QED BY <3>1, <3>2, <3>3 DEF SuiteAt, Stopped, SuiteLocs
  <2> QED BY <2>1, <2>2 DEF Procs
<1> QED BY <1>1, TypeCorrect, ProcInvHolds, PTL

\* SuiteIsSequential: a scenario starts only when the one before has exited.
THEOREM SuitesAreSequential == Spec => []SuiteIsSequential
<1>1. ProcInv => SuiteIsSequential
  BY DEF ProcInv, SuiteAt, SuiteIsSequential
<1> QED BY <1>1, ProcInvHolds, PTL

-----------------------------------------------------------------------------
\* AtMostOneLateScenario: one stop request lets at most one more scenario of
\* a suite start, however the request and the suite interleave.
THEOREM StopIsTimely == Spec => []AtMostOneLateScenario
<1>1. Init => LateInv
  BY DEF Init, LateInv
<1>2. TypeInv /\ LateInv /\ [Next]_vars => LateInv'
  <2> SUFFICES ASSUME TypeInv, LateInv, [Next]_vars, NEW v \in SuiteRuns, lateSpawns'[v] > 0
               PROVE  lateSpawns'[v] = 1 /\ suiteStop' /\ pc'[v] # "scenarioStart"
    BY DEF LateInv
  <2> USE DEF LateInv, TypeInv, TypeOK, Runs, Goto, suiteVars, stopVars, StopSeen
  <2>1. ASSUME NEW r \in SingleRuns, SingleStep(r) \/ StreamClosed(r)
        PROVE  UNCHANGED <<lateSpawns, suiteStop>> /\ pc'[v] = pc[v]
    BY <2>1, RunsAssumption DEF SingleStep, Submit, StartRefused, StartOk, StartRaises,
       StreamEof, StreamDone, ClearSlot, StreamClosed
  <2>2. ASSUME NEW u \in SuiteRuns, SuiteSubmit(u) PROVE FALSE
    BY <2>2 DEF SuiteSubmit
  <2>3. ASSUME NEW u \in SuiteRuns, SuiteNextScenario(u)
        PROVE  lateSpawns'[v] = 1 /\ suiteStop' /\ pc'[v] # "scenarioStart"
    BY <2>3 DEF SuiteNextScenario
  <2>4. ASSUME NEW u \in SuiteRuns, SuiteSpawn(u)
        PROVE  lateSpawns'[v] = 1 /\ suiteStop' /\ pc'[v] # "scenarioStart"
    <3>1. CASE suiteStop
      BY <2>4, <3>1 DEF SuiteSpawn
    <3>2. CASE ~suiteStop
      BY <2>4, <3>2 DEF SuiteSpawn
    <3> QED BY <3>1, <3>2
  <2>5. ASSUME NEW u \in SuiteRuns,
               \/ SuiteLoopEnds(u) \/ SuiteSpawnRaises(u) \/ SuiteFillSlot(u)
               \/ SuiteLineAfterStop(u) \/ SuiteEof(u) \/ SuiteWaited(u) \/ SuiteClear(u)
               \/ SuiteScenarioDone(u) \/ SuiteDone(u) \/ SuiteClosedClear(u)
               \/ SuiteClosedReading(u) \/ SuiteClosedBetween(u)
        PROVE  /\ UNCHANGED <<lateSpawns, suiteStop>>
               /\ pc'[v] = "scenarioStart" => pc[v] = "scenarioStart"
    BY <2>5 DEF SuiteLoopEnds, SuiteSpawnRaises, SuiteFillSlot, SuiteLineAfterStop, SuiteEof,
       SuiteWaited, SuiteClear, SuiteScenarioDone, SuiteDone, SuiteClosedClear,
       SuiteClosedReading, SuiteClosedBetween
  <2>6. ASSUME NEW s \in StopCalls, StopStep(s)
        PROVE  UNCHANGED <<lateSpawns, pc>> /\ (suiteStop => suiteStop')
    BY <2>6 DEF StopStep, StopFlag, StopRead, StopReply
  <2>7. ASSUME NEW p \in Procs, ProcEnds(p) \/ ProcObeysSigterm(p)
        PROVE  UNCHANGED <<lateSpawns, suiteStop, pc>>
    BY <2>7 DEF ProcEnds, ProcObeysSigterm, ExitOf
  <2>8. CASE UNCHANGED vars
    BY <2>8 DEF vars
  <2> QED BY <2>1, <2>2, <2>3, <2>4, <2>5, <2>6, <2>7, <2>8 DEF Next, SuiteStep, ClientGone
<1>3. TypeInv /\ LateInv => AtMostOneLateScenario
  BY DEF TypeInv, TypeOK, LateInv, AtMostOneLateScenario
<1> QED BY <1>1, <1>2, <1>3, TypeCorrect, PTL DEF Spec

-----------------------------------------------------------------------------
\* The CONFIG file of a run is unlinked by the last step of that run.
LEMMA FileInvariant == Spec => []FileInv
<1>1. Init => FileInv
  BY DEF Init, FileInv
<1>2. TypeInv /\ FileInv /\ [Next]_vars => FileInv'
  <2> SUFFICES ASSUME TypeInv, FileInv, [Next]_vars PROVE FileInv'
    OBVIOUS
  <2> USE DEF FileInv, TypeInv, TypeOK, Goto, stopVars, suiteVars, Unlink, WriteTmpFile
  <2>1. ASSUME NEW r \in SingleRuns, SingleStep(r) \/ StreamClosed(r) PROVE FileInv'
    <3>1. r \in Runs
      BY DEF Runs
    <3>2. CASE Submit(r) \/ StartRefused(r) \/ ClearSlot(r)
      BY <3>1, <3>2 DEF Submit, StartRefused, ClearSlot
    <3>3. CASE StartOk(r) \/ StartRaises(r) \/ StreamEof(r) \/ StreamDone(r) \/ StreamClosed(r)
      BY <3>1, <3>3 DEF StartOk, StartRaises, StreamEof, StreamDone, StreamClosed
    <3> QED BY <2>1, <3>2, <3>3 DEF SingleStep
  <2>2. ASSUME NEW u \in SuiteRuns,
               SuiteStep(u) \/ SuiteClosedReading(u) \/ SuiteClosedBetween(u)
        PROVE  FileInv'
    <3>1. u \in Runs
      BY DEF Runs
    <3>2. CASE SuiteSubmit(u) \/ SuiteDone(u)
      BY <3>1, <3>2 DEF SuiteSubmit, SuiteDone
    <3>3. CASE \/ SuiteNextScenario(u) \/ SuiteLoopEnds(u) \/ SuiteSpawn(u)
               \/ SuiteSpawnRaises(u) \/ SuiteFillSlot(u) \/ SuiteLineAfterStop(u)
               \/ SuiteEof(u) \/ SuiteWaited(u) \/ SuiteClear(u) \/ SuiteScenarioDone(u)
               \/ SuiteClosedClear(u) \/ SuiteClosedReading(u) \/ SuiteClosedBetween(u)
      BY <3>1, <3>3 DEF SuiteNextScenario, SuiteLoopEnds, SuiteSpawn, SuiteSpawnRaises,
         SuiteFillSlot, SuiteLineAfterStop, SuiteEof, SuiteWaited, SuiteClear,
         SuiteScenarioDone, SuiteClosedClear, SuiteClosedReading, SuiteClosedBetween
    <3> QED BY <2>2, <3>2, <3>3 DEF SuiteStep
  <2>3. CASE \/ \E s \in StopCalls : StopStep(s)
             \/ \E p \in Procs : ProcEnds(p) \/ ProcObeysSigterm(p)
             \/ UNCHANGED vars
    BY <2>3 DEF StopStep, StopFlag, StopRead, StopReply, ProcEnds, ProcObeysSigterm, ExitOf, vars
  <2> QED BY <2>1, <2>2, <2>3 DEF Next, ClientGone
<1> QED BY <1>1, <1>2, TypeCorrect, PTL DEF Spec

\* RunningTestHasItsConfig: no step of the server unlinks the CONFIG file
\* under a locust that still reads it.
THEOREM FilesAreKept == Spec => []RunningTestHasItsConfig
<1>1. FileInv /\ NoOrphanTest => RunningTestHasItsConfig
  <2>1. ASSUME NEW p \in Procs PROVE p[1] \in Runs
    BY <2>1 DEF Procs, Runs
  <2> QED BY <2>1 DEF FileInv, NoOrphanTest, RunningTestHasItsConfig
<1> QED BY <1>1, FileInvariant, NoOrphans, PTL

\* CompletedRunsLeaveNoFile: a run whose stream came to its end, refused or
\* served, has no CONFIG file left in TEMP.
THEOREM FilesAreRemoved == Spec => []CompletedRunsLeaveNoFile
<1>1. FileInv => CompletedRunsLeaveNoFile
  BY DEF FileInv, CompletedRunsLeaveNoFile
<1> QED BY <1>1, FileInvariant, PTL

-----------------------------------------------------------------------------
\* SlotNamesAServedProcess: what a stream puts into the slot it takes out.
THEOREM SlotIsServed == Spec => []SlotNamesAServedProcess
<1>1. Init => SlotNamesAServedProcess
  BY DEF Init, SlotNamesAServedProcess
<1>2. TypeInv /\ SlotNamesAServedProcess /\ [Next]_vars => SlotNamesAServedProcess'
  <2> SUFFICES ASSUME TypeInv, SlotNamesAServedProcess, [Next]_vars
               PROVE  SlotNamesAServedProcess'
    OBVIOUS
  <2> USE DEF SlotNamesAServedProcess, TypeInv, TypeOK, Goto, SuiteProc, suiteVars, stopVars
  <2>1. \A p \in Procs : p[1] \in Runs
    BY DEF Procs, Runs
  <2>2. ASSUME NEW r \in SingleRuns, SingleStep(r) \/ StreamClosed(r)
        PROVE  SlotNamesAServedProcess'
    <3> USE <2>1 DEF Runs
    <3>1. CASE StartOk(r)
      BY <3>1 DEF StartOk, SingleProc
    <3>2. CASE ClearSlot(r)
      BY <3>2 DEF ClearSlot, EmptySlot
    <3>3. CASE \/ Submit(r) \/ StartRefused(r) \/ StartRaises(r)
               \/ StreamEof(r) \/ StreamDone(r) \/ StreamClosed(r)
      BY <3>3 DEF Submit, StartRefused, StartRaises, StreamEof, StreamDone, StreamClosed
    <3> QED BY <2>2, <3>1, <3>2, <3>3 DEF SingleStep
  <2>3. ASSUME NEW u \in SuiteRuns,
               SuiteStep(u) \/ SuiteClosedReading(u) \/ SuiteClosedBetween(u)
        PROVE  SlotNamesAServedProcess'
    <3> USE <2>1 DEF Runs
    <3>1. CASE SuiteFillSlot(u)
      BY <3>1 DEF SuiteFillSlot
    <3>2. CASE SuiteClear(u) \/ SuiteClosedClear(u)
      BY <3>2 DEF SuiteClear, SuiteClosedClear, EmptySlot
    <3>3. CASE SuiteNextScenario(u)
      BY <3>3 DEF SuiteNextScenario
    <3>4. CASE \/ SuiteSubmit(u) \/ SuiteLoopEnds(u) \/ SuiteSpawn(u) \/ SuiteSpawnRaises(u)
               \/ SuiteLineAfterStop(u) \/ SuiteEof(u) \/ SuiteWaited(u) \/ SuiteDone(u)
               \/ SuiteScenarioDone(u) \/ SuiteClosedReading(u) \/ SuiteClosedBetween(u)
      BY <3>4 DEF SuiteSubmit, SuiteLoopEnds, SuiteSpawn, SuiteSpawnRaises, SuiteLineAfterStop,
         SuiteEof, SuiteWaited, SuiteDone, SuiteScenarioDone, SuiteClosedReading,
         SuiteClosedBetween
    <3> QED BY <2>3, <3>1, <3>2, <3>3, <3>4 DEF SuiteStep
  <2>4. CASE \/ \E s \in StopCalls : StopStep(s)
             \/ \E p \in Procs : ProcEnds(p) \/ ProcObeysSigterm(p)
             \/ UNCHANGED vars
    BY <2>4 DEF StopStep, StopFlag, StopRead, StopReply, ProcEnds, ProcObeysSigterm, ExitOf, vars
  <2> QED BY <2>2, <2>3, <2>4 DEF Next, ClientGone
<1> QED BY <1>1, <1>2, TypeCorrect, PTL DEF Spec

\* A single run whose test is alive is the one the slot names, as long as the
\* slot has lost no live test of a single run.
OneInv ==
  mislaid = {} =>
    \A r \in SingleRuns :
      Alive(SingleProc(r)) /\ pc[r] \in {"streaming", "clearing"} => currentProc = SingleProc(r)

\* OneTestAtATime: two single runs have tests that run only after the slot had
\* lost the live test of one, to a late response or to a suite.
THEOREM TestsRunOneAtATime == Spec => []OneTestAtATime
<1> DEFINE Served(r) == Alive(SingleProc(r)) /\ pc[r] \in {"streaming", "clearing"}
<1>1. Init => OneInv
  BY DEF Init, OneInv, Runs
<1>2. TypeInv /\ ProcInv /\ OneInv /\ [Next]_vars => OneInv'
  <2> SUFFICES ASSUME TypeInv, ProcInv, OneInv, [Next]_vars, mislaid' = {},
                      NEW q \in SingleRuns, Served(q)'
               PROVE  currentProc' = SingleProc(q)
    BY DEF OneInv
  <2> USE DEF TypeInv, TypeOK
  <2>0. q \in Runs /\ SingleProc(q) \in Procs /\ q \notin SuiteRuns
    BY DEF Runs, Procs, SingleProc
  <2>1. ASSUME mislaid = {}, Served(q) PROVE SlotHasSingle /\ currentProc = SingleProc(q)
    BY <2>0, <2>1 DEF OneInv, SlotHasSingle, SlotBusy, SingleProc
  <2>2. ASSUME NEW r \in SingleRuns, StartOk(r) PROVE currentProc' = SingleProc(q)
    <3>1. mislaid = {} /\ ~SlotBusy
      BY <2>2 DEF StartOk
    <3>2. CASE q # r
      <4>1. Served(q)
        BY <2>0, <2>2, <3>2 DEF StartOk, Goto, Spawn, SingleProc, Alive, Procs, Runs
      <4> QED BY <2>1, <3>1, <4>1 DEF SlotHasSingle
    <3> QED BY <2>2, <3>2 DEF StartOk
  <2>3. ASSUME NEW r \in SingleRuns, ClearSlot(r) PROVE currentProc' = SingleProc(q)
    <3>1. q # r /\ Served(q) /\ mislaid = {}
      BY <2>0, <2>3 DEF ClearSlot, EmptySlot, Goto, Alive, SingleProc, suiteVars, stopVars, Runs
    <3>2. SlotHasSingle /\ currentProc = SingleProc(q) /\ currentProc # SingleProc(r)
      BY <2>1, <3>1 DEF SingleProc
    <3>3. pc[r] = "clearing" /\ procs[SingleProc(r)] # "exited"
      BY <2>3, <3>2 DEF ClearSlot, EmptySlot, Goto
    <3>4. Served(r)
      BY <3>3 DEF ProcInv, SingleAt, Stopped, SingleProc, Alive
    <3> QED BY <3>1, <3>2, <3>4 DEF OneInv
  <2>4. ASSUME NEW u \in SuiteRuns, SuiteClear(u) \/ SuiteClosedClear(u) PROVE FALSE
    <3>1. Served(q) /\ mislaid = {}
      BY <2>0, <2>4 DEF SuiteClear, SuiteClosedClear, EmptySlot, Goto, Alive, suiteVars, Runs
    <3>2. scen[u] \in 1 .. NumScenarios
      BY <2>4 DEF SuiteClear, SuiteClosedClear, Goto, ScenInv
    <3>3. SuiteAt(u, scen[u])
      BY <3>2 DEF ProcInv
    <3>4. procs[SuiteProc(u)] = "exited"
      BY <2>4, <3>3 DEF SuiteAt, SuiteClear, SuiteClosedClear, Goto, SuiteProc
    <3>5. SlotHasSingle /\ currentProc # SuiteProc(u)
      BY <2>0, <2>1, <3>1 DEF SingleProc, SuiteProc
    <3> QED BY <2>4, <3>4, <3>5 DEF SuiteClear, SuiteClosedClear, EmptySlot
  <2>5. ASSUME NEW u \in SuiteRuns, SuiteFillSlot(u) PROVE FALSE
    <3>1. Served(q) /\ mislaid = {}
      BY <2>0, <2>5 DEF SuiteFillSlot, Goto, Alive, suiteVars, Runs
    <3> QED BY <2>1, <2>5, <3>1 DEF SuiteFillSlot
  <2>6. ASSUME UNCHANGED <<currentProc, mislaid>>, Served(q) PROVE currentProc' = SingleProc(q)
    BY <2>1, <2>6
  <2>7. ASSUME NEW r \in SingleRuns,
               \/ Submit(r) \/ StartRefused(r) \/ StartRaises(r) \/ StreamEof(r)
               \/ StreamDone(r) \/ StreamClosed(r)
        PROVE  UNCHANGED <<currentProc, mislaid>> /\ Served(q)
    <3>1. SingleAt(r) /\ SingleAt(q)
      BY DEF ProcInv
    <3> QED BY <2>0, <2>7, <3>1 DEF Submit, StartRefused, StartRaises, StreamEof, StreamDone,
               StreamClosed, SingleAt, Goto, Terminate, SingleProc, Alive, Runs, Procs
  <2>8. ASSUME NEW u \in SuiteRuns,
               \/ SuiteSubmit(u) \/ SuiteNextScenario(u) \/ SuiteLoopEnds(u) \/ SuiteSpawn(u)
               \/ SuiteSpawnRaises(u) \/ SuiteLineAfterStop(u) \/ SuiteEof(u) \/ SuiteWaited(u)
               \/ SuiteDone(u) \/ SuiteScenarioDone(u) \/ SuiteClosedReading(u)
               \/ SuiteClosedBetween(u)
        PROVE  UNCHANGED <<currentProc, mislaid>> /\ Served(q)
    BY <2>0, <2>8 DEF SuiteSubmit, SuiteNextScenario, SuiteLoopEnds, SuiteSpawn, SuiteSpawnRaises,
       SuiteLineAfterStop, SuiteEof, SuiteWaited, SuiteDone, SuiteScenarioDone,
       SuiteClosedReading, SuiteClosedBetween, Goto, Spawn, Terminate, SingleProc, SuiteProc,
       Alive, Runs
  <2>9. CASE \/ \E s \in StopCalls : StopStep(s)
             \/ \E p \in Procs : ProcEnds(p) \/ ProcObeysSigterm(p)
             \/ UNCHANGED vars
    <3>1. UNCHANGED <<currentProc, mislaid>> /\ Served(q)
      BY <2>0, <2>9 DEF StopStep, StopFlag, StopRead, StopReply, Terminate, ProcEnds,
         ProcObeysSigterm, ExitOf, Alive, vars
    <3> QED BY <2>6, <3>1
  <2> QED BY <2>2, <2>3, <2>4, <2>5, <2>6, <2>7, <2>8, <2>9
          DEF Next, SingleStep, SuiteStep, ClientGone
<1>3. TypeInv /\ ProcInv /\ OneInv => OneTestAtATime
  <2> SUFFICES ASSUME TypeInv, ProcInv, OneInv, mislaid = {},
                      NEW r \in SingleRuns, NEW s \in SingleRuns, r # s,
                      procs[SingleProc(r)] = "running", procs[SingleProc(s)] = "running"
               PROVE  FALSE
    BY DEF OneTestAtATime
  <2>1. SingleAt(r) /\ SingleAt(s) /\ pc[r] \in SingleLocs /\ pc[s] \in SingleLocs
    BY DEF ProcInv, TypeInv, TypeOK
  <2>2. pc[r] = "streaming" /\ pc[s] = "streaming"
    BY <2>1 DEF SingleAt, SingleLocs, SingleProc, Stopped
  <2> QED BY <2>2 DEF OneInv, Alive, SingleProc
<1> QED BY <1>1, <1>2, <1>3, TypeCorrect, ProcInvHolds, PTL DEF Spec

-----------------------------------------------------------------------------
(***************************************************************************)
(* LocustIterations.  The slot accounting is inductive together with the   *)
(* bound on the claims: both counters change only with the state of the    *)
(* user that changes them, so each step moves one user into or out of      *)
(* Picking and Sending.                                                    *)
(***************************************************************************)
USE UsersAssumption, MaxItersAssumption, PickAssumption, RestartsAssumption

\* The state of every user and the counters keep their types.
THEOREM IterTypeCorrect == IterSpec => []IterTypeOK
<1>1. IterInit => IterTypeOK
  BY DEF IterInit, IterTypeOK
<1>2. IterTypeOK /\ [IterNext]_iterVars => IterTypeOK'
  <2> SUFFICES ASSUME IterTypeOK, [IterNext]_iterVars PROVE IterTypeOK'
    OBVIOUS
  <2> USE DEF IterTypeOK, UserGoto
  <2>1. ASSUME NEW u \in Users, UserStep(u) PROVE IterTypeOK'
    BY <2>1 DEF UserStep, Claim, StopUser, PickRaises, Post, OnRequest
  <2>2. CASE QuitFires
    BY <2>2 DEF QuitFires
  <2>3. CASE RunTimeExpires
    BY <2>3 DEF RunTimeExpires
  <2>4. CASE TestStart
    BY <2>4 DEF TestStart
  <2>5. CASE UNCHANGED iterVars
    BY <2>5 DEF iterVars
  <2> QED BY <2>1, <2>2, <2>3, <2>4, <2>5 DEF IterNext
<1> QED BY <1>1, <1>2, PTL DEF IterSpec

\* Both sets of busy users are finite, so they have a natural cardinality.
LEMMA BusyFinite ==
  /\ IsFiniteSet(Picking) /\ Cardinality(Picking) \in Nat
  /\ IsFiniteSet(Sending) /\ Cardinality(Sending) \in Nat
<1>1. Picking \in SUBSET Users /\ Sending \in SUBSET Users
  BY DEF Picking, Sending
<1> QED BY <1>1, FS_Subset, FS_CardinalityType

\* No user is busy if and only if both sets count zero.
LEMMA NoneBusy == Cardinality(Picking) + Cardinality(Sending) = 0 => Picking \cup Sending = {}
<1>1. Cardinality(Picking) + Cardinality(Sending) = 0
        => Cardinality(Picking) = 0 /\ Cardinality(Sending) = 0
  BY BusyFinite
<1> QED BY <1>1, BusyFinite, FS_EmptySet

-----------------------------------------------------------------------------
IterInv == IterTypeOK /\ SlotAccounting /\ claimed <= MaxIters

\* A user's step keeps the accounts: one step of send_request each.
LEMMA UserStepKeepsAccounts ==
  ASSUME IterInv, NEW u \in Users, UserStep(u)
  PROVE  SlotAccounting' /\ claimed' <= MaxIters
<1> USE DEF IterTypeOK, SlotAccounting, IterInv
<1>1. CASE Claim(u)
  <2>1. Picking' = Picking \cup {u} /\ u \notin Picking /\ Sending' = Sending
    BY <1>1 DEF Claim, UserGoto, Picking, Sending
  <2>2. Cardinality(Picking') = Cardinality(Picking) + 1
    BY <2>1, BusyFinite, FS_AddElement
  <2> QED BY <1>1, <2>1, <2>2, BusyFinite DEF Claim
<1>2. CASE StopUser(u)
  <2>1. Picking' = Picking /\ Sending' = Sending
    BY <1>2 DEF StopUser, UserGoto, Picking, Sending
  <2> QED BY <1>2, <2>1 DEF StopUser
<1>3. CASE PickRaises(u)
  <2>1. Picking' = Picking \ {u} /\ u \in Picking /\ Sending' = Sending
    BY <1>3 DEF PickRaises, UserGoto, Picking, Sending
  <2>2. Cardinality(Picking') = Cardinality(Picking) - 1
    BY <2>1, BusyFinite, FS_RemoveElement
  <2> QED BY <1>3, <2>1, <2>2, BusyFinite DEF PickRaises
<1>4. CASE Post(u)
  <2>1. /\ Picking' = Picking \ {u} /\ u \in Picking
        /\ Sending' = Sending \cup {u} /\ u \notin Sending
    BY <1>4 DEF Post, UserGoto, Picking, Sending
  <2>2. Cardinality(Picking') = Cardinality(Picking) - 1
    BY <2>1, BusyFinite, FS_RemoveElement
  <2>3. Cardinality(Sending') = Cardinality(Sending) + 1
    BY <2>1, BusyFinite, FS_AddElement
  <2> QED BY <1>4, <2>2, <2>3, BusyFinite DEF Post
<1>5. CASE OnRequest(u)
  <2>1. Sending' = Sending \ {u} /\ u \in Sending /\ Picking' = Picking
    BY <1>5 DEF OnRequest, UserGoto, Picking, Sending
  <2>2. Cardinality(Sending') = Cardinality(Sending) - 1
    BY <2>1, BusyFinite, FS_RemoveElement
  <2> QED BY <1>5, <2>1, <2>2, BusyFinite DEF OnRequest
<1> QED BY <1>1, <1>2, <1>3, <1>4, <1>5 DEF UserStep

\* The accounts hold in every reachable state, restarts included.
THEOREM AccountsHold == IterSpec => []IterInv
<1>1. IterInit => IterInv
  <2> SUFFICES ASSUME IterInit PROVE IterInv
    OBVIOUS
  <2>1. Picking = {} /\ Sending = {}
    BY DEF IterInit, Picking, Sending
  <2> QED BY <2>1, FS_EmptySet DEF IterInit, IterInv, IterTypeOK, SlotAccounting
<1>2. IterInv /\ [IterNext]_iterVars /\ IterTypeOK' => IterInv'
  <2> SUFFICES ASSUME IterInv, [IterNext]_iterVars, IterTypeOK'
               PROVE  SlotAccounting' /\ claimed' <= MaxIters
    BY DEF IterInv
  <2>1. ASSUME NEW u \in Users, UserStep(u)
        PROVE  SlotAccounting' /\ claimed' <= MaxIters
    BY <2>1, UserStepKeepsAccounts
  <2>2. CASE QuitFires \/ RunTimeExpires \/ UNCHANGED iterVars
    <3>1. Picking' = Picking /\ Sending' = Sending
      BY <2>2 DEF QuitFires, RunTimeExpires, iterVars, Picking, Sending
    <3> QED BY <2>2, <3>1 DEF QuitFires, RunTimeExpires, iterVars, IterInv, SlotAccounting
  <2>3. CASE TestStart
    <3>1. Picking' = {} /\ Sending' = {}
      BY <2>3 DEF TestStart, Picking, Sending
    <3> QED BY <2>3, <3>1, FS_EmptySet DEF TestStart, SlotAccounting
  <2> QED BY <2>1, <2>2, <2>3 DEF IterNext
<1> QED BY <1>1, <1>2, IterTypeCorrect, PTL DEF IterSpec

\* BudgetNeverExceeded: whatever the users' interleaving, and after every
\* restart, at most MaxIters requests are sent.
THEOREM BudgetSafe == IterSpec => []BudgetNeverExceeded
<1>1. IterInv => BudgetNeverExceeded
  BY BusyFinite DEF IterInv, IterTypeOK, SlotAccounting, BudgetNeverExceeded
<1> QED BY <1>1, AccountsHold, PTL

-----------------------------------------------------------------------------
\* While no test has been restarted, a scheduled quit means a spent budget.
QuitInv == /\ QuitScheduledOnce
           /\ restarts = 0 /\ over = "done" => done = MaxIters
           /\ restarts = 0 /\ quitTimers = 0 /\ over = "no" => done < MaxIters

\* The budget is spent if and only if a quit has been scheduled.
THEOREM QuitInvHolds == IterSpec => []QuitInv
<1> USE DEF QuitInv, QuitScheduledOnce
<1>1. IterInit => QuitInv
  BY DEF IterInit
<1>2. QuitInv /\ IterInv /\ IterInv' /\ [IterNext]_iterVars => QuitInv'
  <2> SUFFICES ASSUME QuitInv, IterInv, IterInv', [IterNext]_iterVars PROVE QuitInv'
    OBVIOUS
  <2> USE DEF IterInv, IterTypeOK
  <2>1. ASSUME NEW u \in Users, OnRequest(u) PROVE QuitInv'
    <3>1. u \in Sending
      BY <2>1 DEF OnRequest, UserGoto, Sending
    <3>2. Cardinality(Sending) # 0
      BY <3>1, BusyFinite, FS_EmptySet
    <3>3. done + 1 <= MaxIters
      BY <3>2, BusyFinite DEF SlotAccounting
    <3> QED BY <2>1, <3>3 DEF OnRequest, UserGoto
  <2>2. ASSUME NEW u \in Users, Claim(u) \/ StopUser(u) \/ PickRaises(u) \/ Post(u)
        PROVE  QuitInv'
    BY <2>2 DEF Claim, StopUser, PickRaises, Post, UserGoto
  <2>3. CASE QuitFires
    BY <2>3 DEF QuitFires
  <2>4. CASE RunTimeExpires
    BY <2>4 DEF RunTimeExpires
  <2>5. CASE TestStart
    BY <2>5 DEF TestStart
  <2>6. CASE UNCHANGED iterVars
    BY <2>6 DEF iterVars
  <2> QED BY <2>1, <2>2, <2>3, <2>4, <2>5, <2>6 DEF IterNext, UserStep
<1> QED BY <1>1, <1>2, AccountsHold, PTL DEF IterSpec

\* QuitScheduledOnce: before any restart one request only schedules the quit,
\* the one that spends the budget.
THEOREM QuitIsScheduledOnce == IterSpec => []QuitScheduledOnce
<1>1. QuitInv => QuitScheduledOnce
  BY DEF QuitInv
<1> QED BY <1>1, QuitInvHolds, PTL

\* NoInFlightKilled: before any restart the quit finds no request in flight,
\* because a spent budget leaves no slot for one.
THEOREM QuitKillsNothing == IterSpec => []NoInFlightKilled
<1>1. IterInv /\ QuitInv => NoInFlightKilled
  <2> SUFFICES ASSUME IterInv, QuitInv, restarts = 0, over = "done"
               PROVE  Picking \cup Sending = {}
    BY DEF NoInFlightKilled
  <2>1. done = MaxIters
    BY DEF IterInv, IterTypeOK, QuitInv
  <2>2. Cardinality(Picking) + Cardinality(Sending) = 0
    BY <2>1, BusyFinite DEF IterInv, IterTypeOK, SlotAccounting
  <2> QED BY <2>2, NoneBusy
<1> QED BY <1>1, AccountsHold, QuitInvHolds, PTL

\* ImplementsBudget: every step of the users maps to a step of the promised
\* budget, or changes nothing of it, whatever tasks raise and tests restart.
THEOREM BudgetRefinement == IterSpec => ImplementsBudget
<1>1. IterInit => Budget!Init
  BY DEF IterInit, Budget!Init
<1>2. IterInv /\ QuitInv /\ [IterNext]_iterVars => [Budget!Next]_Budget!vars
  <2> SUFFICES ASSUME IterInv, QuitInv, [IterNext]_iterVars PROVE [Budget!Next]_Budget!vars
    OBVIOUS
  <2> USE DEF IterInv, IterTypeOK, SlotAccounting
  <2>1. ASSUME NEW u \in Users, Post(u) PROVE Budget!Send
    <3>1. u \in Picking
      BY <2>1 DEF Post, UserGoto, Picking
    <3>2. Cardinality(Picking) # 0
      BY <3>1, BusyFinite, FS_EmptySet
    <3> QED BY <2>1, <3>2, BusyFinite DEF Post, UserGoto, Budget!Send
  <2>2. ASSUME NEW u \in Users, OnRequest(u) PROVE Budget!Finish
    <3>1. u \in Sending
      BY <2>2 DEF OnRequest, UserGoto, Sending
    <3>2. Cardinality(Sending) # 0
      BY <3>1, BusyFinite, FS_EmptySet
    <3> QED BY <2>2, <3>2, BusyFinite DEF OnRequest, UserGoto, Budget!Finish
  <2>3. ASSUME NEW u \in Users, Claim(u) \/ StopUser(u) \/ PickRaises(u)
        PROVE  UNCHANGED Budget!vars
    BY <2>3 DEF Claim, StopUser, PickRaises, Budget!vars
  <2>4. CASE QuitFires
    <3>1. restarts = 0 => done = MaxIters
      BY <2>4 DEF QuitFires, QuitInv, QuitScheduledOnce
    <3>2. restarts = 0 => sent = MaxIters
      BY <3>1, BusyFinite
    <3> QED BY <2>4, <3>1, <3>2 DEF QuitFires, Budget!Quit, Budget!Next
  <2>5. CASE RunTimeExpires
    BY <2>5 DEF RunTimeExpires, Budget!Expire, Budget!Next
  <2>6. CASE TestStart
    BY <2>6 DEF TestStart, Budget!Restart, Budget!Next
  <2>7. CASE UNCHANGED iterVars
    BY <2>7 DEF iterVars, Budget!vars
  <2> QED BY <2>1, <2>2, <2>3, <2>4, <2>5, <2>6, <2>7 DEF IterNext, UserStep, Budget!Next
<1> QED BY <1>1, <1>2, AccountsHold, QuitInvHolds, PTL
        DEF IterSpec, ImplementsBudget, Budget!Spec
=============================================================================
