--------------------------- MODULE LoadTestServer ---------------------------
(***************************************************************************)
(* The web backend of the load-test harness (gateway-test-harness/ui/      *)
(* server.py): a threaded Flask server in which every request runs in a    *)
(* thread of its own.  Three kinds of request touch the shared state:      *)
(*                                                                         *)
(*   - POST /run/locust          (SingleRuns): one locust process, whose   *)
(*                               output is streamed back as events;        *)
(*   - POST /run/scenario-suite  (SuiteRuns): one locust process after the *)
(*                               other, one per scenario of the list;      *)
(*   - POST /stop                (StopCalls).                              *)
(*                                                                         *)
(* The shared state is the slot _current_proc, guarded by _proc_lock, and  *)
(* the flag _suite_stop_requested, guarded by nothing.  A critical section *)
(* is one step; every place where a thread can be overtaken, and every     *)
(* yield of a generator (where the client may have gone and the generator  *)
(* is closed), separates two steps.                                        *)
(***************************************************************************)
EXTENDS Naturals

CONSTANTS
  SingleRuns,     \* requests to /run/locust
  SuiteRuns,      \* requests to /run/scenario-suite
  StopCalls,      \* requests to /stop
  NumScenarios,   \* length of every suite's list of scenarios
  NoProc          \* the value None of the slot

Runs == SingleRuns \cup SuiteRuns

\* A subprocess is named by the request that spawns it and, for a suite, by
\* the position of its scenario.
Procs == (SingleRuns \X {1}) \cup (SuiteRuns \X (1 .. NumScenarios))

ASSUME RunsAssumption == SingleRuns \cap SuiteRuns = {}
ASSUME ScenariosAssumption == NumScenarios \in Nat
ASSUME NoProcAssumption == NoProc \notin Procs

VARIABLES
  currentProc,    \* _current_proc
  suiteStop,      \* _suite_stop_requested
  procs,          \* what the operating system knows of each process
  pc,             \* where the thread of each run is
  scen,           \* scenarios a suite has started so far
  tmpFile,        \* the temporary CONFIG file of a run with overrides
  stopPc,         \* where the thread of each /stop is, then its answer
  stopProc,       \* the process a /stop has read from the slot
  lateSpawns,     \* history: scenarios a suite spawned while the flag was up
  mislaid         \* history: how the slot has lost the live test of a single run

vars == <<currentProc, suiteStop, procs, pc, scen, tmpFile,
          stopPc, stopProc, lateSpawns, mislaid>>

-----------------------------------------------------------------------------
SingleLocs == {"idle", "submitted", "streaming", "doneYield", "clearing",
               "finished", "refused", "failed"}
SuiteLocs  == {"idle", "loopHead", "scenarioStart", "spawned", "reading",
               "waiting", "clearing", "scenarioEnd", "doneYield", "closing",
               "finished", "failed", "closed"}

\* The response has ended: nothing of this request runs in the server.
Over == {"finished", "refused", "failed", "closed"}

TypeOK ==
  /\ currentProc \in Procs \cup {NoProc}
  /\ suiteStop \in BOOLEAN
  /\ procs \in [Procs -> {"none", "running", "terminating", "exited"}]
  /\ pc \in [Runs -> SingleLocs \cup SuiteLocs]
  /\ \A r \in SingleRuns : pc[r] \in SingleLocs
  /\ \A u \in SuiteRuns : pc[u] \in SuiteLocs
  /\ scen \in [SuiteRuns -> 0 .. NumScenarios]
  /\ tmpFile \in [Runs -> {"none", "present", "removed"}]
  /\ stopPc \in [StopCalls -> {"idle", "flagged", "read", "ok", "none"}]
  /\ stopProc \in [StopCalls -> Procs \cup {NoProc}]
  /\ lateSpawns \in [SuiteRuns -> Nat]
  /\ mislaid \subseteq {"lateEnd", "overwritten"}

Init ==
  /\ currentProc = NoProc
  /\ suiteStop = FALSE
  /\ procs = [p \in Procs |-> "none"]
  /\ pc = [r \in Runs |-> "idle"]
  /\ scen = [u \in SuiteRuns |-> 0]
  /\ tmpFile = [r \in Runs |-> "none"]
  /\ stopPc = [s \in StopCalls |-> "idle"]
  /\ stopProc = [s \in StopCalls |-> NoProc]
  /\ lateSpawns = [u \in SuiteRuns |-> 0]
  /\ mislaid = {}

-----------------------------------------------------------------------------
\* Helpers

SingleProc(r) == <<r, 1>>
SuiteProc(u)  == <<u, scen[u]>>

\* poll() is None: the process has been started and has not exited.
Alive(p) == procs[p] \in {"running", "terminating"}

\* "_current_proc and _current_proc.poll() is None"; also what /status says.
SlotBusy == currentProc # NoProc /\ Alive(currentProc)

Goto(r, from, to) == pc[r] = from /\ pc' = [pc EXCEPT ![r] = to]

Spawn(p)     == procs' = [procs EXCEPT ![p] = "running"]
\* Popen.terminate(): nothing happens to a process that has exited.
Terminate(p) == procs' = [procs EXCEPT ![p] = IF @ = "running" THEN "terminating" ELSE @]

Unlink(r) == tmpFile' = [tmpFile EXCEPT ![r] = IF @ = "present" THEN "removed" ELSE @]

\* A run may carry endpoint overrides, which go to a temporary file.
WriteTmpFile(r) == \E f \in {"none", "present"} : tmpFile' = [tmpFile EXCEPT ![r] = f]

\* The slot names the test of a single run, and the test is alive.
SlotHasSingle == SlotBusy /\ currentProc[1] \in SingleRuns

\* The finally of a stream, and a suite after each test: the response of p
\* empties the slot under the lock, whatever it holds.  The history notes that
\* it held the test of another run while p itself had exited.
EmptySlot(p) ==
  /\ currentProc' = NoProc
  /\ mislaid' = IF currentProc # p /\ SlotHasSingle /\ procs[p] = "exited"
                THEN mislaid \cup {"lateEnd"} ELSE mislaid

stopVars == <<stopPc, stopProc>>
suiteVars == <<scen, lateSpawns>>

-----------------------------------------------------------------------------
\* POST /run/locust

\* run_locust up to its call of _sse_response.
Submit(r) ==
  /\ Goto(r, "idle", "submitted")
  /\ WriteTmpFile(r)
  /\ UNCHANGED <<currentProc, suiteStop, procs, suiteVars, stopVars, mislaid>>

\* Faulty variant: the refused request forgets its cleanup.
StartRefusedKeepsFile(r) ==
  /\ SlotBusy
  /\ Goto(r, "submitted", "refused")
  /\ UNCHANGED <<currentProc, suiteStop, procs, tmpFile, suiteVars, stopVars, mislaid>>

\* Faulty variant: the refused request runs the finally of a stream.
StartRefusedEmptiesSlot(r) ==
  /\ SlotBusy
  /\ Goto(r, "submitted", "refused")
  /\ Unlink(r)
  /\ EmptySlot(SingleProc(r))
  /\ UNCHANGED <<suiteStop, procs, suiteVars, stopVars>>

\* _start under the lock, the slot being busy: the caller removes the file
\* and answers "A test is already running."
StartRefused(r) ==
  /\ SlotBusy
  /\ Goto(r, "submitted", "refused")
  /\ Unlink(r)
  /\ UNCHANGED <<currentProc, suiteStop, procs, suiteVars, stopVars, mislaid>>

\* _start under the lock, the slot being free: spawn and fill the slot.
StartOk(r) ==
  /\ ~SlotBusy
  /\ Goto(r, "submitted", "streaming")
  /\ Spawn(SingleProc(r))
  /\ currentProc' = SingleProc(r)
  /\ UNCHANGED <<suiteStop, tmpFile, suiteVars, stopVars, mislaid>>

\* Popen raises (no locust binary): the exception leaves the handler, no
\* generator exists and the cleanup is never called.
StartRaises(r) ==
  /\ ~SlotBusy
  /\ Goto(r, "submitted", "failed")
  /\ UNCHANGED <<currentProc, suiteStop, procs, tmpFile, suiteVars, stopVars, mislaid>>

\* _stream reaches the end of the output, waits and yields "done".
StreamEof(r) ==
  /\ Goto(r, "streaming", "doneYield")
  /\ procs[SingleProc(r)] = "exited"
  /\ UNCHANGED <<currentProc, suiteStop, procs, tmpFile, suiteVars, stopVars, mislaid>>

\* Faulty variant: the test is left running when the client leaves.
StreamClosedLeavesTest(r) ==
  /\ \/ Goto(r, "streaming", "clearing")
     \/ Goto(r, "doneYield", "clearing")
  /\ UNCHANGED <<currentProc, suiteStop, procs, tmpFile, suiteVars, stopVars, mislaid>>

\* The client is gone at a yield: GeneratorExit, proc.terminate().
StreamClosed(r) ==
  /\ \/ Goto(r, "streaming", "clearing")
     \/ Goto(r, "doneYield", "clearing")
  /\ Terminate(SingleProc(r))
  /\ UNCHANGED <<currentProc, suiteStop, tmpFile, suiteVars, stopVars, mislaid>>

\* The client has taken "done".
StreamDone(r) ==
  /\ Goto(r, "doneYield", "clearing")
  /\ UNCHANGED <<currentProc, suiteStop, procs, tmpFile, suiteVars, stopVars, mislaid>>

\* Faulty variant: the slot is not emptied.
FinishWithoutClear(r) ==
  /\ Goto(r, "clearing", "finished")
  /\ Unlink(r)
  /\ UNCHANGED <<currentProc, suiteStop, procs, suiteVars, stopVars, mislaid>>

\* The two finally blocks: empty the slot, whatever it holds, and unlink.
ClearSlot(r) ==
  /\ Goto(r, "clearing", "finished")
  /\ EmptySlot(SingleProc(r))
  /\ Unlink(r)
  /\ UNCHANGED <<suiteStop, procs, suiteVars, stopVars>>

SingleStep(r) ==
  \/ Submit(r) \/ StartRefused(r) \/ StartOk(r) \/ StartRaises(r)
  \/ StreamEof(r) \/ StreamDone(r) \/ ClearSlot(r)

-----------------------------------------------------------------------------
\* POST /run/scenario-suite

\* run_scenario_suite itself: resets the flag and returns the generator.
SuiteSubmit(u) ==
  /\ Goto(u, "idle", "loopHead")
  /\ suiteStop' = FALSE
  /\ lateSpawns' = [v \in SuiteRuns |-> 0]
  /\ WriteTmpFile(u)
  /\ UNCHANGED <<currentProc, procs, scen, stopVars, mislaid>>

\* Faulty variant: the flag as it was when the request came in.
StopSeenAtSubmit(u) == FALSE

\* The generator's look at the flag, at the head and at the end of the loop.
StopSeen(u) == suiteStop

\* Head of the loop: another scenario and no stop request, so announce it.
SuiteNextScenario(u) ==
  /\ scen[u] < NumScenarios
  /\ ~StopSeen(u)
  /\ Goto(u, "loopHead", "scenarioStart")
  /\ scen' = [scen EXCEPT ![u] = @ + 1]
  /\ UNCHANGED <<currentProc, suiteStop, procs, tmpFile, lateSpawns, stopVars, mislaid>>

\* Head of the loop: the list is exhausted, or a stop request breaks out.
SuiteLoopEnds(u) ==
  /\ scen[u] = NumScenarios \/ StopSeen(u)
  /\ Goto(u, "loopHead", "doneYield")
  /\ UNCHANGED <<currentProc, suiteStop, procs, tmpFile, suiteVars, stopVars, mislaid>>

\* Popen, which looks neither at the slot nor again at the flag.
SuiteSpawn(u) ==
  /\ Goto(u, "scenarioStart", "spawned")
  /\ Spawn(SuiteProc(u))
  /\ lateSpawns' = [lateSpawns EXCEPT ![u] = IF suiteStop THEN @ + 1 ELSE @]
  /\ UNCHANGED <<currentProc, suiteStop, scen, tmpFile, stopVars, mislaid>>

SuiteSpawnRaises(u) ==
  /\ Goto(u, "scenarioStart", "failed")
  /\ UNCHANGED <<currentProc, suiteStop, procs, tmpFile, suiteVars, stopVars, mislaid>>

SuiteFillSlot(u) ==
  /\ Goto(u, "spawned", "reading")
  /\ currentProc' = SuiteProc(u)
  /\ mislaid' = IF SlotHasSingle THEN mislaid \cup {"overwritten"} ELSE mislaid
  /\ UNCHANGED <<suiteStop, procs, tmpFile, suiteVars, stopVars>>

\* Faulty variant: it leaves the loop without terminating the test.
SuiteBreaksOnly(u) ==
  /\ suiteStop
  /\ Goto(u, "reading", "waiting")
  /\ UNCHANGED <<currentProc, suiteStop, procs, tmpFile, suiteVars, stopVars, mislaid>>

\* A line of output arrives while the flag is up: terminate and break.
SuiteLineAfterStop(u) ==
  /\ suiteStop
  /\ Goto(u, "reading", "waiting")
  /\ Terminate(SuiteProc(u))
  /\ UNCHANGED <<currentProc, suiteStop, tmpFile, suiteVars, stopVars, mislaid>>

SuiteEof(u) ==
  /\ Goto(u, "reading", "waiting")
  /\ procs[SuiteProc(u)] = "exited"
  /\ UNCHANGED <<currentProc, suiteStop, procs, tmpFile, suiteVars, stopVars, mislaid>>

\* Faulty variant: no proc.wait().
SuiteDoesNotWait(u) ==
  /\ Goto(u, "waiting", "clearing")
  /\ UNCHANGED <<currentProc, suiteStop, procs, tmpFile, suiteVars, stopVars, mislaid>>

\* proc.wait() returns.
SuiteWaited(u) ==
  /\ Goto(u, "waiting", "clearing")
  /\ procs[SuiteProc(u)] = "exited"
  /\ UNCHANGED <<currentProc, suiteStop, procs, tmpFile, suiteVars, stopVars, mislaid>>

SuiteClear(u) ==
  /\ Goto(u, "clearing", "scenarioEnd")
  /\ EmptySlot(SuiteProc(u))
  /\ UNCHANGED <<suiteStop, procs, tmpFile, suiteVars, stopVars>>

\* Faulty variant: the CONFIG file is removed after each scenario.
SuiteUnlinksEarly(u) ==
  /\ Goto(u, "scenarioEnd", IF StopSeen(u) THEN "doneYield" ELSE "loopHead")
  /\ Unlink(u)
  /\ UNCHANGED <<currentProc, suiteStop, procs, suiteVars, stopVars, mislaid>>

\* The client has taken scenario_end; the flag is looked at once more.
SuiteScenarioDone(u) ==
  /\ Goto(u, "scenarioEnd", IF StopSeen(u) THEN "doneYield" ELSE "loopHead")
  /\ UNCHANGED <<currentProc, suiteStop, procs, tmpFile, suiteVars, stopVars, mislaid>>

SuiteDone(u) ==
  /\ Goto(u, "doneYield", "finished")
  /\ Unlink(u)
  /\ UNCHANGED <<currentProc, suiteStop, procs, suiteVars, stopVars, mislaid>>

\* The client is gone at the yield of a line: terminate, then wait below.
SuiteClosedReading(u) ==
  /\ Goto(u, "reading", "closing")
  /\ Terminate(SuiteProc(u))
  /\ UNCHANGED <<currentProc, suiteStop, tmpFile, suiteVars, stopVars, mislaid>>

\* ... wait() returns: empty the slot and return, past the unlink.
SuiteClosedClear(u) ==
  /\ Goto(u, "closing", "closed")
  /\ procs[SuiteProc(u)] = "exited"
  /\ EmptySlot(SuiteProc(u))
  /\ UNCHANGED <<suiteStop, procs, tmpFile, suiteVars, stopVars>>

\* The client is gone at a yield outside the try: the generator just ends.
SuiteClosedBetween(u) ==
  /\ \E l \in {"scenarioStart", "scenarioEnd", "doneYield"} : Goto(u, l, "closed")
  /\ UNCHANGED <<currentProc, suiteStop, procs, tmpFile, suiteVars, stopVars, mislaid>>

SuiteStep(u) ==
  \/ SuiteSubmit(u) \/ SuiteNextScenario(u) \/ SuiteLoopEnds(u)
  \/ SuiteSpawn(u) \/ SuiteSpawnRaises(u) \/ SuiteFillSlot(u)
  \/ SuiteLineAfterStop(u) \/ SuiteEof(u) \/ SuiteWaited(u) \/ SuiteClear(u)
  \/ SuiteScenarioDone(u) \/ SuiteDone(u) \/ SuiteClosedClear(u)

-----------------------------------------------------------------------------
\* POST /stop

\* The flag goes up before the lock is taken.
StopFlag(s) ==
  /\ stopPc[s] = "idle"
  /\ stopPc' = [stopPc EXCEPT ![s] = "flagged"]
  /\ suiteStop' = TRUE
  /\ UNCHANGED <<currentProc, procs, pc, scen, tmpFile, stopProc, lateSpawns, mislaid>>

StopRead(s) ==
  /\ stopPc[s] = "flagged"
  /\ stopPc' = [stopPc EXCEPT ![s] = "read"]
  /\ stopProc' = [stopProc EXCEPT ![s] = currentProc]
  /\ UNCHANGED <<currentProc, suiteStop, procs, pc, suiteVars, tmpFile, mislaid>>

\* Faulty variant: it answers ok and terminates nothing.
StopRepliesOnly(s) ==
  /\ stopPc[s] = "read"
  /\ stopPc' = [stopPc EXCEPT ![s] = IF stopProc[s] # NoProc /\ Alive(stopProc[s])
                                     THEN "ok" ELSE "none"]
  /\ UNCHANGED <<currentProc, suiteStop, procs, pc, suiteVars, tmpFile, stopProc, mislaid>>

\* Outside the lock: terminate what was read if it still runs, and answer.
StopReply(s) ==
  /\ stopPc[s] = "read"
  /\ \/ /\ stopProc[s] # NoProc /\ Alive(stopProc[s])
        /\ Terminate(stopProc[s])
        /\ stopPc' = [stopPc EXCEPT ![s] = "ok"]
     \/ /\ ~(stopProc[s] # NoProc /\ Alive(stopProc[s]))
        /\ stopPc' = [stopPc EXCEPT ![s] = "none"]
        /\ UNCHANGED procs
  /\ UNCHANGED <<currentProc, suiteStop, pc, suiteVars, tmpFile, stopProc, mislaid>>

StopStep(s) == StopFlag(s) \/ StopRead(s) \/ StopReply(s)

-----------------------------------------------------------------------------
\* The operating system

ExitOf(p) ==
  /\ procs' = [procs EXCEPT ![p] = "exited"]
  /\ UNCHANGED <<currentProc, suiteStop, pc, suiteVars, tmpFile, stopVars, mislaid>>

\* A test ends by itself: its run time, its iterations, a crash.
ProcEnds(p)         == procs[p] = "running" /\ ExitOf(p)
\* A process that was sent SIGTERM shuts down.
ProcObeysSigterm(p) == procs[p] = "terminating" /\ ExitOf(p)

-----------------------------------------------------------------------------
ClientGone ==
  \/ \E r \in SingleRuns : StreamClosed(r)
  \/ \E u \in SuiteRuns : SuiteClosedReading(u) \/ SuiteClosedBetween(u)

Next ==
  \/ \E r \in SingleRuns : SingleStep(r)
  \/ \E u \in SuiteRuns : SuiteStep(u)
  \/ \E s \in StopCalls : StopStep(s)
  \/ \E p \in Procs : ProcEnds(p) \/ ProcObeysSigterm(p)
  \/ ClientGone

Spec == Init /\ [][Next]_vars

\* Threads are scheduled, a locust process keeps printing request lines and
\* obeys SIGTERM.  No test need end by itself and no client need disconnect.
Fairness ==
  /\ \A r \in SingleRuns : WF_vars(pc[r] # "idle" /\ SingleStep(r))
  /\ \A u \in SuiteRuns : WF_vars(pc[u] # "idle" /\ SuiteStep(u))
  /\ \A s \in StopCalls : WF_vars(stopPc[s] # "idle" /\ StopStep(s))
  /\ \A p \in Procs : WF_vars(ProcObeysSigterm(p))

FairSpec == Spec /\ Fairness

-----------------------------------------------------------------------------
\* Properties

\* Every stream that fills the slot empties it again: a process left in
\* _current_proc is the one its request is still serving, so once all the
\* responses have ended the slot is empty and the next run is not refused.
SlotNamesAServedProcess ==
  currentProc # NoProc =>
    LET r == currentProc[1] IN
      /\ r \in SingleRuns => pc[r] \in {"streaming", "doneYield", "clearing"}
      /\ r \in SuiteRuns => /\ currentProc = SuiteProc(r)
                            /\ pc[r] \in {"reading", "waiting", "clearing", "closing"}

\* No test is orphaned: when a response has ended, or the client has gone,
\* every process the request spawned has exited or been sent SIGTERM.
NoOrphanTest ==
  \A p \in Procs : procs[p] = "running" => pc[p[1]] \in {"streaming", "spawned", "reading"}

\* A suite runs its scenarios one after the other: a scenario starts only
\* when the process of the one before it has exited (proc.wait()).
SuiteIsSequential ==
  \A u \in SuiteRuns : \A k \in 1 .. NumScenarios :
    /\ k > scen[u] => procs[<<u, k>>] = "none"
    /\ k < scen[u] => procs[<<u, k>>] = "exited"

\* A stop request that comes between the test of the flag and the spawn lets
\* one more scenario of a suite start, and never a second one.
AtMostOneLateScenario == \A u \in SuiteRuns : lateSpawns[u] <= 1

\* The CONFIG file is not unlinked under a test that was not stopped: the
\* scenarios of a suite share it and the last one must still find it.
RunningTestHasItsConfig ==
  \A p \in Procs : procs[p] = "running" => tmpFile[p[1]] # "removed"

\* Responses that run to their end, and refused ones, leave no CONFIG file.
\* (Those whose client left a suite, or whose Popen raised, do leave it.)
CompletedRunsLeaveNoFile ==
  \A r \in Runs : pc[r] \in {"finished", "refused"} => tmpFile[r] # "present"

\* "A test is already running": no two single runs have a test that runs and
\* was not told to stop, unless the slot had before lost the live test of one in
\* one of two ways: a response whose own test had exited was late and emptied
\* the slot after that run had filled it, or a suite, which does not look, put
\* its test in.  Clients that leave, stops and refused requests are no cause.
OneTestAtATime ==
  \A r, s \in SingleRuns :
    r # s /\ procs[SingleProc(r)] = "running" /\ procs[SingleProc(s)] = "running" => mislaid # {}

\* A stop request ends every suite that is under way, even one whose tests
\* would run for ever, unless the start of another suite takes it back.
StopEndsSuites ==
  \A u \in SuiteRuns :
    (suiteStop /\ pc[u] # "idle") ~> (pc[u] \in Over \/ ~suiteStop)

\* A stop that answered ok to the stream of a single run ends its response.
StopEndsSingleRun ==
  \A s \in StopCalls, r \in SingleRuns :
    (stopPc[s] = "ok" /\ stopProc[s] = SingleProc(r)) ~> pc[r] \in Over

=============================================================================
