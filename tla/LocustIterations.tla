-------------------------- MODULE LocustIterations --------------------------
(***************************************************************************)
(* The iterations mode of the load test (gateway-test-harness/locust/      *)
(* locustfile.py).  Locust runs Users greenlets that call send_request in  *)
(* a loop; they share the counters _iter_claimed and _iter_done, which are *)
(* changed only under _iter_lock.  The request that brings _iter_done up   *)
(* to the budget schedules runner.quit() 0.2 s later.  Locust itself is    *)
(* external: an exception that leaves a task is logged and the user goes   *)
(* on with its next task; quit() kills every user; from locust's web page  *)
(* a test can be stopped and a new one started, which fires test_start.    *)
(***************************************************************************)
EXTENDS Naturals, FiniteSets

CONSTANTS
  Users,         \* the virtual users
  MaxIters,      \* _MAX_ITERS
  PickMayRaise,  \* is there an endpoint without variants, or a filter that
                 \* matches no active endpoint?
  MaxRestarts    \* bound: new tests started from locust's page

ASSUME UsersAssumption == IsFiniteSet(Users) /\ Users # {}
ASSUME MaxItersAssumption == MaxIters \in Nat \ {0}
ASSUME PickAssumption == PickMayRaise \in BOOLEAN
ASSUME RestartsAssumption == MaxRestarts \in Nat

VARIABLES
  claimed,       \* _iter_claimed
  done,          \* _iter_done
  user,          \* what each user is doing
  quitTimers,    \* runner.quit() calls scheduled and not yet run
  over,          \* "no", or how the run has ended
  sent,          \* history: requests this test has sent
  lost,          \* history: slots claimed by tasks that then raised
  restarts

iterVars == <<claimed, done, user, quitTimers, over, sent, lost, restarts>>

IterTypeOK ==
  /\ claimed \in Nat /\ done \in Nat /\ sent \in Nat /\ lost \in Nat
  /\ user \in [Users -> {"idle", "picking", "sending", "stopped"}]
  /\ quitTimers \in Nat
  /\ over \in {"no", "done", "timeout"}
  /\ restarts \in 0 .. MaxRestarts

IterInit ==
  /\ claimed = 0 /\ done = 0 /\ sent = 0 /\ lost = 0
  /\ user = [u \in Users |-> "idle"]
  /\ quitTimers = 0
  /\ over = "no"
  /\ restarts = 0

UserGoto(u, from, to) ==
  /\ over = "no"
  /\ user[u] = from
  /\ user' = [user EXCEPT ![u] = to]

-----------------------------------------------------------------------------
\* Faulty variant: off by one.
ClaimOneTooMany(u) ==
  /\ UserGoto(u, "idle", "picking")
  /\ claimed <= MaxIters
  /\ claimed' = claimed + 1
  /\ UNCHANGED <<done, quitTimers, over, sent, lost, restarts>>

\* send_request: claim a slot before sending ...
Claim(u) ==
  /\ UserGoto(u, "idle", "picking")
  /\ claimed < MaxIters
  /\ claimed' = claimed + 1
  /\ UNCHANGED <<done, quitTimers, over, sent, lost, restarts>>

\* ... or, all slots taken, StopUser.
StopUser(u) ==
  /\ UserGoto(u, "idle", "stopped")
  /\ claimed >= MaxIters
  /\ UNCHANGED <<claimed, done, quitTimers, over, sent, lost, restarts>>

\* _pick_variant raises (no matching endpoint, no variant to choose from):
\* the slot stays claimed and no request event will ever count it.
PickRaises(u) ==
  /\ PickMayRaise
  /\ UserGoto(u, "picking", "idle")
  /\ lost' = lost + 1
  /\ UNCHANGED <<claimed, done, quitTimers, over, sent, restarts>>

Post(u) ==
  /\ UserGoto(u, "picking", "sending")
  /\ sent' = sent + 1
  /\ UNCHANGED <<claimed, done, quitTimers, over, lost, restarts>>

\* Faulty variants: the quit is decided on the slots claimed, or on the count
\* before this request.
OnRequestByClaims(u) ==
  /\ UserGoto(u, "sending", "idle")
  /\ done' = done + 1
  /\ quitTimers' = IF claimed >= MaxIters THEN quitTimers + 1 ELSE quitTimers
  /\ UNCHANGED <<claimed, over, sent, lost, restarts>>
OnRequestCountsLate(u) ==
  /\ UserGoto(u, "sending", "idle")
  /\ done' = done + 1
  /\ quitTimers' = IF done >= MaxIters THEN quitTimers + 1 ELSE quitTimers
  /\ UNCHANGED <<claimed, over, sent, lost, restarts>>

\* The response, an error or the 30 s timeout ends the with block, whose
\* exit fires the request event: _on_request counts the request and, when
\* every one has completed, schedules the quit.
OnRequest(u) ==
  /\ UserGoto(u, "sending", "idle")
  /\ done' = done + 1
  /\ quitTimers' = IF done + 1 >= MaxIters THEN quitTimers + 1 ELSE quitTimers
  /\ UNCHANGED <<claimed, over, sent, lost, restarts>>

UserStep(u) == Claim(u) \/ StopUser(u) \/ PickRaises(u) \/ Post(u) \/ OnRequest(u)

-----------------------------------------------------------------------------
\* The scheduled quit runs: whatever the users are doing, they are killed.
QuitFires ==
  /\ over = "no" /\ quitTimers > 0
  /\ quitTimers' = quitTimers - 1
  /\ over' = "done"
  /\ UNCHANGED <<claimed, done, user, sent, lost, restarts>>

\* The --run-time cap (24 h in this mode) or a SIGTERM.
RunTimeExpires ==
  /\ over = "no"
  /\ over' = "timeout"
  /\ UNCHANGED <<claimed, done, user, quitTimers, sent, lost, restarts>>

\* The test is stopped from locust's page (its users are killed) and a new
\* one is started: _on_test_start resets both counters, new users spawn.
\* A quit that the old test had scheduled stays scheduled.
TestStart ==
  /\ over = "no" /\ restarts < MaxRestarts
  /\ restarts' = restarts + 1
  /\ claimed' = 0 /\ done' = 0 /\ sent' = 0 /\ lost' = 0
  /\ user' = [u \in Users |-> "idle"]
  /\ UNCHANGED <<quitTimers, over>>

IterNext == (\E u \in Users : UserStep(u)) \/ QuitFires \/ RunTimeExpires \/ TestStart

IterSpec == IterInit /\ [][IterNext]_iterVars

\* Greenlets are scheduled, requests end (they have a timeout), and a timer
\* that was set fires.  Nobody need wait for the run-time cap.
IterFairness == (\A u \in Users : WF_iterVars(UserStep(u))) /\ WF_iterVars(QuitFires)
IterFairSpec == IterSpec /\ IterFairness

-----------------------------------------------------------------------------
\* Properties

Picking == {u \in Users : user[u] = "picking"}
Sending == {u \in Users : user[u] = "sending"}

\* Every claimed slot is one request sent, one about to be sent, or one lost
\* to a task that raised; every request sent has completed or is in flight.
SlotAccounting ==
  /\ claimed = sent + Cardinality(Picking) + lost
  /\ sent = done + Cardinality(Sending)

\* No interleaving of the users sends a request beyond the budget.
BudgetNeverExceeded == sent <= MaxIters

\* The quit is scheduled by one request only, the last one.
QuitScheduledOnce ==
  restarts = 0 => quitTimers <= 1 /\ (quitTimers > 0 => done = MaxIters)

\* "We quit here (post-completion) so no in-flight requests are killed."
\* (Of the test that scheduled it: a test restarted within the 0.2 s is not
\* spared.)
NoInFlightKilled == restarts = 0 /\ over = "done" => Picking \cup Sending = {}

\* The iterations mode is the promised budget: never more than N requests of
\* a test, and the stop only after N of them have completed.
Budget == INSTANCE RequestBudget WITH completed <- done
ImplementsBudget == Budget!Spec

\* Every test, restarted or not, comes to an end without waiting for the
\* run-time cap, unless a task has raised and taken a slot with it.
StopsUnlessSlotLost == <>(over # "no" \/ lost > 0)

\* The run comes to an end without waiting for the run-time cap.
RunsThenStops == <>(over # "no")
=============================================================================
