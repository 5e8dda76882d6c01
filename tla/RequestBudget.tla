---------------------------- MODULE RequestBudget ----------------------------
(***************************************************************************)
(* What the iterations mode of the locust file promises (gateway-test-     *)
(* harness/locust/locustfile.py, its docstring): exactly MaxIters requests *)
(* are sent, then the run stops, and the stop kills no request that is in  *)
(* flight.  The --run-time cap may end the run earlier, and a new test may *)
(* be started from locust's page: its budget is whole again, but the stop  *)
(* that an earlier test has asked for may end it early.                    *)
(***************************************************************************)
EXTENDS Naturals

CONSTANT MaxIters    \* the budget, ITERATIONS; a positive number

VARIABLES
  sent,              \* requests sent so far
  completed,         \* requests that have been answered or have failed
  over,              \* "no", or how the run has ended
  restarts           \* tests started from locust's page

Init == sent = 0 /\ completed = 0 /\ over = "no" /\ restarts = 0

Send ==
  /\ over = "no" /\ sent < MaxIters
  /\ sent' = sent + 1
  /\ UNCHANGED <<completed, over, restarts>>

Finish ==
  /\ over = "no" /\ completed < sent
  /\ completed' = completed + 1
  /\ UNCHANGED <<sent, over, restarts>>

\* The budget is used up: every request was sent and every one has completed.
Quit ==
  /\ over = "no"
  /\ restarts = 0 => completed = MaxIters /\ sent = MaxIters
  /\ over' = "done"
  /\ UNCHANGED <<sent, completed, restarts>>

Expire ==
  /\ over = "no"
  /\ over' = "timeout"
  /\ UNCHANGED <<sent, completed, restarts>>

Restart ==
  /\ over = "no"
  /\ restarts' = restarts + 1
  /\ sent' = 0 /\ completed' = 0
  /\ UNCHANGED over

Next == Send \/ Finish \/ Quit \/ Expire \/ Restart

vars == <<sent, completed, over, restarts>>
Spec == Init /\ [][Next]_vars
=============================================================================
