------------------------- MODULE MCLoadTestServer -------------------------
(* Instances of LoadTestServer for TLC. *)
EXTENDS LoadTestServer, FiniteSets, TLC
CONSTANTS single1, single2, single3, suite1, suite2, stop1

Singles == {single1, single2, single3}
OneSingle == {single1}
Suites == {suite1, suite2}
OneSuite == {suite1}
OneStop == {stop1}

Symmetry == Permutations(Singles)

\* Behaviours in which at most n of the runs are ever requested.
AtMost(n) == Cardinality({r \in SingleRuns \cup SuiteRuns : pc[r] # "idle"}) <= n

ThreeRunsSpec == Init /\ [][Next /\ AtMost(3)']_vars
TwoRunsSpec == Init /\ [][Next /\ AtMost(2)']_vars /\ Fairness
=============================================================================
