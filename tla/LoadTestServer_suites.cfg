SPECIFICATION TwoRunsSpec
CONSTANTS
  single1 = single1
  single2 = single2
  single3 = single3
  suite1 = suite1
  suite2 = suite2
  stop1 = stop1
  NoProc = NoProc
  SingleRuns <- OneSingle
  SuiteRuns <- Suites
  StopCalls <- OneStop
  NumScenarios = 2
INVARIANTS
  SuiteIsSequential
PROPERTIES
  StopEndsSuites
  StopEndsSingleRun
CHECK_DEADLOCK FALSE
