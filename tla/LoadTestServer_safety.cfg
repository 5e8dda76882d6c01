SPECIFICATION ThreeRunsSpec
CONSTANTS
  single1 = single1
  single2 = single2
  single3 = single3
  suite1 = suite1
  suite2 = suite2
  stop1 = stop1
  NoProc = NoProc
  SingleRuns <- Singles
  SuiteRuns <- OneSuite
  StopCalls <- OneStop
  NumScenarios = 2
SYMMETRY Symmetry
INVARIANTS
  SlotNamesAServedProcess
  NoOrphanTest
  AtMostOneLateScenario
  RunningTestHasItsConfig
  CompletedRunsLeaveNoFile
  OneTestAtATime
CHECK_DEADLOCK FALSE
