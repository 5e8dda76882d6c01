SPECIFICATION FairSpec
CONSTANTS
  task1 = task1
  task2 = task2
  NoSession = NoSession
  Tasks <- TwoTasks
  MaxCalls = 2
  KnownVersions <- Known
  NumVersions = 3
  FirstVersion = 1
INVARIANTS
  LeakNeedsFault
  RequestsCarryAgreement
PROPERTIES
  ImplementsTask
  EveryPromptIsAnswered
CHECK_DEADLOCK FALSE
