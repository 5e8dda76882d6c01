SPECIFICATION FairSpec
CONSTANTS
  call1 = call1
  call2 = call2
  call3 = call3
  poll1 = poll1
  poll2 = poll2
  NoAnswer = NoAnswer
  Calls <- ThreeCalls
  Polls <- TwoPolls
  MaxEvents = 2
  MaxRestarts = 1
INVARIANTS
  LogIsATail
  NothingSkipped
  ReplayNeedsOverlap
  EveryAnswerIsLogged
PROPERTY ViewerResyncs
CHECK_DEADLOCK FALSE
