SPECIFICATION Spec
CONSTANTS
  f1 = f1
  f2 = f2
  c1 = c1
  c2 = c2
  None = None
  Flows <- TwoFlows
  Calls <- TwoCalls
  Ttl = 1
  MaxTime = 2
  MaxRestarts = 1
SYMMETRY Symmetry
INVARIANTS
  RevivalNeedsSlowAnswer
  GuestFlagIsInherited
PROPERTIES
  StatesAreJudgedRight
CHECK_DEADLOCK FALSE
