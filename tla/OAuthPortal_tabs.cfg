SPECIFICATION PSpec
CONSTANTS
  f1 = f1
  f2 = f2
  r1 = r1
  r2 = r2
  None = None
  Flows <- TwoFlows
  Requests <- TwoRequests
  MaxRestarts = 1
SYMMETRY Symmetry
INVARIANTS
  MismatchMeansDisturbed
  OrphanNeedsOverlap
  LogoutSticks
CHECK_DEADLOCK FALSE
