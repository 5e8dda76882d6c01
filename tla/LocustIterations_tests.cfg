SPECIFICATION IterFairSpec
CONSTANTS
  vu1 = vu1
  vu2 = vu2
  vu3 = vu3
  Users <- ThreeUsers
  MaxIters = 4
  PickMayRaise = TRUE
  MaxRestarts = 2
INVARIANTS
  NoInFlightKilled
PROPERTIES
  ImplementsBudget
  StopsUnlessSlotLost
CHECK_DEADLOCK FALSE
