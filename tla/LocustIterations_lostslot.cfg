SPECIFICATION IterFairSpec
CONSTANTS
  vu1 = vu1
  vu2 = vu2
  vu3 = vu3
  Users <- ThreeUsers
  MaxIters = 2
  PickMayRaise = TRUE
  MaxRestarts = 0
PROPERTY RunsThenStops
CHECK_DEADLOCK FALSE
