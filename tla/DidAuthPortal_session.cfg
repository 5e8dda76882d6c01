SPECIFICATION Spec
CONSTANTS
  auth1 = auth1
  auth2 = auth2
  send1 = send1
  regen1 = regen1
  regen2 = regen2
  logout1 = logout1
  None = None
  Auths <- OneAuth
  Sends <- OneSend
  Regens <- TwoRegens
  Logouts <- OneLogout
  MaxCrashes = 1
INVARIANTS
  SessionIsWhole
  StaleSessionNeedsOverlap
  IdentityIsPersisted
CHECK_DEADLOCK FALSE
