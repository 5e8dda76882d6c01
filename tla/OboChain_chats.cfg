SPECIFICATION Spec
CONSTANTS
  c1 = c1
  c2 = c2
  None = None
  Chats <- TwoChats
  MaxTrace = 4
  MaxFaults = 1
SYMMETRY Symmetry
PROPERTIES
  ShownIsTheChain
  ImplementsRequest
CHECK_DEADLOCK FALSE
