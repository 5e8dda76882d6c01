SPECIFICATION Spec
CONSTANTS
  chat1 = chat1
  chat2 = chat2
  Thatcher = Thatcher
  Dexter = Dexter
  Nobody = Nobody
  Chats <- TwoChats
  Texts <- SomeTexts
  LogCap = 2
  MaxHops = 3
  MaxResets = 1
INVARIANTS
  ForwardsAreLogged
  StaleVersionIsAccepted
  ForwardedTextsShrink
PROPERTIES
  OnlyForwardsOutgrowTheLog
CHECK_DEADLOCK FALSE
