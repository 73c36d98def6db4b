SPECIFICATION FairSpec
CONSTANTS
  ThreadLimit = 2
  OthersStarted = TRUE
  MaxStarts = 2
  MaxStops = 1
  MaxMessages = 2
CHECK_DEADLOCK FALSE
INVARIANTS
  TypeOK
  NoStrandedMessage
PROPERTIES
  EveryMessageHandled
  DestroyEnds
  ImplementsDelivery
