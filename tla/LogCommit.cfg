CONSTANTS
  MaxMessages = 4
  ChanSize = 1
  Configs <- MCAll
  BatchMax = 2
  Size <- MCLarge
  ContentMax = 2
  TailingMode = "beginning"
  Excluded <- MCFirst
  MaxStops = 1
  MaxCrashes = 1
SPECIFICATION Spec
CHECK_DEADLOCK FALSE
INVARIANTS
  CommitCoversSettled
  StopFlushes
  NoSendOnClosed
PROPERTIES
  ImplementsDelivery
