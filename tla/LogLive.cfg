CONSTANTS
  MaxMessages = 3
  ChanSize = 1
  Configs <- MCBatch
  BatchMax = 2
  Size <- MCBulky
  ContentMax = 2
  TailingMode = "beginning"
  Excluded <- MCNone
  MaxStops = 1
  MaxCrashes = 0
SPECIFICATION LiveSpec
CHECK_DEADLOCK FALSE
PROPERTIES
  ForcedStopEnds
  MessagesAreSettled
