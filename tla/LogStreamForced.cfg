CONSTANTS
  MaxMessages = 4
  ChanSize = 1
  Configs <- MCStream
  BatchMax = 2
  Size <- MCSmall
  ContentMax = 2
  TailingMode = "beginning"
  Excluded <- MCNone
  MaxStops = 1
  MaxCrashes = 0
SPECIFICATION LiveSpec
CHECK_DEADLOCK FALSE
PROPERTIES
  ForcedStopEnds
