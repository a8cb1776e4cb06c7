CONSTANTS
  i1 = i1
  s1 = s1
  s2 = s2
  NoTask = NoTask
  Main = Main
  Ids <- OneId
  Slots <- OneSlot
  Clocks <- OneClock
  Callers <- MCCallers
  DiskMayFail = FALSE
  MaxRuns = 1
  MaxOutput = 0
  MaxGens = 2
  MaxCrashes = 0
SPECIFICATION LiveSpec
PROPERTIES
  StopReturns
  CancelledBeatEnds
CHECK_DEADLOCK FALSE
