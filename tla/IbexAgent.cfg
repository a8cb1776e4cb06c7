CONSTANTS
  i1 = i1
  s1 = s1
  s2 = s2
  NoTask = NoTask
  Main = Main
  Ids <- OneId
  Slots <- OneSlot
  Clocks <- TwoClocks
  Callers <- MCCallers
  DiskMayFail = FALSE
  MaxRuns = 1
  MaxOutput = 0
  MaxGens = 2
  MaxCrashes = 1
SYMMETRY SlotSymmetry
SPECIFICATION Spec
INVARIANTS
  NoSecondRun
  LoadedOutputIsOwn
  FinalReportIsComplete
  RunsAreListed
  NoRunEscapesStop
  StopLeavesNothing
CHECK_DEADLOCK FALSE
