CONSTANTS
  i1 = i1
  k1 = k1
  NoTask = NoTask
  Ids <- OneId
  Slots <- OneSlot
  Clocks <- OneClock
  Callers <- OneCaller
  DiskMayFail = TRUE
  MaxRuns = 2
  MaxOutput = 1
  SignalsMayFail = TRUE
SPECIFICATION TaskLiveSpec
INVARIANTS
  OnlyAskedRunsAreKilled
  NaturalCompletionKept
  DoneMeansPersisted
  WriteFlagCommits
PROPERTIES
  ImplementsJob
  AskedRunEnds
