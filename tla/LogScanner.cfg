SPECIFICATION LiveSpec
CONSTANTS
  Sources <- OneSource
  CollectsFrom <- TwoFiles
  tailingLimit = 1
  MaxTailers = 2
  MaxChanges = 2
  MaxFaults = 1
INVARIANTS
  LimitHolds
  NoOrphans
PROPERTIES
  FilesAreTailed
  RotatedEnds
  StopEnds
CHECK_DEADLOCK FALSE
