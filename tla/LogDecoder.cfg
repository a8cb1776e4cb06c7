SPECIFICATION LiveSpec
CONSTANTS
  Files <- SmallFiles
  contentLenLimit = 3
  ReadSize = 3
  linesToAssess = 2
  matchThreshold = 48
  MaxRestarts = 1
  PlainLength = 5
  Utf16Length = 5
  ContainerLength = 6
INVARIANTS
  LengthsAddUp
  CoversExactly
  StopFlushes
  ChunkingIsIrrelevant
PROPERTIES
  LinesComeOut
CHECK_DEADLOCK FALSE
