CONSTANTS
  p1 = p1
  p2 = p2
  w1 = w1
  w2 = w2
  Producers <- MCProducers
  Writers <- MCWriters
  ChanSize = 3
  Batch = 2
  MaxCall = 2
  MaxCalls = 3
SPECIFICATION LiveSpec
CHECK_DEADLOCK FALSE
INVARIANTS
  CountersAddUp
PROPERTIES
  AcceptedIsPosted
  ImplementsFifo
