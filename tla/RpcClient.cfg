CONSTANTS
  Callers = {h, t1, t2}
  Servers <- TwoServers
  Conns = {c1, c2}
  MaxFaults = 2
SPECIFICATION LiveSpec
INVARIANTS
  InFlightIsOpen
  NoneIsLeaked
PROPERTIES
  CallsRecover
CHECK_DEADLOCK FALSE
