SPECIFICATION FairSpec
CONSTANTS
  c1 = c1
  c2 = c2
  c3 = c3
  r1 = r1
  Nobody = Nobody
  Callers <- ThreeCallers
  Readers <- NoReader
  LaneCount = 2
  Panicking <- TaskOnly
  MaxCalls = 4
  MaxPanics = 1
  MaxSpurious = 1
PROPERTIES EveryCallIsAdmitted ImplementsFairGrid
CHECK_DEADLOCK FALSE
