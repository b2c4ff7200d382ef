SPECIFICATION FairSpec
CONSTANTS
  r1 = r1
  r2 = r2
  r3 = r3
  r4 = r4
  ga = ga
  gb = gb
  gc = gc
  None = None
  Requests <- FourRequests
  Garages <- ThreeGarages
  LaneCount = 1
  MaxPending = 3
  MaxDepth = 2
  RemoteDepthLimit = 2
INVARIANTS ChainVisitsOnce InlineNeedsNoTimeout
PROPERTIES EveryRequestEnds
CHECK_DEADLOCK FALSE
