SPECIFICATION FairSpec
CONSTANTS
  q1 = q1
  q2 = q2
  q3 = q3
  q4 = q4
  d1 = d1
  d2 = d2
  None = None
  Requests <- ThreeRequests
  Digests <- TwoDigests
  Budget = 1
  MaxPending = 2
  Defects <- OneDefect
  MayFail = TRUE
  MayDisconnect = TRUE
INVARIANTS PermitsConserved HotBeforeLane PreparedOnce FailedCellIsRemoved UnstartedNeverRan
PROPERTIES EveryRequestEnds ImplementsContract
CHECK_DEADLOCK FALSE
