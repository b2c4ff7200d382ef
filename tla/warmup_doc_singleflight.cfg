SPECIFICATION Spec
CONSTANTS
  q1 = q1
  q2 = q2
  q3 = q3
  q4 = q4
  d1 = d1
  d2 = d2
  None = None
  Requests <- FourRequests
  Digests <- OneDigest
  Budget = 2
  MaxPending = 4
  Defects <- OneDefect
  MayFail = TRUE
  MayDisconnect = FALSE
INVARIANTS OnePreparationPerDigest
CHECK_DEADLOCK FALSE
