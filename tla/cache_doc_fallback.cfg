SPECIFICATION Spec
CONSTANTS
  p1 = p1
  p2 = p2
  d1 = d1
  d2 = d2
  Preparers <- TwoPreparers
  Digests <- OneDigest
  MaxBytes = 1
  RestoreMode = "FileBacked"
  MayCrash = FALSE
INVARIANTS FallsBackToCanonical
CHECK_DEADLOCK FALSE
