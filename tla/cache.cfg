SPECIFICATION Spec
CONSTANTS
  p1 = p1
  p2 = p2
  d1 = d1
  d2 = d2
  Preparers <- TwoPreparers
  Digests <- TwoDigests
  MaxBytes = 1
  RestoreMode = "FileBacked"
  MayCrash = TRUE
SYMMETRY CacheSymmetry
INVARIANTS SoundCacheNeverFails AloneFallsBack QuietEntryIsWarm PublicationFitsBudget
PROPERTIES NoPartialEntry
CHECK_DEADLOCK FALSE
