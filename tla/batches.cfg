SPECIFICATION FairSpec
CONSTANTS
  b1 = b1
  b2 = b2
  Nobody = Nobody
  Calls <- TwoCalls
  Counts <- OneLongOneShort
  LaneCount = 2
  Outcomes <- OkOrLimit
  MayPanic = TRUE
  ForeignIds <- TheSecond
INVARIANTS OneWorkerPerLane ResultsCompleteInOrder SnapshotAtRest PeakCoversEvents NodeReportAgrees
PROPERTIES EveryBatchEnds
CHECK_DEADLOCK FALSE
