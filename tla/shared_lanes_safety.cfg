SPECIFICATION Spec
CONSTANTS
  c1 = c1
  c2 = c2
  c3 = c3
  r1 = r1
  Nobody = Nobody
  Callers <- ThreeCallers
  Readers <- OneReader
  LaneCount = 2
  Panicking <- BothPanic
  MaxCalls = 4
  MaxPanics = 2
  MaxSpurious = 1
SYMMETRY CallerSymmetry
INVARIANTS NeverStuck OneExecutionPerLane NoLostWakeup WaitingIsExact SnapshotRunningFits LostLanesArePanics
CHECK_DEADLOCK FALSE
