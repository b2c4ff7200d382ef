SPECIFICATION FairSpec
CONSTANTS
  e1 = e1
  e2 = e2
  Executions <- TwoExecutions
  Timed <- FirstOnly
INVARIANTS StatusHasCause
PROPERTIES InterruptIsFinal LimitsEndExecutions
CHECK_DEADLOCK FALSE
