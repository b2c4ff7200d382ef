SPECIFICATION Spec
CONSTANTS
  e1 = e1
  Executions <- OneExecution
  Timed <- OneExecution
  Capacity = 2
  MaxChunks = 2
INVARIANTS LimitIsNamed
CHECK_DEADLOCK FALSE
