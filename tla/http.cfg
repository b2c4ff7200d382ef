SPECIFICATION PFairSpec
CONSTANTS
  e1 = e1
  w1 = w1
  ka = ka
  Executions <- OneExecution
  Timed <- OneExecution
  Capacity = 2
  MaxChunks = 4
  Writers <- OneWriter
  ExecutionOf <- AllOfOne
  Keys <- OneKey
  Grants <- FullGrants
  MaxWrites = 1
  Foreign = Foreign
  NoObject = NoObject
INVARIANTS ResponseIsWhole ReadIsOfItsTime
PROPERTIES BlockedWriteResumes ReturnedGuestIsReported LimitsEndExchange ImplementsObjectWrites
CHECK_DEADLOCK FALSE
