SPECIFICATION FairSpec
CONSTANTS
  Executions = {e1}
  Kinds = {"retry", "timeout", "observer", "tracer", "user"}
  MaxRetries = 2
  RecordersThrow = TRUE
  MaxLength = 2
  MaxAfterClear = 1
  MaxArrays = 2
INVARIANTS
  HandlerAtMostOnce
  ResolvedMeansDone
  OnionOrder
  
PROPERTIES
  TimeoutBounds
CHECK_DEADLOCK FALSE
