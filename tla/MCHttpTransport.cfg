SPECIFICATION CallFairSpec
CONSTANTS
  MaxRetries = 3
INVARIANTS
  TimersCleared
  DoneOnceUnlessProxied
PROPERTIES
  AbortStopsRequests
  RequestIsRemoteCall
CHECK_DEADLOCK FALSE
