SPECIFICATION FairSpec
CONSTANTS
  c1 = c1
  c2 = c2
  Calls <- MCCalls
  Requests <- MCRequests
  Metadata = {"valid", "invalid"}
  MaxCloses = 2
  MaxDepth = 1
  MaxItems = 1
INVARIANTS
  NoOrphanChannel
  ArgumentsReturn
PROPERTIES
  CallsEnd
  ImplementsRemoteCall
CHECK_DEADLOCK FALSE
