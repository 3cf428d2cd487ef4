SPECIFICATION Spec
CONSTANTS
  c1 = c1
  c2 = c2
  Calls <- MCCalls
  Requests <- MCBatches
  Metadata = {"valid"}
  MaxCloses = 1
  MaxDepth = 0
  MaxItems = 0
INVARIANTS
  OptionsReachServer
CHECK_DEADLOCK FALSE
