SPECIFICATION FairSpec
CONSTANTS
  Values <- MCValues
  Sent <- MCSent
  Broken = {"junk"}
  Listeners = {l1, l2}
  Types <- MCTypes
  MaxEntries = 2
  OwnAfter = 1
  RelayCuts = {14, 21}
INVARIANTS
  DeliveredAsSent
PROPERTIES
  UnsubscribeEnds
  ResolvedMeansHeard
CHECK_DEADLOCK FALSE
