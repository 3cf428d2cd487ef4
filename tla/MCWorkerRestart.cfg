SPECIFICATION Spec
CONSTANTS
  None = None
  Jobs = {j1, j2, j3}
  Starts = {s1, s2}
  Stops = {t1, t2}
  Concurrency = 1
  FetchMax = 10
  MaxTries = 1
  MaxDeliveries = 1
  MaxBeats = 0
  HandleSignals = TRUE
  Unhandled = {j2}
  SyncThrowers = {j3}
  Timed = {}
  ThrowingListeners = TRUE
  MayOverlap = FALSE
  CallsOverlap = TRUE
INVARIANTS
  SlotsHeldByLiveDeliveries
  LiveDeliveriesTracked
PROPERTIES
  TerminationAborts
CHECK_DEADLOCK FALSE
