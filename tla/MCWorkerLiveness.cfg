SPECIFICATION FairSpec
CONSTANTS
  None = None
  Jobs = {j1, j2}
  Starts = {s1}
  Stops = {t1}
  Concurrency = 2
  FetchMax = 10
  MaxTries = 2
  MaxDeliveries = 1
  MaxBeats = 1
  HandleSignals = TRUE
  Unhandled = {}
  SyncThrowers = {}
  Timed = {}
  ThrowingListeners = FALSE
  MayOverlap = FALSE
  CallsOverlap = FALSE
PROPERTIES
  EveryDeliveryReports
  RunningKeepsFetching
  StopEventuallyTerminates
  ImplementsLifecycle
CHECK_DEADLOCK FALSE
