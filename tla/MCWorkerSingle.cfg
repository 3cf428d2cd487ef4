SPECIFICATION Spec
CONSTANTS
  None = None
  Jobs = {j1, j2, j3}
  Starts = {s1}
  Stops = {t1}
  Concurrency = 2
  FetchMax = 10
  MaxTries = 2
  MaxDeliveries = 1
  MaxBeats = 1
  HandleSignals = TRUE
  Unhandled = {}
  SyncThrowers = {}
  Timed = {j1, j2, j3}
  ThrowingListeners = FALSE
  MayOverlap = FALSE
  CallsOverlap = FALSE
SYMMETRY JobSymmetry
INVARIANTS
  ConcurrencyRespected
  TerminatedIsQuiescent
  NoIdleWait
PROPERTIES
  ImplementsPool
CHECK_DEADLOCK FALSE
