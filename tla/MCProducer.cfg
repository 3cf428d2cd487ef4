SPECIFICATION Spec
CONSTANTS
  Singles = {e1}
  Batches = {b1}
  BatchSize = 2
  Middlewares = 2
  Drains = {d1, d2}
  MaxJobs = 2
  MaxSwitches = 3
INVARIANTS
  HandledOnce
  PerformedIsHistory
  AtMostOneRequest
CHECK_DEADLOCK FALSE
