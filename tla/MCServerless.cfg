SPECIFICATION Spec
CONSTANTS
  Jobs = {good, better, garbled, stray}
  Unparsable = {garbled}
  Unhandled = {stray}
  Invocations = {i1, i2}
  MaxBatch = 3
INVARIANTS
  CompletedWasHandled
  FailuresAreExact
CHECK_DEADLOCK FALSE
