SPECIFICATION Spec
CONSTANTS
  Programs <- MCPrograms
  Ops <- MCOps
  Keyless = {"e"}
  None = None
  MaxAttempts = 4
INVARIANTS
  TypeOK
  SameValuesAgain
  OwnValues
PROPERTIES
  RecordedRunsOnce
CHECK_DEADLOCK FALSE
