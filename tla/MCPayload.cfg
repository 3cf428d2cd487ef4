SPECIFICATION Spec
CONSTANTS
  Jobs <- MCJobs
  OldJobs = {"old"}
  StringFirst = {"text", "old"}
  Keys <- MCKeys
  OldKey = "k1"
  Workers = {w1}
  None = None
  MaxOthers = 1
  MaxEdits = 2
  MaxKeyChanges = 1
INVARIANTS
  HandlerSeesArguments
  EncryptedOnce
PROPERTIES
  FailsForWantOfKey
