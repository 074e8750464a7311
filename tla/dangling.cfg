SPECIFICATION Spec
CONSTANTS
  Edited = {"1.6"}
  Trimmed = {1}
  Splits = {"1.6"}
  MaxDeleted = 1
  MaxAgain = 0
CHECK_DEADLOCK FALSE
INVARIANTS
  RefsCorrected
