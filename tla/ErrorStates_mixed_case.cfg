CONSTANTS
  Errors = {e1}
  Width = 3
  MaxAmount = 2
  MaxCount = 3
SPECIFICATION Spec
INVARIANT ClearedIsCleared
CHECK_DEADLOCK FALSE
