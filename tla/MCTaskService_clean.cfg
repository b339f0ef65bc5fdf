\* One call.
CONSTANTS
  Call = {c1}
  Capacity = 1
  None = None
SPECIFICATION Spec
INVARIANTS
  ShutdownIsClean
CHECK_DEADLOCK FALSE
