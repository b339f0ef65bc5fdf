\* Two calls and one place in the queue, on one thread and on several.
CONSTANTS
  Call = {c1, c2}
  Capacity = 1
  None = None
SPECIFICATION FairSpec
INVARIANTS
  TypeOK
  FailuresHaveCauses
  NoTaskHeld
  AnswersAreFinal

  
\* A service that was shut down does nothing more.
CHECK_DEADLOCK FALSE
