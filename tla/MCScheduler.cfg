\* Three tasks and a queue of two; two generations end the life of a task's
\* claims; batches smaller and larger than the room.
CONSTANTS
  Task = {1, 2, 3}
  Owner = {o1}
  None = None
  capacity = 2
  MaxGeneration = 2
  MaxTime = 1
  MaxLease = 1
  MaxLimit = 2
SPECIFICATION Spec
INVARIANTS
  TypeOK
  OneHolder
  ClaimsAreOfRunning
  
PROPERTIES
  FencedForGood
  TerminalIsFinal
  NoOvertaking
