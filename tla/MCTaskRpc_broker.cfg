\* Two connections compete for one worker id; claims of up to two tasks, and a
\* queue with room for one.
SPECIFICATION Spec
CONSTANTS
  Task = {1, 2}
  Owner = {w1}
  None = None
  capacity = 1
  MaxGeneration = 2
  MaxTime = 1
  MaxLease = 1
  MaxLimit = 2
  Conn = {c1, c2}
  MaxBatch = 2
SYMMETRY Symmetry
INVARIANTS
  TypeOK
  OneConnectionPerWorker
  OutcomesAgree
  NoLostTask
PROPERTIES
  
  OutcomeIsFinal
  SchedulerSpec
