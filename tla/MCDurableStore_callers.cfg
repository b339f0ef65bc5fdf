\* One task with an execution, a low-level wakeup owner and a signal: the two
\* wakeup interfaces and the unscoped store meet.
CONSTANTS
  Task = {t1}
  Source = {s1}
  Name = {n1}
  Key = {}
  Worker = {w1}
  None = None
  MAX_DURABLE_PROGRAMS = 1
  MAX_HISTORY_EVENTS = 1
  MAX_PENDING_SIGNALS = 1
  Lease = 1
  MaxTime = 1
  MaxToken = 1
  MaxSignal = 1
  MaxWakeupClaims = 2
SPECIFICATION Spec
SYMMETRY Interchangeable
INVARIANTS
  CompletedIsQuiescent

  
\* The bounded clock, tokens and signals run out.
CHECK_DEADLOCK FALSE
