SPECIFICATION Spec
CONSTANTS
  Task = {t1}
  Source = {s1}
  Name = {n1, n2}
  Key = {k1}
  Worker = {}
  None = None
  MAX_DURABLE_PROGRAMS = 1
  MAX_HISTORY_EVENTS = 3
  MAX_PENDING_SIGNALS = 2
  Lease = 1
  MaxTime = 1
  MaxToken = 2
  MaxSignal = 2
  MaxWakeupClaims = 0
SYMMETRY Interchangeable
INVARIANTS
  SignalsConserved
  SignalFifo
  SignalOncePerKey
\* The bounded clock, tokens and signals run out.
CHECK_DEADLOCK FALSE
