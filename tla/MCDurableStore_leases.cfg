\* Two tasks that share the quota, two executions claimed one after the other or
\* side by side, and a clock that ends leases and lets tasks be pruned.
CONSTANTS
  Task = {t1, t2}
  Source = {s1, s2}
  Name = {}
  Key = {}
  Worker = {}
  None = None
  MAX_DURABLE_PROGRAMS = 2
  MAX_HISTORY_EVENTS = 2
  MAX_PENDING_SIGNALS = 1
  Lease = 1
  MaxTime = 2
  MaxToken = 2
  MaxSignal = 0
  MaxWakeupClaims = 0
SPECIFICATION Spec
SYMMETRY Interchangeable
INVARIANTS
  TypeOK
  WritersInClaimOrder
  SingleRunner
  ActiveCountExact
  AdmissionIsTruthful
PROPERTIES
  RecordsAreImmutable
\* The bounded clock and tokens run out.
CHECK_DEADLOCK FALSE
