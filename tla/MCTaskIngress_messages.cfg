\* Message sizes around the broker's limit and the documented one.
CONSTANTS
  Cron <- SomeCron
  Producer = {p, q}
  Capacity = 1
  CatchUp = 2
  FirstId = 1
  LastId = 4
  LastMinute = 1
  Size = {32, 33, 1024, 1025}
  None = None
SPECIFICATION Spec
INVARIANTS
  DocumentedMessageLimit
