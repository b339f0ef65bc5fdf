\* Four minutes, a window of two, a queue of two that a producer shares, and a
\* clock that may be set to any of them, until the ids are used up.
CONSTANTS
  Cron <- SomeCron
  Producer = {p}
  Capacity = 2
  CatchUp = 2
  FirstId = 1
  LastId = 6
  LastMinute = 3
  Size = {32}
  None = None
SPECIFICATION FairSpec
INVARIANTS
  TypeOK
  FiredInOrderOnce
  NothingSkipped
  CatchUpIsBounded
PROPERTIES
  DueIsQueued
