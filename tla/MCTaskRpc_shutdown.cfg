SPECIFICATION FairSpec
CONSTANTS
  Task = {1}
  Owner = {w1, w2}
  None = None
  capacity = 1
  MaxGeneration = 2
  MaxTime = 1
  MaxLease = 1
  MaxLimit = 1
  Conn = {c1, c2}
  MaxBatch = 1
PROPERTIES
  
  DepartureEnds
