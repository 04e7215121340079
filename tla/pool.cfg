SPECIFICATION Spec
CONSTANTS
  t1 = t1
  t2 = t2
  t3 = t3
  NoPool = NoPool
  Threads <- MCThreads
  MaxPools = 5
  PoolMax = 2
  MaxFaults = 2
INVARIANTS
  ClosedPoolIsDropped
PROPERTIES
  CalmStays
