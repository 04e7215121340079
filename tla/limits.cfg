SPECIFICATION Spec
CONSTANTS
  c1 = c1
  c2 = c2
  Clients <- MCClients
  Counters <- MCCounters
  CountersOf <- MCCountersOf
  WindowOf <- MCWindowOf
  Limit <- MCLimit
  Length <- MCLength
  Ttl <- MCTtl
  MaxFaults = 1
SYMMETRY Alike
INVARIANTS
  WindowLimit
  CountersExpire
  CostlyWasCounted
