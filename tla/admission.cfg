SPECIFICATION Spec
CONSTANTS
  u1 = u1
  u2 = u2
  c1 = c1
  c2 = c2
  Users <- MCUsers
  Clients <- MCClients
  UserOf <- MCUserOf
  BatchMax = 2
  MaxOutstanding = 2
  MaxQueueDepth = 3
  JobConcurrency = 1
  MaxFaults = 2
INVARIANTS
  OutstandingBound
  DepthBound
PROPERTIES
  NeverShutOut
