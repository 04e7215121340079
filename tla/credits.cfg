SPECIFICATION FairSpec
CONSTANTS
  r1 = r1
  r2 = r2
  r3 = r3
  r4 = r4
  j1 = j1
  j2 = j2
  NoJob = NoJob
  Requests <- MCRequests
  Jobs <- MCJobs
  JobOf <- MCJobOf
  Cost <- MCCost
  MaxCost = 2
  Granted = 4
INVARIANTS
  UsedWithinGrant
  OneRowPerJob
PROPERTIES
  LockReturns
  ImplementsLedger
