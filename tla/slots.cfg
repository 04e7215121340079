SPECIFICATION FairSpec
CONSTANTS
  t1 = t1
  t2 = t2
  t3 = t3
  Tasks <- MCTasks
  JobConcurrency = 2
  SlotTTL = 3
  QueueWait = 2
  HoldersMayOverrun = FALSE
INVARIANTS
  HoldersWithinLimit
  SlotsAccountedFor
PROPERTIES
  AcquireReturns
  ImplementsSemaphore
