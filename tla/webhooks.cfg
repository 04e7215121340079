SPECIFICATION Spec
CONSTANTS
  one = one
  two = two
  Instances <- MCInstances
  FilesOf <- MCFilesOf
  Last = 2
  MaxRestarts = 1
  MaxFaults = 1
  Hooks = {h1}
  NoItem = NoItem
  JobConcurrency = 1
INVARIANTS
  FailsOncePerVersion
  SchemaInOrder
  ServesMigrated
  BacklogBound
PROPERTIES
  EveryStartServes
  LoopGoesRound
