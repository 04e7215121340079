SPECIFICATION Spec
CONSTANTS
  j1 = j1
  j2 = j2
  text = text
  NoJob = NoJob
  Jobs <- MCOneJob
  Inputs <- MCInputs
  InputOf <- MCInputOf
  JobConcurrency = 1
  Faults = {"engine", "crash"}
  MaxFaults = 1
INVARIANTS
  FailedJobsRefunded
CHECK_DEADLOCK FALSE
