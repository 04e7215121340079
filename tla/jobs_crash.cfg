SPECIFICATION FairSpec
CONSTANTS
  j1 = j1
  j2 = j2
  text = text
  NoJob = NoJob
  Jobs <- MCOneJob
  Inputs <- MCInputs
  InputOf <- MCInputOf
  JobConcurrency = 2
  Faults = {"crash", "stop", "cancel", "abandon", "db", "redis", "resend", "engine"}
  MaxFaults = 3
INVARIANTS
  NoJobLost
  ClaimedOnce
  ResultsArePaid
PROPERTIES
  OrphansReturn
  AcceptedJobsFinish
  QueueDrains
CHECK_DEADLOCK FALSE
