SPECIFICATION StreamSpec
CONSTANTS
  j1 = j1
  j2 = j2
  text = text
  NoJob = NoJob
  Jobs <- MCJobs
  Inputs <- MCInputs
  Followed <- MCFollowed
  InputOf <- MCInputOf
  JobConcurrency = 2
  Faults = {"engine"}
  MaxFaults = 0
INVARIANTS
  BooksBalance
  AnswerConfirms
PROPERTIES
  KeepsPromise
  StreamHearsTheEnd
CHECK_DEADLOCK FALSE
