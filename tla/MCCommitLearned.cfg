SPECIFICATION PollingSpec
CONSTANTS
  Node = {n1, n2}
  Path <- OneSpelling
  Token <- OneToken
  Interfaces <- McastOnly
  Pollers = {n1}
  MaxCalls = 2
  MaxStarts = 1
  SendFails = FALSE
  DiskFails = FALSE
PROPERTIES
  CommitIsLearned
CHECK_DEADLOCK FALSE
