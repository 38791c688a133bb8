SPECIFICATION Spec
CONSTANTS
  Node = {n1, n2}
  Path <- BothSpellings
  Token <- BothToken
  Interfaces <- McastAndFs
  Pollers = {}
  MaxCalls = 3
  MaxStarts = 3
  SendFails = TRUE
  DiskFails = TRUE
SYMMETRY NodeSymmetry
INVARIANTS
  TypeOK
  NoSpuriousCommit
PROPERTIES
  CommitIsForGood
  RegisterSpec
CHECK_DEADLOCK FALSE
