SPECIFICATION Spec
CONSTANTS
  Node = {n1, n2}
  Path = {f, slash_f}
  NoPath = NoPath
  Token <- OneToken
  Words <- NoBlanks
  Interfaces <- McastAndFs
  None = None
  Uncached = Uncached
  Empty = Empty
  Torn = Torn
  MaxCalls = 3
  MaxStarts = 2
  SendFails = TRUE
  DiskFails = TRUE
SYMMETRY Symmetry
INVARIANTS
  NoInventedHome
PROPERTIES
  FirstClaimStays
  HomeIsFound
CHECK_DEADLOCK FALSE
