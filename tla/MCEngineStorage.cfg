SPECIFICATION Spec
CONSTANTS
  Threads = {t1, t2}
  Path <- SmallPath
  EmptyPath = ""
  App <- MCApp
  Matches <- SmallMatches
  Length <- SmallLength
  Parent <- SmallParent
  Strip <- MCStrip
  NoEntry = NoEntry
  Calls <- StorageCalls
  MaxCalls = 3
INVARIANTS
  AllInMemory
  StorageInv
PROPERTIES
  CallsReturn
CHECK_DEADLOCK FALSE
