SPECIFICATION Spec
CONSTANTS
  Threads = {t1, t2}
  Path <- MethodPath
  EmptyPath = ""
  App <- MCApp
  Matches <- MethodMatches
  Length <- MethodLength
  Parent <- MethodParent
  Strip <- MCStrip
  NoEntry = NoEntry
  Calls <- UnlockedCalls
  MaxCalls = 1
INVARIANTS
  AllInMemory
CHECK_DEADLOCK FALSE
