SPECIFICATION Spec
CONSTANTS
  Threads = {t1, t2}
  Path <- MethodPath
  EmptyPath = ""
  App <- MCApp
  Matches <- MethodMatches
  Length <- MethodLength
  Parent <- MethodParent
  Strip <- MCStrip
  NoEntry = NoEntry
  Calls <- MethodCalls
  MaxCalls = 1
INVARIANTS
  TypeOK
PROPERTIES
  CallsReturn
CHECK_DEADLOCK FALSE
