SPECIFICATION SSpec
CONSTANTS
  Threads = {main, s1, s2}
  Main = main
  Server = {s1, s2}
  Path <- APath
  EmptyPath = ""
  App <- AApp
  Matches <- AMatches
  Length <- ALength
  Parent <- AParent
  Strip <- AStrip
  NoEntry = NoEntry
  Uses <- AUses
  Calls <- ACalls
  MaxCalls = 3
  Datagram <- AllDatagrams
  NoText = NoText
  NoServer = NoServer
  Workflow <- Names
  MaxUses = 1
  MaxQueued = 1
  MaxApplied = 2
INVARIANTS
  OnlyItsWorkflow
  MergedAsSum
  FirstStartWaits
PROPERTIES
  ServerStops
CHECK_DEADLOCK FALSE
