SPECIFICATION SSpec
CONSTANTS
  Threads = {main, s1}
  Main = main
  Server = {s1}
  Path <- APath
  EmptyPath = ""
  App <- AApp
  Matches <- AMatches
  Length <- ALength
  Parent <- AParent
  Strip <- AStrip
  NoEntry = NoEntry
  Uses <- AUses
  Calls <- AUses
  MaxCalls = 3
  Datagram <- NoDatagram
  NoText = NoText
  NoServer = NoServer
  Workflow <- Names
  MaxUses = 1
  MaxQueued = 1
  MaxApplied = 2
PROPERTIES
  StartReturns
CHECK_DEADLOCK FALSE
