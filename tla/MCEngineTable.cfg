SPECIFICATION Spec
CONSTANTS
  Threads = {t1, t2}
  Path <- MCPath
  EmptyPath = ""
  App <- MCApp
  Matches <- MCMatches
  Length <- MCLength
  Parent <- MCParent
  Strip <- MCStrip
  NoEntry = NoEntry
  Calls <- TableCalls
  MaxCalls = 2
SYMMETRY Symmetry
PROPERTIES
  NoLostRoles
  LookupsPreserveSemantics
  FrozenCount
  CountFollowsChildren
CHECK_DEADLOCK FALSE
