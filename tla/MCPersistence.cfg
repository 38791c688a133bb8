SPECIFICATION PSpec
CONSTANTS
  Threads = {main}
  Path <- DPath
  EmptyPath = ""
  App <- DApp
  Matches <- DMatches
  Length <- DLength
  Parent <- DParent
  Strip <- DStrip
  NoEntry = NoEntry
  Calls <- EditCalls
  MaxCalls = 80
  Documents <- ByHand
  Names = {"CAPIO", "wf"}
  DefaultName = "CAPIO"
  Prefixes <- DPrefixes
  Absolute <- DAbsolute
  Under <- DUnder
  MaxEdits = 3
  MaxInt = 5
INVARIANTS
  LoadedAsWritten
  SavedIsKept
  PlainReloadsEqual
  RefusedForAReason
CHECK_DEADLOCK FALSE
