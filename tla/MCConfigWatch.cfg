SPECIFICATION FairSpec
CONSTANTS
  base = base
  local = local
  Files <- MCFiles
  Order <- MCOrder
  Required <- MCRequired
  Dir <- MCTwoDirs
  Mounted <- MCPlain
  NeedsKey = TRUE
  Values <- MCValues
  Unfit <- MCUnfit
  None = None
  MaxOps = 3
  MaxQueue = 2
INVARIANTS
  NoCallbackAfterClose
  NoCallbackWithoutChange
PROPERTIES
  Converges
  CloseReturns
