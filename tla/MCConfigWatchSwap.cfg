SPECIFICATION FairSpec
CONSTANTS
  base = base
  local = local
  Files <- MCFiles
  Order <- MCOrder
  Required <- MCRequired
  Dir <- MCTwoDirs
  Mounted <- MCMounted
  NeedsKey = TRUE
  Values <- MCValues
  Unfit <- MCUnfit
  None = None
  MaxOps = 1
  MaxQueue = 2
PROPERTY
  SwapsReload
