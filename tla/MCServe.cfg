SPECIFICATION FairSpec
CONSTANTS
  N = 2
  r1 = r1
  r2 = r2
  probe = probe
  Requests <- MCRequests
  To <- MCTo
INVARIANTS
  DrainStopsEveryListener
  NilMeansAllServed
  GraceIsGranted
PROPERTIES
  CancelledRunReturns
  GoroutinesExit
