SPECIFICATION HarnessSpec
CONSTANTS
  r1 = r1
  r2 = r2
  m1 = m1
  m2 = m2
  db = db
  cache = cache
  self = self
  NoReq = NoReq
  Reqs <- MCReqs
  Middleware <- MCMiddleware
  Health <- MCHealth
  Readiness <- MCReadiness
INVARIANTS
  LayersInPlace
  ProbeIsHonest
  VerdictIsRight
