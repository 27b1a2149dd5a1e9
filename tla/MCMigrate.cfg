SPECIFICATION FairSpec
CONSTANTS
  None = None
  a = a
  b = b
  c1 = c1
  c2 = c2
  c3 = c3
  Calls <- MCCalls
  Replicas <- MCReplicas
  ReplicaOf <- MCReplicaOf
  Versions <- MCVersions
  Known <- MCKnown
  AllowMissing <- MCAllowMissing
  PoolLimits <- MCPoolLimits
  Ops <- MCOps
INVARIANTS
  NoLeakedLock
  PlanIsFresh
  UpLeavesNothingPending
  ReportMatchesCommits
PROPERTIES
  StrictlyAscending
  ImplementsSerial
  EveryCallReturns
