SPECIFICATION TransportSpec
CONSTANTS
  p = p
  q = q
  open = open
  run = run
  None = None
  InTree = InTree
  Provides <- MCProvides
  Opens <- MCOpens
  Servers <- MCServers
  Names = {"http", "stdio"}
  Ports = {"Transport", "Exporter"}
  Port = "Transport"
  Default = "stdio"
  Types = {"s", "t"}
SYMMETRY Symmetric
INVARIANTS
  OpenRunsWhatWasProvided
  UnknownIsHonest
  ServesWhatWasAsked
