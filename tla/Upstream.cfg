SPECIFICATION UpstreamSpec
CONSTANTS
  MaxTunnel = 3
  MaxHeaders = 1
  HostLens = {0, 3}
  Task = {t1, t2}
  Worker = {w1, w2}
  MaxLookups = 2
  Host = {1, 2}
  Address = {11, 12, 21}
  HostOf <- MCHostOf
  MaxAnswers = 2
  Nobody = Nobody
  MaxName = 4
  Messages <- MCMessages
  resolve <- MCResolve
  MaxQueries = 2
INVARIANTS
  TunnelIntact
  LookupsBounded
  TriesOwnHost
  RepliesMatch
PROPERTIES
  ServiceSettles
  TunnelRead
  CapacityReturns
CHECK_DEADLOCK FALSE
