SPECIFICATION Spec
CONSTANTS
  i1 = i1
  i2 = i2
  p1 = p1
  x1 = x1
  x2 = x2
  IPs = {i1, i2}
  Profiles = {p1}
  Backends = {x1, x2}
  MaxIssued = 2
  MaxCreated = 2
  MaxBootstrapsGlobal = 1
  MaxBootstrapsPerIP = 1
  MaxSessionsGlobal = 2
  MaxSessionsPerIP = 1
  MaxSessions = 2
  MaxStreamsGlobal = 2
  MaxStreams = 1
  MaxDialsGlobal = 2
  MaxDials = 2
  MaxClosedTokens = 1
  ClientsLeave = FALSE
INVARIANTS
  TypeOK
  CountersExact
  OneSessionPerBootstrap
  UsedBootstrapsKept
  NoLostPlace
  ShutdownLeavesNothing
SYMMETRY Interchangeable
CHECK_DEADLOCK FALSE
