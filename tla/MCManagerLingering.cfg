SPECIFICATION Spec
CONSTANTS
  i1 = i1
  p1 = p1
  x1 = x1
  IPs = {i1}
  Profiles = {p1}
  Backends = {x1}
  MaxIssued = 1
  MaxCreated = 1
  MaxBootstrapsGlobal = 2
  MaxBootstrapsPerIP = 0
  MaxSessionsGlobal = 2
  MaxSessionsPerIP = 0
  MaxSessions = 2
  MaxStreamsGlobal = 2
  MaxStreams = 2
  MaxDialsGlobal = 2
  MaxDials = 2
  MaxClosedTokens = 2
  ClientsLeave = FALSE
INVARIANTS
  NoLingeringGoroutine
CHECK_DEADLOCK FALSE
