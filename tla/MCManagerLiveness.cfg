SPECIFICATION FairSpec
CONSTANTS
  i1 = i1
  p1 = p1
  x1 = x1
  IPs = {i1}
  Profiles = {p1}
  Backends = {x1}
  MaxIssued = 2
  MaxCreated = 2
  MaxBootstrapsGlobal = 2
  MaxBootstrapsPerIP = 0
  MaxSessionsGlobal = 1
  MaxSessionsPerIP = 0
  MaxSessions = 2
  MaxStreamsGlobal = 2
  MaxStreams = 2
  MaxDialsGlobal = 2
  MaxDials = 2
  MaxClosedTokens = 2
  ClientsLeave = TRUE
PROPERTIES
  ShutdownEnds
  AbandonedReclaimed
  ShutdownDrains
CHECK_DEADLOCK FALSE
