SPECIFICATION SealsSpec
CONSTANTS
  Nodes = {n1, n2}
  Requests = {p1}
  None = None
  Secrets = TRUE
  Purges = TRUE
  StartAttempts = 1
  MaxClaims = 2
  MaxFaults = 1
  Stops = FALSE
  Reqs = {q1, q2}
  Copies = {a1, a2}
  Isolates = {s1, s2}
  Skew = 1
  WINDOW = 3
  TTL = 6
  DbFails = FALSE
  SigTime = 8
  MaxWait = 1
  MaxLost = 1
  FleNodes = {q1}
  FleetIds = {f1, f2}
  Deps = {d1, d2}
  Pin <- MCPin
  FleRequests = {a1, a2}
  MaxAnnounces = 0
  MaxEvictions = 0
  MaxFlips = 0
INVARIANTS SealedToItsNode  NothingWaitsOnRevoked
PROPERTIES SealSurvives
CHECK_DEADLOCK FALSE
CONSTRAINT Bounded
SYMMETRY Symmetry
