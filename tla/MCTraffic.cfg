SPECIFICATION TrafficSpec
CONSTANTS
  Nobody = Nobody
  Hubs = {n1}
  Callers = {q1, q2}
  RelSockets = 2
  PrbCallers = {q1, q2}
  PrbProbes = {q3}
  PrbSockets = 1
  PrbSlots = 1
  PerNode = 2
  PerDep = 2
  Kicks = 0
  Stalls = FALSE
  Sites = {s1, s2}
  BadSites = {s1}
  EndpointKeys = {k1, k2}
  Requests = {q1, q2}
  ROUTE_TTL = 1
  STATIC_TTL = 2
  MaxLag = 1
  MaxTime = 6
  MaxMoves = 1
INVARIANTS  GatewaySound
SYMMETRY Alike
CHECK_DEADLOCK FALSE
