SPECIFICATION HostingSpec
CONSTANTS
  Requests = {r1, r2}
  Nodes = {n1}
  None = None
  Hour = 2
  Price = 2
  Credits = 5
  ProbeFails = 3
  MaxReports = 1
  MaxNow = 2
  N = 2
  Secrets = TRUE
  START_ATTEMPTS = 2
  MaxMoves = 2
  MaxThrows = 0
  FRAME = 2
  WINDOW = 4
  Caps = {4}
  Upload = 3
  Download = 4
  Early = TRUE
  Cuts = TRUE
INVARIANTS MoneyExact  EndpointsWhole 
PROPERTIES EndedIsFinal
SYMMETRY Symmetry
CHECK_DEADLOCK FALSE
