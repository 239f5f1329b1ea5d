SPECIFICATION Spec
CONSTANTS
  None = None
  Jobs = {c1}
  Challenge = {c1}
  Protocol = {}
  Misfit = {}
  Nodes = {n1, n2}
  Cheaters = {}
  FleetNodes = {}
  Wallets = {w1}
  Handlers = {r1, r2}
  Operator = {}
  Credits = 2
  MaxAttempts = 3
  AssignTTL = 1
  ChallengeTTL = 1
  Grace = 0
  EpochLen = 2
  PayHold = 2
  MaxNow = 5
  MaxDraws = 3
  MaxFaults = 0
  Price <- MCPrice
CHECK_DEADLOCK FALSE
INVARIANTS
  CommitmentBindsSigma
