SPECIFICATION Spec
CONSTANTS
  None = None
  Jobs = {c1, m1}
  Challenge = {c1}
  Protocol = {}
  Misfit = {}
  Price <- MCPrice
  Nodes = {n1, n2}
  Cheaters = {n1}
  FleetNodes = {}
  Wallets = {w1}
  Handlers = {r1, r2}
  Operator = {}
  Credits = 4
  MaxAttempts = 2
  AssignTTL = 1
  ChallengeTTL = 1
  Grace = 1
  EpochLen = 2
  PayHold = 2
  MaxNow = 3
  MaxDraws = 1
  MaxFaults = 0
INVARIANTS PaidIffCaptured OneJobPerNode JobMoney
PROPERTIES FinishedStays
SYMMETRY Symmetry
CHECK_DEADLOCK FALSE
