SPECIFICATION LiveFairSpec
CONSTANTS
  c1 = c1
  r1 = r1
  r2 = r2
  k1 = k1
  p1 = p1
  p2 = p2
  d1 = d1
  q1 = q1
  s1 = s1
  s2 = s2
  None = None
  Jobs = {c1}
  Challenge = {c1}
  Protocol = {}
  Misfit = {}
  Price <- MCPrice
  Nodes = {n1}
  Cheaters = {}
  FleetNodes = {n1}
  Wallets = {w1}
  Handlers = {r1, r2}
  Operator = {"unbind"}
  Credits = 2
  MaxAttempts = 2
  AssignTTL = 1
  ChallengeTTL = 1
  Grace = 0
  EpochLen = 2
  PayHold = 2
  MaxNow = 4
  MaxDraws = 1
  MaxFaults = 1
PROPERTIES ChallengeEnds  EveryDepositCredited  AlwaysEnds
CHECK_DEADLOCK FALSE
