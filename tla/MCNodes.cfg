SPECIFICATION Spec
CONSTANTS
  None = None
  Jobs = {c1, p1}
  Challenge = {c1}
  Protocol = {p1}
  Misfit = {}
  Price <- MCPrice
  Nodes = {n1}
  Cheaters = {n1}
  FleetNodes = {n1}
  Wallets = {w1, w2}
  Handlers = {r1}
  Operator = {"bind", "unbind", "drain", "suspend", "lift", "claw", "reverse"}
  Credits = 4
  MaxAttempts = 2
  AssignTTL = 1
  ChallengeTTL = 1
  Grace = 0
  EpochLen = 1
  PayHold = 1
  MaxNow = 4
  MaxDraws = 1
  MaxFaults = 1
INVARIANTS ClawsHold PaysCommittedWallet
PROPERTIES CatchReachesWallet
CHECK_DEADLOCK FALSE
