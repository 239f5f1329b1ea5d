SPECIFICATION PayoutSpec
CONSTANTS
  Slots = {s1, s2, s3}
  Wallets = {w1, w2}
  Fees = {2, 33, 1000}
  Units = {1, 3}
  Budgets = {0, 7, 41}
  Rho = 50000
  NMin = 2
  SCapPct = 60
  MaxCloses = 2
INVARIANTS  LaneBFits MerkleExact
CHECK_DEADLOCK FALSE
