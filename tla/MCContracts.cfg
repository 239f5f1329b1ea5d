SPECIFICATION ContractsSpec
CONSTANTS
  None = None
  p1 = p1
  p2 = p2
  StakeAmounts = {1, 4}
  TIER1_MIN_STAKE = 4
  UNSTAKE_COOLDOWN = 1
  Challenged = FALSE
  MaxStaked = 5
  StakeTime = 2
  MaxChallenges = 1
  Workloads = {w1, w2}
  Payments = {8, 12}
  Rewards = {0, 2, 3}
  Burns = TRUE
  BURN_BPS = 20
  TREASURY_BPS = 5
  BPS_DENOM = 40
  HasTreasury = TRUE
  MaxPaid = 24
  MaxBatch = 2
  MaxWorkloads = 4
  Devices = {d1, d2, d3}
  Base = {4, 7}
  HALVING_INTERVAL = 1
  EmiSupply = 10000
  INITIAL_RATE_BPS = 800
  TERMINAL_RATE_BPS = 500
  DECAY_NUM = 85
  DECAY_DEN = 100
  EmiYear = 4
  BurnAmount = 700
  EmiTime = 15
  MaxBurns = 2
  V1Epochs = {1, 2, 3}
  V1Posts <- MCV1Posts
  V1Deposits = {50, 60}
  V1Supply = 250
  V1Tail = 150
  V1Seconds = 1
  V1Year = 2
  V1Genesis = 1
  V1Delay = 1
  V1Time = 5
  MaxPosts = 3
  Accounts = {p1, p2}
  Trees <- MCTrees
  Posts <- MCPosts
  Deposits = {200}
  Epochs = {1, 2}
  YearLen = 2
  Deployed = 1
  InitialSupply = 600
  MaxMintBps = 1000
  EpochSecs = 1
  VetoDelay = 1
  VestB = 1
  Genesis = 1
  MaxNow = 5
INVARIANTS NetIssuanceBounded EscrowCovers LanesSound PendingExact LegacySound
PROPERTIES FinalizedIsFinal
CHECK_DEADLOCK FALSE
