SPECIFICATION PaymentsSpec
CONSTANTS
  Logs = {d1, d2}
  Dust = {}
  Passes = {p1, p2}
  None = none
  StartBlock = 1
  Confirmations = 2
  MaxBlocksPerRun = 1
  ReorgDepth = 2
  MaxHead = 5
  MaxReorgs = 1
  MaxFaults = 1
  Sessions = {q1}
  Intents = {intent}
  CardFaults = 2
  Quotes = {q1}
  InitialPrices = {26, 1400}
  Loads = {0, 1, 710, 1000}
  HourTicks = 2
  LockTicks = 1
  Slow = FALSE
  PriTime = 4
  Nonces = {s1, s2}
  Logins = {a1, a2}
  Tokens = {t1, t2, t3}
  NonceTtl = 2
  TokenTtl = 3
  Minute = 1
  SesTime = 7
  MaxRotations = 2
  Isolates = {i1, i2}
  Calls = {a1, a2, a3}
  Keys = {k1}
  Owners = {o1}
  MAX_KEYS_PER_ACCOUNT = 1
  CacheSecs = 2
  Lifetimes = {3, 9}
  KeyTime = 8
  MaxWait = 2
INVARIANTS DepositsExact  SessionsHold RevokedWithinWindow
CHECK_DEADLOCK FALSE
