SPECIFICATION NetworkSpec
CONSTANTS
  None = None
  Nodes = {p1, p2}
  Deps = {1, 2, 3, 4}
  Static = {1}
  Interruptible = {2}
  Replicas = {3, 4}
  Large = {p1}
  Parent <- Parents
  Need <- Needs
  Size <- Sizes
  Serves <- Able
  Slots = 2
  StaticSlots = 1
  Beats = {b1, b2}
  Overlap = FALSE
  Reports = FALSE
  MaxChanges = 1
  StoNodes = {n1, n2}
  StoNetworks = {{n1}, {n2}}
  StoIds = {c1, c2, c3}
  StoFaults = 1
  SprNodes = {n1, n2, n3}
  SprNetworks = {{n1, n2}, {n3}}
  SprIds = {c1, c2}
  SprFaults = 0
  Runs = {r1}
  Copies = 2
  Fetches = 1
  Torn = FALSE
INVARIANTS  StorageSound
SYMMETRY Symmetry
CHECK_DEADLOCK FALSE
