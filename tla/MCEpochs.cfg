\* Two jobs, one of which may be booked late, three epochs, and a keeper that
\* may die anywhere, with claims, claws and a guardian that may veto.
SPECIFICATION Spec
CONSTANTS
  Jobs = {j1, j2}
  Keepers = {k1}
  LateJobs = {j2}
  MaxEpoch = 3
  MaxFaults = 1
INVARIANTS ApiAgrees
PROPERTIES ImplementsEpochLife
CHECK_DEADLOCK FALSE
