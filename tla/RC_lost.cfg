SPECIFICATION Spec
CONSTANTS
  Segments = 3
  Speech = {1, 2, 3}
  MaxBatch = 2
  MaxGap = 1
  SweepLimit = 3
  MaxAttempts = 2
  MaxDbErrors = 2
  Users = {}
  SlowLive = FALSE
  Faults = {"crash", "db"}
  Empty = {}
  MaxFaults = 2
INVARIANTS NoLoss
CHECK_DEADLOCK FALSE
