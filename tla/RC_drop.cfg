SPECIFICATION Spec
CONSTANTS
  Segments = 2
  Speech = {1, 2}
  MaxBatch = 2
  MaxGap = 1
  SweepLimit = 2
  MaxAttempts = 1
  MaxDbErrors = 1
  Users = {"drop"}
  SlowLive = FALSE
  Faults = {}
  Empty = {}
  MaxFaults = 0
INVARIANTS NoLoss
CHECK_DEADLOCK FALSE
