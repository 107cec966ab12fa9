SPECIFICATION FairSpec
CONSTANTS
  Segments = 2
  Speech = {2}
  MaxBatch = 1
  MaxGap = 1
  SweepLimit = 2
  MaxAttempts = 1
  MaxDbErrors = 1
  Users = {}
  SlowLive = FALSE
  Faults = {}
  Empty = {1}
  MaxFaults = 0
PROPERTY Settles
CHECK_DEADLOCK FALSE
