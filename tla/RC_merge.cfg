SPECIFICATION Spec
CONSTANTS
  Segments = 3
  Speech = {1, 2}
  MaxBatch = 2
  MaxGap = 1
  SweepLimit = 2
  MaxAttempts = 1
  MaxDbErrors = 2
  Users = {"drop", "retranscribe"}
  SlowLive = FALSE
  Faults = {"stt", "disk", "rename", "read"}
  Empty = {}
  MaxFaults = 1
INVARIANTS TypeOK TextOnce TextPlayable
CHECK_DEADLOCK FALSE
