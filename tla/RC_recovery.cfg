SPECIFICATION FairSpec
CONSTANTS
  Segments = 4
  Speech = {1, 2}
  MaxBatch = 2
  MaxGap = 1
  SweepLimit = 3
  MaxAttempts = 1
  MaxDbErrors = 1
  Users = {}
  SlowLive = TRUE
  Faults = {"crash", "db", "stt", "disk"}
  Empty = {}
  MaxFaults = 1
INVARIANTS NoLoss NoZombie
PROPERTY Settles ImplementsSpeechLedger
CHECK_DEADLOCK FALSE
