SPECIFICATION Spec
CONSTANTS
  Apps = {"zoom"}
  Clients = {c1}
  Ops = {"start", "stop", "status"}
  EarlyCalls = FALSE
  SlowCalls = FALSE
  MaxCalls = 3
  MaxDetects = 2
  MaxAutoEnds = 0
  MaxRestarts = 1
  MaxFaults = 0
  Limit <- RunLimit
INVARIANTS OpenOwned LockMeansOpen StopReachesDetector
