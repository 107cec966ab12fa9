SPECIFICATION Spec
CONSTANTS
  Apps = {"zoom"}
  Clients = {c1}
  Ops = {"start", "delete"}
  EarlyCalls = FALSE
  SlowCalls = FALSE
  MaxCalls = 2
  MaxDetects = 1
  MaxAutoEnds = 0
  MaxRestarts = 0
  MaxFaults = 0
  Limit <- RunLimit
INVARIANTS LockMeansOpen
