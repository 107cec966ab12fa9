SPECIFICATION Spec
CONSTANTS
  Apps = {"zoom"}
  Clients = {c1}
  Ops = {"start", "stop", "status"}
  EarlyCalls = FALSE
  SlowCalls = FALSE
  MaxCalls = 2
  MaxDetects = 2
  MaxAutoEnds = 1
  MaxRestarts = 1
  MaxFaults = 0
  Limit <- RunLimit
INVARIANT OpenOwned
