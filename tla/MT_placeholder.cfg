SPECIFICATION Spec
CONSTANTS
  Apps = {"zoom"}
  Clients = {c1}
  Ops = {"status"}
  EarlyCalls = FALSE
  SlowCalls = FALSE
  MaxCalls = 0
  MaxDetects = 1
  MaxAutoEnds = 0
  MaxRestarts = 0
  MaxFaults = 1
  Limit <- RunLimit
INVARIANTS PlaceholderFilled
