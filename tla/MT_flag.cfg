SPECIFICATION Spec
CONSTANTS
  Apps = {"zoom"}
  Clients = {c1}
  Ops = {"start"}
  EarlyCalls = FALSE
  SlowCalls = FALSE
  MaxCalls = 1
  MaxDetects = 1
  MaxAutoEnds = 0
  MaxRestarts = 0
  MaxFaults = 0
  Limit <- RunLimit
INVARIANTS ManualFlagOn
