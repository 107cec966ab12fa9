SPECIFICATION Spec
CONSTANTS
  Apps = {"zoom"}
  Clients = {c1}
  Ops = {"stop"}
  EarlyCalls = FALSE
  SlowCalls = FALSE
  MaxCalls = 1
  MaxDetects = 2
  MaxAutoEnds = 0
  MaxRestarts = 0
  MaxFaults = 0
  Limit <- RunLimit
PROPERTIES UserStopHolds
