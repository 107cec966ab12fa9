SPECIFICATION FairSpec
CONSTANTS
  Apps = {"zoom"}
  Clients = {c1}
  Ops = {"start", "stop", "resume", "delete"}
  EarlyCalls = FALSE
  SlowCalls = FALSE
  MaxCalls = 2
  MaxDetects = 1
  MaxAutoEnds = 1
  MaxRestarts = 0
  MaxFaults = 1
  Limit <- RunLimit
INVARIANTS TypeOK
PROPERTIES StopsEnd FlagSettles
