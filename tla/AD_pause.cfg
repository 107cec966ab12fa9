SPECIFICATION FairSpec
CONSTANTS
    i1 = i1
    out = out
    None = None
    Inputs = {i1}
    Outputs = {out}
    Pinned = {i1}
    Modes = {TRUE}
    Requests = {"pause","resume","drm","stop","start"}
    MaxIds = 3
    MaxEvents = 1
    MaxManualEvents = 1
    MaxRequests = 2
INVARIANTS TypeOK
PROPERTIES PausedStaysSilent OutputReturns
CHECK_DEADLOCK FALSE
