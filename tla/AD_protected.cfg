SPECIFICATION Spec
CONSTANTS
    i1 = i1
    out = out
    None = None
    Inputs = {i1}
    Outputs = {out}
    Pinned = {i1}
    Modes = {TRUE}
    Requests = {"drm"}
    MaxIds = 2
    MaxEvents = 0
    MaxManualEvents = 0
    MaxRequests = 1
INVARIANT OutputsYield
CHECK_DEADLOCK FALSE
