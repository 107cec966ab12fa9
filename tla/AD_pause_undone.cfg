SPECIFICATION Spec
CONSTANTS
    i1 = i1
    i2 = i2
    None = None
    Inputs = {i1, i2}
    Outputs = {}
    Pinned = {i1}
    Modes = {TRUE}
    Requests = {"pause", "resume"}
    MaxIds = 2
    MaxEvents = 0
    MaxManualEvents = 0
    MaxRequests = 1
INVARIANT Quiet
CHECK_DEADLOCK FALSE
