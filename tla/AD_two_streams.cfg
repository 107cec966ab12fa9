SPECIFICATION Spec
CONSTANTS
    i1 = i1
    i2 = i2
    None = None
    Inputs = {i1, i2}
    Outputs = {}
    Pinned = {i1}
    Modes = {TRUE}
    Requests = {"pause", "resume"}
    MaxIds = 2
    MaxEvents = 1
    MaxManualEvents = 1
    MaxRequests = 2
INVARIANT InReach
CHECK_DEADLOCK FALSE
