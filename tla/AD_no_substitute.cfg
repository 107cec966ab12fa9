SPECIFICATION FairSpec
CONSTANTS
    i1 = i1
    i2 = i2
    None = None
    Inputs = {i1, i2}
    Outputs = {}
    Pinned = {i1}
    Modes = {FALSE}
    Requests = {}
    MaxIds = 2
    MaxEvents = 1
    MaxManualEvents = 1
    MaxRequests = 0
PROPERTY SubstituteComes
CHECK_DEADLOCK FALSE
