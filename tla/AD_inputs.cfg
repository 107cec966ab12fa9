SPECIFICATION FairSpec
CONSTANTS
    i1 = i1
    i2 = i2
    None = None
    Inputs = {i1, i2}
    Outputs = {}
    Pinned = {i1}
    Modes = {TRUE, FALSE}
    Requests = {}
    MaxIds = 2
    MaxEvents = 3
    MaxManualEvents = 4
    MaxRequests = 0
PROPERTIES InputRecovers SubstituteLeaves
CHECK_DEADLOCK FALSE
