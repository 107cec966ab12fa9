SPECIFICATION Spec
CONSTANTS
    Writes = {w1, w2}
    Compound = {}
    Lenient = {}
    Tasks = {}
    Drain = drain
    Conns = {c1, c2}
    NoConn = none
    Capacity = 2
    MaxBatch = 2
    MaxRetries = 1
    Faults = {"io"}
    MaxSleeps = 0
    MaxCancels = 0
INVARIANT PoisonedDropped
