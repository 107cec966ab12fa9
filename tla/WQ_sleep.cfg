SPECIFICATION FairSpec
CONSTANTS
    Writes = {w1, w2}
    Compound = {}
    Lenient = {w2}
    Tasks = {t1}
    Drain = drain
    Conns = {c1, c2}
    NoConn = none
    Capacity = 2
    MaxBatch = 2
    MaxRetries = 2
    Faults = {"row", "full", "io"}
    MaxSleeps = 1
    MaxCancels = 1
INVARIANT OkDurable
PROPERTIES EveryWriteAnswered PermitReturned
