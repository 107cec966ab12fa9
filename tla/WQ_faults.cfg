SPECIFICATION Spec
CONSTANTS
    Writes = {w1, w2, w3}
    Compound = {w3}
    Lenient = {w2}
    Tasks = {t1}
    Drain = drain
    Conns = {c1, c2}
    NoConn = none
    Capacity = 2
    MaxBatch = 2
    MaxRetries = 2
    Faults = {"row", "io"}
    MaxSleeps = 0
    MaxCancels = 1
INVARIANTS TypeOK OneWriter CleanPool PoolNotStarved
PROPERTY ImplementsAckedStore
