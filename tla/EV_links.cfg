SPECIFICATION Spec
CONSTANTS
    Monitors = {m1, m2}
    Contents = {a, b}
    Ignored = {}
    Throttled = {}
    None = None
    Kinds = {"click", "scroll"}
    Ring = 1
    Buffer = 1
    Capacity = 1
    MaxEvents = 2
    MaxFrames = 1
    MaxChanges = 1
    MaxFaults = 1
SYMMETRY Symmetry
INVARIANTS TypeOK OwnScreen Remembered RowsLinked
CHECK_DEADLOCK FALSE
