SPECIFICATION Spec
CONSTANTS
    Monitors = {m1}
    Contents = {a, b}
    Ignored = {}
    Throttled = {}
    None = None
    Kinds = {"click"}
    Ring = 1
    Buffer = 1
    Capacity = 1
    MaxEvents = 1
    MaxFrames = 3
    MaxChanges = 1
    MaxFaults = 0
INVARIANT ElementsOwn
CHECK_DEADLOCK FALSE
