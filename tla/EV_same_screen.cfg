SPECIFICATION Spec
CONSTANTS
    Monitors = {m1}
    Contents = {a, b}
    Ignored = {b}
    Throttled = {}
    None = None
    Kinds = {"click"}
    Ring = 1
    Buffer = 1
    Capacity = 1
    MaxEvents = 1
    MaxFrames = 1
    MaxChanges = 1
    MaxFaults = 0
PROPERTY SameScreen
CHECK_DEADLOCK FALSE
