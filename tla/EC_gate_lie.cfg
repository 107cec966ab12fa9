SPECIFICATION Spec
CONSTANTS
    Engines = {e1}
    NoEngine = none
    Polls = {p1}
    MaxRestartAttempts = 1
    AudioOn = TRUE
    Verdicts = {"ok"}
    MaxActs = 0
    MaxQuits = 0
    MaxKills = 0
    MaxRevokes = 0
    MaxTimeouts = 0
    MaxFails = 1
    MaxTalks = 1
SYMMETRY EngineSymmetry
INVARIANTS GateTellsTruth
CHECK_DEADLOCK FALSE
