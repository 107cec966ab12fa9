SPECIFICATION Spec
CONSTANTS
    Engines = {e1, e2}
    NoEngine = none
    Polls = {p1}
    MaxRestartAttempts = 1
    AudioOn = FALSE
    Verdicts = {"ok"}
    MaxActs = 2
    MaxQuits = 0
    MaxKills = 0
    MaxRevokes = 0
    MaxTimeouts = 0
    MaxFails = 0
    MaxTalks = 0
SYMMETRY EngineSymmetry
INVARIANTS WipeAlone
CHECK_DEADLOCK FALSE
