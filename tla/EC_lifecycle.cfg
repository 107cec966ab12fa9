SPECIFICATION Spec
CONSTANTS
    Engines = {e1, e2, e3}
    NoEngine = none
    Polls = {p1}
    MaxRestartAttempts = 1
    AudioOn = FALSE
    Verdicts = {"ok"}
    MaxActs = 2
    MaxQuits = 1
    MaxKills = 1
    MaxRevokes = 1
    MaxTimeouts = 1
    MaxFails = 0
    MaxTalks = 0
SYMMETRY EngineSymmetry
INVARIANTS TypeOK OneEngine StatusHonest RespawnOnlyAfterCrash
CHECK_DEADLOCK FALSE
