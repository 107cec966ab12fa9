SPECIFICATION FairSpec
CONSTANTS
    Engines = {e1}
    NoEngine = none
    Polls = {p1}
    MaxRestartAttempts = 1
    AudioOn = TRUE
    Verdicts = {"ok"}
    MaxActs = 0
    MaxQuits = 0
    MaxKills = 0
    MaxRevokes = 0
    MaxTimeouts = 1
    MaxFails = 0
    MaxTalks = 1
PROPERTIES MicOpensAnyway
CHECK_DEADLOCK FALSE
