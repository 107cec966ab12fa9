SPECIFICATION FairSpec
CONSTANTS
    Engines = {e1, e2}
    NoEngine = none
    Polls = {p1}
    MaxRestartAttempts = 2
    AudioOn = TRUE
    Verdicts = {"ok"}
    MaxActs = 0
    MaxQuits = 0
    MaxKills = 0
    MaxRevokes = 0
    MaxTimeouts = 1
    MaxFails = 1
    MaxTalks = 2
PROPERTIES MicReleased MicOpens RespawnEnds CrashNoticed
CHECK_DEADLOCK FALSE
