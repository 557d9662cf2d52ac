SPECIFICATION FairSpec
CONSTANTS
    c1 = c1
    c2 = c2
    Characters = {c1, c2}
    NoCharacter = NoCharacter
    ExperienceCap = 2
    MaxAge = 1
    MaxSessions = 2
    MaxTaps = 1
    Outcomes = {"done", "failed"}
    SlowPass = FALSE
    FlushRaces = FALSE
INVARIANTS EveryKillCounts
PROPERTIES RecordNeverGoesBack AcknowledgedIsDurable AwardReachesRecord
CHECK_DEADLOCK FALSE
