SPECIFICATION FairAutoSpec
CONSTANTS
    Savers = {s1, s2}
    Worker = Worker
    Passwords = {p1}
    Keep = 2
    Interval = 1
    MaxTime = 3
    MaxFailures = 1
    MaxSaves = 2
    Absent = Absent
INVARIANTS
    AutoTypeOK
    RetentionKept
PROPERTIES
    SettingsSurvive
    OnlyOutdatedRemoved
    DueIsMade
CHECK_DEADLOCK FALSE
