SPECIFICATION FairRequestSpec
CONSTANTS
    Threads = {t1, t2}
    Kinds = {"update", "check"}
    MaxRequests = 2
    MaxTimers = 1
    MaxKills = 1
    MaxVersion = 2
    NoFile = NoFile
INVARIANTS
    RequestTypeOK
PROPERTIES
    RequestServed
    SuccessIsCurrent
CHECK_DEADLOCK FALSE
