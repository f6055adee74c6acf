SPECIFICATION FairNotifySpec
CONSTANTS
    Writers = {w1, w2}
    Events = {request, mailing, queued}
    Mailings = {mailing}
    Announced = {queued}
    NoWriter = NoWriter
    Handler = Handler
    MaxEntries = 3
    Users = {u1, u2}
    None = None
INVARIANTS
    ChainLinked
    AnsweredIsAudited
    AuditedHappenedOnce
    AuditedIsDelivered
PROPERTIES
    ImplementsTrail
    LockReleased
