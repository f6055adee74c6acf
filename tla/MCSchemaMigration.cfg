SPECIFICATION MigrationSpec
CONSTANTS
    Requests = {r1, r2}
    Passwords = {p1, p2, p3, p4}
    HistoryLimit = 2
    MaxChanges = 4
    Migrators = {m1, m2}
    Null = Null
    Free = Free
INVARIANTS
    HistoryIsGenuine
    AgeIsOfPassword
    SuccessMeansComplete
PROPERTIES
    RecentNotReused
CHECK_DEADLOCK FALSE
SYMMETRY Symmetry
