SPECIFICATION Spec
CONSTANTS
    Threads = {t1, t2}
    Users = {u1, root}
    Admins = {root}
    Accounts = {a1}
    Directories = {d1, d2}
    Targets = {x1}
    ClientKeys = {c1}
    ServerKeys = {s1, s2}
    MaxOrders = 1
    None = None
INVARIANTS
    TypeOK
    KeyMatchesCsr
PROPERTIES
    NewOrdersUseAccount
SYMMETRY Symmetry
