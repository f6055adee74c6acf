SPECIFICATION KeySpec
CONSTANTS
    Logins = {l1}
    Roles = {admin, operator}
    SessionTime = 2
    PasswordMaxAge = 3
    LoginTime = 1
    MaxTokens = 1
    MaxTime = 5
    Nothing = Nothing
    Keys = {k1}
    Clients = {c1}
    RequestTime = 1
    NoKey = NoKey
    Unused = Unused
    Never = Never
INVARIANTS
    StaleRoleIsBounded
    PasswordAgeIsBounded
    KeyUseIsFresh
