SPECIFICATION SessionsSpec
CONSTANTS
    Names = {n1, n2}
    AdminName = n1
    Requests = {r1, r2}
    Life = 3
    CacheLife = 2
    NoUser = NoUser
    Failures = TRUE
    MaxUsers = 2
    Scenarios = {{"register", "enter", "delete"}, {"login", "enter", "current", "logout"}, {"login", "enter", "current", "role", "delete"}}
INVARIANTS
    SessionsTypeOK
    RevokedStaysOut
    CopyIsRecent
    AdminRightsEnd
CHECK_DEADLOCK FALSE
SYMMETRY Symmetry
