SPECIFICATION FairSpec
CONSTANTS
    Users = {u1}
    Requests = {r1}
    Amounts = {1}
    Limits = {0}
    Reasons = {manual}
    OrderIds = {o1, o2}
    Operations = {"delete"}
    Jobs = {j1, j2}
    NoUser = NoUser
    NoOrder = NoOrder
    Failures = TRUE
    MaxVersion = 3
INVARIANTS WaitsEnd
PROPERTIES EveryJobEnds
CHECK_DEADLOCK FALSE
