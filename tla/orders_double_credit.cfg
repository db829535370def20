SPECIFICATION Spec
CONSTANTS
    Users = {u1}
    Requests = {r1}
    Amounts = {1}
    Limits = {0}
    Reasons = {manual}
    OrderIds = {o1}
    Operations = {}
    Jobs = {j1, j2}
    NoUser = NoUser
    NoOrder = NoOrder
    Failures = FALSE
    MaxVersion = 2
INVARIANTS CreditedOnce
CHECK_DEADLOCK FALSE
