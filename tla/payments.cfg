SPECIFICATION FairPaymentsSpec
CONSTANTS
    Users = {u1}
    Requests = {r1}
    Amounts = {1}
    Limits = {0}
    Reasons = {manual}
    OrderIds = {o1}
    Operations = {"deduct"}
    Jobs = {j1, j2}
    NoUser = NoUser
    NoOrder = NoOrder
    Failures = TRUE
    MaxVersion = 3
    Methods = {m1}
    Accounts = {a1}
    Customers = {c1}
    Editors = {e1}
    NoMethod = NoMethod
    NoBill = NoBill
    Incomplete = Incomplete
    Keep = Keep
    MaxEdits = 2
    MaxFaults = 1
INVARIANTS OrdersTypeOK CreditMatchesStatus LostOnlyByOverwriting DeletedMethodsStay AcknowledgedIsCredited
PROPERTIES PaidIsCredited
CHECK_DEADLOCK FALSE
