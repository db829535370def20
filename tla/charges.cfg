SPECIFICATION FairChargesSpec
CONSTANTS
    TaskIds = {t1}
    Handlers = {h1, h2}
    Workers = {w1, w2}
    Kinds = {"local"}
    Operations = {"approve", "retry"}
    AutoAudit = FALSE
    MaxRetries = 1
    Failures = FALSE
    NoTask = NoTask
    MaxRuns = 3
    MaxFailures = 7
    Owner = Owner
    Others = {r1}
    Price = 1
    NoUser = NoUser
    Manual = Manual
    MaxOtherVersion = 3
    MaxVersion = 20
INVARIANTS PaidExactlyOnce RefundsAreOfPaidRuns WaitingIsScheduled
PROPERTIES PendingIsSettled ChargesImplementLedger ChargesImplementTasks
CHECK_DEADLOCK FALSE
