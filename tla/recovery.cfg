SPECIFICATION RecoverySpec
CONSTANTS
    TaskIds = {t1}
    Handlers = {h1}
    Workers = {w1}
    Kinds = {"jiekou_api"}
    Operations = {"create"}
    AutoAudit = TRUE
    MaxRetries = 1
    Failures = TRUE
    NoTask = NoTask
    MaxRuns = 1
    MaxFailures = 2
    Pollers = {p1, p2}
    MaxPolls = 1
    ChanSize = 1
    MaxCrashes = 1
    ExtraPolls = 1
CHECK_DEADLOCK FALSE
SYMMETRY Symmetry
INVARIANTS
    RecoveryTypeOK
    RefundOnlyAfterFailures
    PollsFollowSubmission
