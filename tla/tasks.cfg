SPECIFICATION Spec
CONSTANTS
    TaskIds = {t1}
    Handlers = {h1, h2}
    Workers = {w1, w2}
    Kinds = {"jiekou_api"}
    Operations = {"create", "approve", "update", "cancel", "retry"}
    AutoAudit = FALSE
    MaxRetries = 1
    Failures = TRUE
    NoTask = NoTask
    MaxRuns = 2
    MaxFailures = 2
SYMMETRY Symmetry
CHECK_DEADLOCK FALSE
INVARIANTS
    TypeOK
    RefundOnlyAfterRetries
    RunsDoNotMultiply
    OneRefundPerRun
