SPECIFICATION WalletSpec
CONSTANTS
    Users = {u1}
    Requests = {r1, r2}
    Amounts = {1, 2}
    Limits = {0, 1}
    Reasons = {manual}
    OrderIds = {}
    Operations = {"deduct", "adjust", "update", "delete", "find"}
    NoUser = NoUser
    Failures = TRUE
    MaxVersion = 4
SYMMETRY Symmetry
INVARIANTS TypeOK SnapshotsTellTheirAge CacheTellsItsAge LedgerComplete ConsumedAgrees
PROPERTIES NoOverdraft ImplementsLedger
CHECK_DEADLOCK FALSE
