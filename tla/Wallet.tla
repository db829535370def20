------------------------------- MODULE Wallet -------------------------------
(***************************************************************************)
(* internal/services/user_service.go: the users table, the transactions    *)
(* table (here the ledger) and the Redis cache "user:<id>", under the      *)
(* concurrent requests of the HTTP handlers and of the task workers.       *)
(*                                                                         *)
(* Every balance operation is a database transaction that reads the user,  *)
(* computes in memory, and writes back with WHERE version = ?; PostgreSQL  *)
(* runs it at READ COMMITTED, so the read sees what is committed and the   *)
(* UPDATE sees what is committed when it gets the row lock.  The read is   *)
(* one step.  The UPDATE, the INSERT of the transaction row and the COMMIT *)
(* are one step: the row lock hides the points between them from every     *)
(* other writer of the user.  Deleting the cached copy comes after the     *)
(* commit, as a step of its own.                                           *)
(***************************************************************************)
EXTENDS Integers, Sequences

CONSTANTS
    Users,        \* the registered users
    Requests,     \* the goroutines that run an operation
    Amounts,      \* what one operation may move: float64 in the code, scaled
    Limits,       \* credit limits the admin API accepts (it accepts any number)
    Reasons,      \* what the reason of a debit, credit or refund may name
    OrderIds,     \* payment orders, which the reason of a top-up names
    Operations,   \* the operations the environment calls
    NoUser,       \* no such row, or no such cache entry
    Failures,     \* whether the database, Redis or the process may fail
    MaxVersion    \* bound: no operation begins on a row of this version

ASSUME AmountsAssumption == Amounts \subseteq Nat \ {0}
ASSUME OperationsAssumption ==
    Operations \subseteq {"deduct", "adjust", "update", "delete", "find"}
ASSUME LimitsAssumption == Limits \subseteq Int /\ 0 \in Limits

DeductTypes == {"user_consume", "admin_adjustment"}
AdjustTypes == {"user_refund", "admin_adjustment"}
TopupTypes == {"user_topup", "manual_topup"}
Types == DeductTypes \union AdjustTypes \union TopupTypes

RowReasons == Reasons \union OrderIds

Row == [balance : Int, credit : Int, consumed : Int, version : Nat \ {0},
        active : BOOLEAN]

ASSUME NoUserAssumption == NoUser \notin Row

Entry == [amount : Int, before : Int, after : Int, type : Types,
          reason : RowReasons]

VARIABLES
    account,      \* account[u]: the committed row of u, or NoUser
    ledger,       \* ledger[u]: the committed transactions rows of u, by id
    cache,        \* cache[u]: what Redis holds under user:<u>, or NoUser
    req           \* req[r]: where goroutine r is, and what it holds in memory

walletVars == <<account, ledger, cache, req>>

Idle == [step |-> "idle"]

\* What a goroutine holds between two of its steps.  snap is the row it read.
Request ==
    {Idle}
    \union [step : {"deduct"}, user : Users, snap : Row, amount : Amounts,
            type : DeductTypes, reason : Reasons]
    \union [step : {"adjust"}, user : Users, snap : Row, amount : Amounts,
            type : AdjustTypes, reason : Reasons]
    \union [step : {"update"}, user : Users, snap : Row, limit : Limits,
            active : BOOLEAN]
    \union [step : {"fill"}, user : Users, snap : Row]
    \union [step : {"find", "invalidate", "purge"}, user : Users]
    \union [step : {"drop"}, user : Users, purged : Nat]

\* A row just registered: the column defaults of models.User.
NewRow == [balance |-> 0, credit |-> 0, consumed |-> 0, version |-> 1,
           active |-> TRUE]

WalletInit ==
    /\ account = [u \in Users |-> NewRow]
    /\ ledger = [u \in Users |-> <<>>]
    /\ cache = [u \in Users |-> NoUser]
    /\ req = [r \in Requests |-> Idle]

Goto(r, state) == req' = [req EXCEPT ![r] = state]

\* What a new transactions row says: the amount and the balances around it.
RowOf(amount, before, type, reason) ==
    [amount |-> amount, before |-> before, after |-> before + amount,
     type |-> type, reason |-> reason]

-----------------------------------------------------------------------------
(* The version check every balance operation and UpdateUser end in.        *)

\* A plausible slip: the id is matched and the version is not.
WriteMatchesIdOnly(snap, current) == current # NoUser

\* UPDATE ... WHERE id = ? AND version = ?: whether a row is affected.
RowMatches(snap, current) ==
    current # NoUser /\ current.version = snap.version

\* Either the row is written, the transaction rows go in with it and the
\* cached copy is next, or ErrOptimisticLock ends the request.
VersionedWrite(r, newRow, entries) ==
    LET u == req[r].user IN
    \/ /\ RowMatches(req[r].snap, account[u])
       /\ account' = [account EXCEPT ![u] = newRow]
       /\ ledger' = [ledger EXCEPT ![u] = @ \o entries]
       /\ Goto(r, [step |-> "invalidate", user |-> u])
       /\ UNCHANGED cache
    \/ /\ ~ RowMatches(req[r].snap, account[u])
       /\ Goto(r, Idle)
       /\ UNCHANGED <<account, ledger, cache>>

\* The row exists, and the bound on versions leaves room for one more write.
CanRead(r, u) ==
    /\ req[r] = Idle
    /\ account[u] # NoUser
    /\ account[u].version < MaxVersion

-----------------------------------------------------------------------------
(* DeductBalance and DeductBalanceTx.                                      *)

\* A plausible slip: only the credit limit is looked at once it is set.
FundsIgnoreDebt(row, amount) == row.balance >= amount \/ row.credit >= amount

SufficientFunds(row, amount) == row.balance + row.credit >= amount

\* tx.First and the funds check.  A refusal changes nothing.
BeginDeduct(r, u, amount, type, reason) ==
    /\ CanRead(r, u)
    /\ SufficientFunds(account[u], amount)
    /\ Goto(r, [step |-> "deduct", user |-> u, snap |-> account[u],
                amount |-> amount, type |-> type, reason |-> reason])
    /\ UNCHANGED <<account, ledger, cache>>

\* The columns the UPDATE names are computed from the row that was read.
DeductedRow(row, snap, amount) ==
    [row EXCEPT !.balance = snap.balance - amount,
                !.consumed = snap.consumed + amount,
                !.version = snap.version + 1]

DeductWrite(r) ==
    LET q == req[r] IN
    /\ q.step = "deduct"
    /\ VersionedWrite(r, DeductedRow(account[q.user], q.snap, q.amount),
                      <<RowOf(-q.amount, q.snap.balance, q.type, q.reason)>>)

-----------------------------------------------------------------------------
(* AdjustBalance: administrator credits and refunds.                       *)

BeginAdjust(r, u, amount, type, reason) ==
    /\ CanRead(r, u)
    /\ Goto(r, [step |-> "adjust", user |-> u, snap |-> account[u],
                amount |-> amount, type |-> type, reason |-> reason])
    /\ UNCHANGED <<account, ledger, cache>>

\* A plausible slip: a refund leaves total_consumed alone.
RefundKeepsConsumed(row, snap, amount, type) ==
    [row EXCEPT !.balance = snap.balance + amount,
                !.version = snap.version + 1,
                !.active = IF snap.balance + amount = 0 THEN FALSE ELSE @]

\* A refund is taken off total_consumed; a balance that lands on zero
\* deactivates the account.
AdjustedRow(row, snap, amount, type) ==
    [row EXCEPT !.balance = snap.balance + amount,
                !.version = snap.version + 1,
                !.consumed = IF type = "user_refund"
                                THEN snap.consumed - amount ELSE @,
                !.active = IF snap.balance + amount = 0 THEN FALSE ELSE @]

AdjustWrite(r) ==
    LET q == req[r] IN
    /\ q.step = "adjust"
    /\ VersionedWrite(r, AdjustedRow(account[q.user], q.snap, q.amount, q.type),
                      <<RowOf(q.amount, q.snap.balance, q.type, q.reason)>>)

-----------------------------------------------------------------------------
(* UpdateUser: the admin API sets the credit limit and the active flag; a  *)
(* field the request leaves out keeps its value, which is a member of the  *)
(* same sets.  Names, roles and passwords are not modelled.                *)

BeginUpdate(r, u, newLimit, newActive) ==
    /\ CanRead(r, u)
    /\ Goto(r, [step |-> "update", user |-> u, snap |-> account[u],
                limit |-> newLimit, active |-> newActive])
    /\ UNCHANGED <<account, ledger, cache>>

\* A plausible slip: the version is checked and not advanced.
UpdatedRowSameVersion(row, snap, newLimit, newActive) ==
    [row EXCEPT !.credit = newLimit, !.active = newActive]

UpdatedRow(row, snap, newLimit, newActive) ==
    [row EXCEPT !.credit = newLimit, !.active = newActive,
                !.version = snap.version + 1]

UpdateWrite(r) ==
    LET q == req[r] IN
    /\ q.step = "update"
    /\ VersionedWrite(r, UpdatedRow(account[q.user], q.snap, q.limit, q.active),
                      <<>>)

-----------------------------------------------------------------------------
(* The end of every write: the cached copy goes after the commit.          *)

Invalidate(r) ==
    /\ req[r].step = "invalidate"
    /\ cache' = [cache EXCEPT ![req[r].user] = NoUser]
    /\ Goto(r, Idle)
    /\ UNCHANGED <<account, ledger>>

-----------------------------------------------------------------------------
(* DeleteUser: one transaction of three statements.  The two DELETEs touch *)
(* different tables, so rows may be committed to the ledger between them.  *)

BeginDelete(r, u) ==
    /\ req[r] = Idle
    /\ account[u] # NoUser
    /\ Goto(r, [step |-> "purge", user |-> u])
    /\ UNCHANGED <<account, ledger, cache>>

\* DELETE FROM transactions locks the rows committed by now and hides
\* nothing yet.  It waits for another transaction that locked some of them.
PurgeRows(r) ==
    LET u == req[r].user IN
    /\ req[r].step = "purge"
    /\ \A other \in Requests :
          req[other].step = "drop" /\ req[other].user = u => req[other].purged = 0
    /\ Goto(r, [step |-> "drop", user |-> u, purged |-> Len(ledger[u])])
    /\ UNCHANGED <<account, ledger, cache>>

\* DELETE FROM users and the COMMIT, which shows both deletions at once.
\* The user may be gone already: no affected row is not an error here.
DropUser(r) ==
    LET u == req[r].user IN
    /\ req[r].step = "drop"
    /\ account' = [account EXCEPT ![u] = NoUser]
    /\ ledger' = [ledger EXCEPT ![u] = SubSeq(@, req[r].purged + 1, Len(@))]
    /\ Goto(r, [step |-> "invalidate", user |-> u])
    /\ UNCHANGED cache

-----------------------------------------------------------------------------
(* FindUserByID: cache-aside, one hour to live.  A hit changes nothing.    *)

\* There is no copy, or the GET fails.
BeginFind(r, u) ==
    /\ req[r] = Idle
    /\ Failures \/ cache[u] = NoUser
    /\ Goto(r, [step |-> "find", user |-> u])
    /\ UNCHANGED <<account, ledger, cache>>

\* A plausible slip: the not-found error of the query is not returned.
ReadFoundUnchecked(r) ==
    LET u == req[r].user IN
    /\ req[r].step = "find"
    /\ Goto(r, [step |-> "fill", user |-> u, snap |-> account[u]])
    /\ UNCHANGED <<account, ledger, cache>>

ReadFound(r) ==
    LET u == req[r].user IN
    /\ req[r].step = "find"
    /\ Goto(r, IF account[u] = NoUser THEN Idle
               ELSE [step |-> "fill", user |-> u, snap |-> account[u]])
    /\ UNCHANGED <<account, ledger, cache>>

\* Set stores what was read, whatever happened to the row since.
FillCache(r) ==
    /\ req[r].step = "fill"
    /\ cache' = [cache EXCEPT ![req[r].user] = req[r].snap]
    /\ Goto(r, Idle)
    /\ UNCHANGED <<account, ledger>>

CacheExpire(u) ==
    /\ cache[u] # NoUser
    /\ cache' = [cache EXCEPT ![u] = NoUser]
    /\ UNCHANGED <<account, ledger, req>>

-----------------------------------------------------------------------------
(* A failed statement, a failed COMMIT, a failed Redis call or a crash ends *)
(* the request where it is; the database rolls back what is not committed. *)

Abandon(r) ==
    /\ Failures
    /\ req[r] # Idle
    /\ Goto(r, Idle)
    /\ UNCHANGED <<account, ledger, cache>>

-----------------------------------------------------------------------------

Begin(r, u) ==
    \/ /\ "deduct" \in Operations
       /\ \E amount \in Amounts, type \in DeductTypes, reason \in Reasons :
             BeginDeduct(r, u, amount, type, reason)
    \/ /\ "adjust" \in Operations
       /\ \E amount \in Amounts, type \in AdjustTypes, reason \in Reasons :
             BeginAdjust(r, u, amount, type, reason)
    \/ /\ "update" \in Operations
       /\ \E newLimit \in Limits, newActive \in BOOLEAN :
             BeginUpdate(r, u, newLimit, newActive)
    \/ "delete" \in Operations /\ BeginDelete(r, u)
    \/ "find" \in Operations /\ BeginFind(r, u)

Continue(r) ==
    \/ DeductWrite(r)
    \/ AdjustWrite(r)
    \/ UpdateWrite(r)
    \/ Invalidate(r)
    \/ PurgeRows(r)
    \/ DropUser(r)
    \/ ReadFound(r)
    \/ FillCache(r)

WalletNext ==
    \/ \E r \in Requests :
          \/ \E u \in Users : Begin(r, u)
          \/ Continue(r)
          \/ Abandon(r)
    \/ \E u \in Users : CacheExpire(u)

WalletSpec == WalletInit /\ [][WalletNext]_walletVars

-----------------------------------------------------------------------------
(* Properties.                                                             *)

\* Every variable stays in its set: in particular no request goes on with,
\* and no cache entry is made of, a user the query did not find
\* (user_service.go:58-63, 145-147).
TypeOK ==
    /\ account \in [Users -> Row \union {NoUser}]
    /\ ledger \in [Users -> Seq(Entry)]
    /\ cache \in [Users -> Row \union {NoUser}]
    /\ req \in [Requests -> Request]

\* The copy of a row agrees with the row, or is recognisably older.
NotAhead(copy, row) ==
    row # NoUser => /\ copy.version =< row.version
                    /\ copy.version = row.version => copy = row

\* Whatever an operation read, the version tells whether it is still the
\* row: equal versions mean equal rows.  This is what makes the version
\* check of user_service.go:84 enough, and it relates every request in
\* flight to every write since its read.
SnapshotsTellTheirAge ==
    \A r \in Requests :
       req[r].step \in {"deduct", "adjust", "update", "fill"} =>
          NotAhead(req[r].snap, account[req[r].user])

\* A cached user may be stale and is never wrong about its version: a cached
\* copy with the version of the row is the row, so a reader that compares
\* versions can trust it (user_service.go:127-153).
CacheTellsItsAge ==
    \A u \in Users : cache[u] # NoUser => NotAhead(cache[u], account[u])

\* A debit in flight was covered by the row it read.
FundsSeen ==
    \A r \in Requests :
       req[r].step = "deduct" => SufficientFunds(req[r].snap, req[r].amount)

\* Rows join up: each starts where the one before it ended, the first from
\* zero, and each amount is the difference.
Joined(rows) ==
    \A i \in 1..Len(rows) :
       /\ rows[i].before = IF i = 1 THEN 0 ELSE rows[i-1].after
       /\ rows[i].after = rows[i].before + rows[i].amount

EndOf(rows) == IF rows = <<>> THEN 0 ELSE rows[Len(rows)].after

\* The transactions of a user account for the balance to the last unit,
\* whatever operations overlapped: no update is lost, and no row is written
\* without its balance or the other way round (user_service.go:72-117,
\* 304-375).
LedgerComplete ==
    \A u \in Users :
       account[u] # NoUser => /\ Joined(ledger[u])
                              /\ EndOf(ledger[u]) = account[u].balance

\* What a transaction says was consumed: a debit counts, a refund counts back.
Consumption(e) == IF e.amount < 0 \/ e.type = "user_refund" THEN -e.amount ELSE 0

ConsumedBy(rows) ==
    LET total[i \in 0..Len(rows)] ==
            IF i = 0 THEN 0 ELSE total[i-1] + Consumption(rows[i])
    IN  total[Len(rows)]

\* total_consumed is what the transactions of the user add up to, although
\* debits, refunds, credits and updates of the user overlap
\* (user_service.go:74, 318-321).
ConsumedAgrees ==
    \A u \in Users :
       account[u] # NoUser => account[u].consumed = ConsumedBy(ledger[u])

\* The inductive invariant behind the safety properties.
WalletInv ==
    /\ TypeOK
    /\ SnapshotsTellTheirAge
    /\ CacheTellsItsAge
    /\ FundsSeen
    /\ LedgerComplete

\* A step that takes money from an account leaves it within its balance and
\* credit, although the funds were checked against a row read earlier
\* (user_service.go:65-69).
NoOverdraft ==
    [][\A u \in Users :
          account[u] # NoUser /\ account'[u] # NoUser /\
          account'[u].balance < account[u].balance =>
             account'[u].balance + account'[u].credit >= 0]_walletVars

-----------------------------------------------------------------------------
(* The abstract ledger this module implements.                             *)

Ledger == INSTANCE AccountLedger WITH
    Reasons   <- RowReasons,
    open      <- [u \in Users |-> account[u] # NoUser],
    limit     <- [u \in Users |-> IF account[u] = NoUser THEN 0
                                  ELSE account[u].credit],
    statement <- [u \in Users |-> IF account[u] = NoUser THEN <<>>
                                  ELSE ledger[u]]

\* To its callers every balance operation is one atomic step of the
\* abstract ledger, and the funds a debit needs are there at that step.
ImplementsLedger == Ledger!Spec

=============================================================================
