------------------------------- MODULE Orders -------------------------------
(***************************************************************************)
(* internal/services/order_service.go and the order half of                *)
(* payment_service.go, over the wallet of the users they top up: orders    *)
(* are created by users and administrators, completed by the payment       *)
(* gateway's callback and by administrators, and cancelled by              *)
(* administrators, all at the same time as the operations of Wallet.       *)
(*                                                                         *)
(* CompleteOrder is one database transaction.  It takes the lock of a row  *)
(* when it saves the row and keeps it to the commit; what it has saved is  *)
(* not seen by others before that.  The code asks for both rows to be      *)
(* locked when they are read (FOR UPDATE), through a setting of GORM v1,   *)
(* "gorm:query_option".  GORM v2, which go.mod pins, does not look at it:  *)
(* no read waits for a lock, and none takes one.                           *)
(***************************************************************************)
EXTENDS Wallet, FiniteSets

CONSTANTS
    Jobs,         \* the goroutines that run an operation on an order
    NoOrder       \* no such row

OrderTypes == {"payment", "manual"}

\* external tells whether the gateway's transaction id is stored.
OrderRow == [status : {"pending", "paid", "cancelled"}, user : Users,
             amount : Amounts, type : OrderTypes, external : BOOLEAN]

ASSUME NoOrderAssumption == NoOrder \notin OrderRow

VARIABLES
    order,        \* order[o]: the committed row of order o, or NoOrder
    job,          \* job[j]: where goroutine j is, and what it holds in memory
    overwritten   \* users whose row was saved over by a top-up that had read
                  \* it before another write; it only records what happened

orderVars == <<order, job, overwritten>>
vars == <<walletVars, orderVars>>

\* row is the order as it was read; snap is the user as it was read.
Job ==
    {Idle}
    \union [step : {"read_order", "cancel"}, order : OrderIds]
    \union [step : {"save_order", "read_user"}, order : OrderIds, row : OrderRow]
    \union [step : {"save_user", "commit"}, order : OrderIds, row : OrderRow, snap : Row]

Init ==
    /\ WalletInit
    /\ order = [o \in OrderIds |-> NoOrder]
    /\ job = [j \in Jobs |-> Idle]
    /\ overwritten = {}

JobTo(j, state) == job' = [job EXCEPT ![j] = state]

-----------------------------------------------------------------------------
(* Row locks.                                                              *)

\* Between its UPDATE of the order and its COMMIT a job has the order's row
\* locked.
HoldsOrder(j, o) ==
    /\ job[j].step \in {"read_user", "save_user", "commit"}
    /\ job[j].order = o

OrderFree(j, o) == \A other \in Jobs \ {j} : ~ HoldsOrder(other, o)

\* A plausible slip: the user is read FOR SHARE, and two jobs may do so.
HoldsUserShared(j, u) ==
    /\ job[j].step \in {"save_user", "commit"}
    /\ job[j].row.user = u

HoldsUser(j, u) ==
    /\ job[j].step = "commit"
    /\ job[j].row.user = u

UserFree(j, u) == \A other \in Jobs \ {j} : ~ HoldsUser(other, u)

-----------------------------------------------------------------------------
(* CreatePaymentOrder and CreateManualOrder: the row is inserted, and no   *)
(* one checks that the user exists.                                        *)

CreateOrder(o, u, amount, type) ==
    /\ order[o] = NoOrder
    /\ order' = [order EXCEPT ![o] = [status |-> "pending", user |-> u,
                    amount |-> amount, type |-> type, external |-> FALSE]]
    /\ UNCHANGED <<walletVars, job, overwritten>>

-----------------------------------------------------------------------------
(* CompleteOrder.                                                          *)

\* The order is read, and a pending one is gone on with.
ReadPending(j, o) ==
    /\ order[o] # NoOrder
    /\ order[o].status = "pending"
    /\ JobTo(j, [step |-> "save_order", order |-> o, row |-> order[o]])
    /\ UNCHANGED <<walletVars, order, overwritten>>

\* ErrOrderAlreadyPaid, ErrOrderCancelled.
ReadRefused(j, o) ==
    /\ order[o].status # "pending"
    /\ JobTo(j, Idle)
    /\ UNCHANGED <<walletVars, order, overwritten>>

\* The administrator's request starts with the read; a refusal changes nothing.
AdminComplete(j, o) ==
    /\ job[j] = Idle
    /\ ReadPending(j, o)

\* The gateway's callback comes for payment orders, any number of times.
\* HandlePaymentNotify stores the external id in a transaction of its own,
\* whatever the status, drops the error of that, and completes the order.
Notify(j, o) ==
    /\ job[j] = Idle
    /\ order[o] # NoOrder
    /\ order[o].type = "payment"
    /\ \/ /\ OrderFree(j, o)
          /\ order' = [order EXCEPT ![o].external = TRUE]
       \/ Failures /\ UNCHANGED order
    /\ JobTo(j, [step |-> "read_order", order |-> o])
    /\ UNCHANGED <<walletVars, overwritten>>

NotifyComplete(j) ==
    /\ job[j].step = "read_order"
    /\ ReadPending(j, job[j].order) \/ ReadRefused(j, job[j].order)

\* A plausible slip: the order is saved before the transaction begins.
SaveOrderAtOnce(j) ==
    /\ job[j].step = "save_order"
    /\ OrderFree(j, job[j].order)
    /\ order' = [order EXCEPT ![job[j].order] = [job[j].row EXCEPT !.status = "paid"]]
    /\ JobTo(j, [job[j] EXCEPT !.step = "read_user"])
    /\ UNCHANGED <<walletVars, overwritten>>

\* tx.Save(&order): the UPDATE waits for the row's lock.  Nothing is seen of
\* it before the COMMIT, and the status is not looked at again.
SaveOrder(j) ==
    /\ job[j].step = "save_order"
    /\ OrderFree(j, job[j].order)
    /\ JobTo(j, [job[j] EXCEPT !.step = "read_user"])
    /\ UNCHANGED <<walletVars, order, overwritten>>

\* Without the user the transaction is rolled back, order and all.
ReadUser(j) ==
    LET u == job[j].row.user IN
    /\ job[j].step = "read_user"
    /\ JobTo(j, IF account[u] = NoUser THEN Idle
                ELSE [step |-> "save_user", order |-> job[j].order,
                      row |-> job[j].row, snap |-> account[u]])
    /\ UNCHANGED <<walletVars, order, overwritten>>

\* tx.Save(&user): the UPDATE waits for the row's lock and takes it.
SaveUser(j) ==
    /\ job[j].step = "save_user"
    /\ UserFree(j, job[j].row.user)
    /\ JobTo(j, [job[j] EXCEPT !.step = "commit"])
    /\ UNCHANGED <<walletVars, order, overwritten>>

\* A plausible slip: the order's type is written where the transaction's goes.
TopupTypeCopied(type) == type

TopupType(type) == IF type = "manual" THEN "manual_topup" ELSE "user_topup"

\* A plausible slip: the version is left to those who check it.
ToppedUpSameVersion(snap, amount) == [snap EXCEPT !.balance = @ + amount]

\* Save writes every column of the user as read.
ToppedUp(snap, amount) ==
    [snap EXCEPT !.balance = @ + amount, !.version = @ + 1]

\* What the COMMIT shows: the order as read, paid; the user; the transaction.
Credited(j) ==
    LET row == job[j].row
        snap == job[j].snap
        u == row.user IN
    /\ account' = [account EXCEPT ![u] = ToppedUp(snap, row.amount)]
    /\ ledger' = [ledger EXCEPT ![u] = Append(@,
          RowOf(row.amount, snap.balance, TopupType(row.type), job[j].order))]
    /\ order' = [order EXCEPT ![job[j].order] = [row EXCEPT !.status = "paid"]]
    /\ overwritten' = IF snap = account[u] THEN overwritten
                                           ELSE overwritten \union {u}
    /\ UNCHANGED <<cache, req>>

\* A plausible slip: the status is set once more at the end, by another
\* connection, which waits for this transaction.
CommitOutside(j) ==
    /\ job[j].step = "commit"
    /\ \A other \in Jobs : ~ HoldsOrder(other, job[j].order)
    /\ Credited(j)
    /\ JobTo(j, Idle)

\* The transaction row is inserted, and the COMMIT.  The user was saved
\* whatever the version is by now, and inserted if the row was gone; the
\* cached user is left as it is.
Commit(j) ==
    /\ job[j].step = "commit"
    /\ Credited(j)
    /\ JobTo(j, Idle)

-----------------------------------------------------------------------------
(* CancelOrder: a read and a separate UPDATE of the status by id.          *)

CancelRead(j, o) ==
    /\ job[j] = Idle
    /\ order[o] # NoOrder
    /\ order[o].status = "pending"
    /\ JobTo(j, [step |-> "cancel", order |-> o])
    /\ UNCHANGED <<walletVars, order, overwritten>>

CancelWrite(j) ==
    LET o == job[j].order IN
    /\ job[j].step = "cancel"
    /\ OrderFree(j, o)
    /\ order' = [order EXCEPT ![o].status = "cancelled"]
    /\ JobTo(j, Idle)
    /\ UNCHANGED <<walletVars, overwritten>>

\* A failed statement or a crash: what is not committed is rolled back.
AbandonJob(j) ==
    /\ Failures
    /\ job[j] # Idle
    /\ JobTo(j, Idle)
    /\ UNCHANGED <<walletVars, order, overwritten>>

-----------------------------------------------------------------------------

\* The operations of Wallet go on; one that writes a locked user waits.
WalletStep ==
    /\ WalletNext
    /\ \A u \in Users :
          (\E j \in Jobs : HoldsUser(j, u)) => account'[u] = account[u]
    /\ UNCHANGED orderVars

ContinueJob(j) ==
    \/ NotifyComplete(j)
    \/ SaveOrder(j)
    \/ ReadUser(j)
    \/ SaveUser(j)
    \/ Commit(j)
    \/ CancelWrite(j)

Next ==
    \/ WalletStep
    \/ \E o \in OrderIds, u \in Users, amount \in Amounts, type \in OrderTypes :
          CreateOrder(o, u, amount, type)
    \/ \E j \in Jobs :
          \/ \E o \in OrderIds :
                \/ AdminComplete(j, o)
                \/ Notify(j, o)
                \/ CancelRead(j, o)
          \/ ContinueJob(j)
          \/ AbandonJob(j)

Spec == Init /\ [][Next]_vars

\* Every goroutine is run again, and the database grants a row lock to the
\* waiters in their order, so that none waits for it for ever.
FairSpec ==
    /\ Spec
    /\ \A j \in Jobs : SF_vars(ContinueJob(j))

-----------------------------------------------------------------------------
(* Properties.                                                             *)

\* Every variable stays in its set: a completion goes on only with an order
\* and a user the queries found, and writes no transaction of another type
\* (order_service.go:82-94, 107-110, 121-129).
OrdersTypeOK ==
    /\ TypeOK
    /\ order \in [OrderIds -> OrderRow \union {NoOrder}]
    /\ job \in [Jobs -> Job]
    /\ overwritten \subseteq Users

\* The top-ups of an order in the ledger of its user.
CreditsOf(o) ==
    LET rows == ledger[order[o].user] IN
    {i \in DOMAIN rows : rows[i].type \in TopupTypes /\ rows[i].reason = o}

\* A pending order has not been credited and a paid one has: the status, the
\* balance and the transaction row are committed together, whatever fails
\* and whoever else completes or cancels the order
\* (order_service.go:77-157).  A user who is deleted takes the rows along.
CreditMatchesStatus ==
    \A o \in OrderIds : order[o] # NoOrder /\ account[order[o].user] # NoUser =>
       /\ order[o].status = "pending" => CreditsOf(o) = {}
       /\ order[o].status = "paid" => CreditsOf(o) # {}

\* An order is credited once, although the gateway repeats its callback and
\* an administrator completes the order too: completion is announced as
\* locking the order it checks, "1. 加锁查询订单" (order_service.go:79).
CreditedOnce ==
    \A o \in OrderIds : order[o] # NoOrder => Cardinality(CreditsOf(o)) =< 1

\* A top-up checks no version and saves the user as read, and still no write
\* of the user is lost, by it or by the others, unless it commits after another
\* write it has not seen: for all other users balance and total_consumed are
\* what their transactions add up to, because the top-up advances the version
\* that debits, refunds and updates in flight check (order_service.go:107-118,
\* user_service.go:76-90).
LostOnlyByOverwriting ==
    \A u \in Users \ overwritten : account[u] # NoUser =>
       /\ Joined(ledger[u])
       /\ EndOf(ledger[u]) = account[u].balance
       /\ ConsumedBy(ledger[u]) = account[u].consumed

\* Job k has locked the row that the next statement of job j needs.
WaitsFor(j, k) ==
    /\ j # k
    /\ \/ job[j].step \in {"save_order", "cancel"} /\ HoldsOrder(k, job[j].order)
       \/ job[j].step = "save_user" /\ HoldsUser(k, job[j].row.user)

\* Jobs do not wait for each other in a circle: who is waited for by one who
\* is waited for goes on, since every completion locks the order before the
\* user, both by an UPDATE, and a cancellation only one of them
\* (order_service.go:77-119, 163-177).
WaitsEnd ==
    \A i, j, k \in Jobs :
       WaitsFor(i, j) /\ WaitsFor(j, k) => \A l \in Jobs : ~ WaitsFor(k, l)

\* Nobody waits for a row lock for ever: every operation on an order ends.
EveryJobEnds == \A j \in Jobs : job[j] # Idle ~> job[j] = Idle

=============================================================================
