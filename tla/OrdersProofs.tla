---------------------------- MODULE OrdersProofs ----------------------------
(***************************************************************************)
(* Proofs about Orders and about Payments, which is made of its steps, for *)
(* any users, orders, methods, amounts and goroutines.                     *)
(***************************************************************************)
EXTENDS Payments, WalletProofs

-----------------------------------------------------------------------------
(* Types.                                                                  *)

\* What a job holds at each of its steps.
LEMMA JobShape ==
    ASSUME NEW q \in Job
    PROVE  /\ q.step # "idle" => q.order \in OrderIds
           /\ q.step \in {"save_order", "read_user", "save_user", "commit"} =>
                 q.row \in OrderRow
           /\ q.step \in {"save_user", "commit"} => q.snap \in Row
BY DEF Job, Idle

\* A job works with an order that is there.
JobOrders == \A j \in Jobs : job[j].step # "idle" => order[job[j].order] # NoOrder

\* The tables are as they should be, and no order is lost: a job that moves
\* with an order that is there keeps the types.
LEMMA JobMoves ==
    ASSUME OrdersTypeOK, JobOrders, NEW j \in Jobs, NEW state \in Job, JobTo(j, state),
           TypeOK', order' \in [OrderIds -> OrderRow \union {NoOrder}],
           overwritten' \subseteq Users,
           \A o \in OrderIds : order[o] # NoOrder => order'[o] # NoOrder,
           state.step # "idle" => order'[state.order] # NoOrder
    PROVE  OrdersTypeOK' /\ JobOrders'
<1>1. job' \in [Jobs -> Job]
  BY DEF OrdersTypeOK, JobTo
<1>2. ASSUME NEW k \in Jobs, job'[k].step # "idle"
      PROVE  order'[job'[k].order] # NoOrder
  <2>1. CASE k = j
    BY <1>2, <2>1 DEF OrdersTypeOK, JobTo
  <2>2. CASE k # j
    <3>1. job'[k] = job[k] /\ job[k] \in Job
      BY <2>2 DEF OrdersTypeOK, JobTo
    <3>2. job[k].order \in OrderIds
      BY <1>2, <3>1, JobShape
    <3> QED BY <1>2, <3>1, <3>2 DEF JobOrders
  <2> QED BY <2>1, <2>2
<1> QED BY <1>1, <1>2 DEF OrdersTypeOK, JobOrders

\* A job that completes nothing is a job.
LEMMA IdleIsAJob == Idle \in Job /\ Idle.step = "idle"
BY DEF Job, Idle

\* The tables of Wallet keep their types when they stay.
LEMMA SameWalletTypes ==
    ASSUME OrdersTypeOK, UNCHANGED <<walletVars, overwritten>>
    PROVE  TypeOK' /\ overwritten' \subseteq Users
BY WalletStepTypes DEF OrdersTypeOK

\* The reads of a completion or cancellation keep the types.
LEMMA ReadTypes ==
    ASSUME OrdersTypeOK, JobOrders, NEW j \in Jobs, NEW o \in OrderIds,
           ReadPending(j, o) \/ ReadRefused(j, o) \/ CancelRead(j, o)
    PROVE  OrdersTypeOK' /\ JobOrders'
<1> DEFINE reading == [step |-> "save_order", order |-> o, row |-> order[o]]
           cancelling == [step |-> "cancel", order |-> o]
<1>1. UNCHANGED <<walletVars, order, overwritten>>
  BY DEF ReadPending, ReadRefused, CancelRead
<1>2. /\ TypeOK' /\ overwritten' \subseteq Users
      /\ order' = order /\ order \in [OrderIds -> OrderRow \union {NoOrder}]
  BY <1>1, SameWalletTypes DEF OrdersTypeOK
<1>3. CASE ReadPending(j, o)
  <2>1. reading \in Job /\ order[o] # NoOrder /\ JobTo(j, reading)
    BY <1>3 DEF ReadPending, Job, OrdersTypeOK
  <2> QED BY <1>2, <2>1, JobMoves
<1>4. CASE ReadRefused(j, o)
  BY <1>2, <1>4, IdleIsAJob, JobMoves DEF ReadRefused
<1>5. CASE CancelRead(j, o)
  <2>1. cancelling \in Job /\ order[o] # NoOrder /\ JobTo(j, cancelling)
    BY <1>5 DEF CancelRead, Job
  <2> QED BY <1>2, <2>1, JobMoves
<1> QED BY <1>3, <1>4, <1>5

\* The commit of a completion keeps the types.
LEMMA CommitTypes ==
    ASSUME OrdersTypeOK, JobOrders, NEW j \in Jobs, Commit(j)
    PROVE  OrdersTypeOK' /\ JobOrders'
<1> DEFINE row == job[j].row
           snap == job[j].snap
           u == row.user
           o == job[j].order
           newRow == ToppedUp(snap, row.amount)
           entry == RowOf(row.amount, snap.balance, TopupType(row.type), o)
           saved == [row EXCEPT !.status = "paid"]
<1>1. /\ row \in OrderRow /\ snap \in Row /\ o \in OrderIds
      /\ u \in Users /\ row.amount \in Nat
  BY JobShape, AmountsAssumption DEF Commit, OrdersTypeOK, OrderRow
<1>2. newRow \in Row
  <2>1. snap.balance + row.amount \in Int /\ snap.version + 1 \in Nat \ {0}
    BY <1>1 DEF Row
  <2> QED BY <1>1, <2>1 DEF ToppedUp, Row
<1>3. entry \in Entry
  <2>1. snap.balance \in Int /\ snap.balance + row.amount \in Int
    BY <1>1 DEF Row
  <2> QED BY <1>1, <2>1
          DEF RowOf, Entry, TopupType, Types, TopupTypes, RowReasons
<1>4. saved \in OrderRow /\ saved # NoOrder
  BY <1>1, NoOrderAssumption DEF OrderRow
<1>5. /\ account' = [account EXCEPT ![u] = newRow]
      /\ ledger' = [ledger EXCEPT ![u] = Append(@, entry)]
      /\ order' = [order EXCEPT ![o] = saved]
      /\ overwritten' \in {overwritten, overwritten \union {u}}
      /\ JobTo(j, Idle) /\ UNCHANGED <<cache, req>>
  BY DEF Commit, Credited
<1> HIDE DEF newRow, entry, saved, u, o
<1>6. TypeOK' /\ overwritten' \subseteq Users
  BY <1>1, <1>2, <1>3, <1>5 DEF OrdersTypeOK, TypeOK
<1>7. /\ order' \in [OrderIds -> OrderRow \union {NoOrder}]
      /\ \A p \in OrderIds : order[p] # NoOrder => order'[p] # NoOrder
  BY <1>1, <1>4, <1>5 DEF OrdersTypeOK
<1> QED BY <1>5, <1>6, <1>7, IdleIsAJob, JobMoves

\* Every later step of a job keeps the types.
LEMMA JobTypes ==
    ASSUME OrdersTypeOK, JobOrders, NEW j \in Jobs, ContinueJob(j) \/ AbandonJob(j)
    PROVE  OrdersTypeOK' /\ JobOrders'
<1>q. job[j] \in Job /\ order \in [OrderIds -> OrderRow \union {NoOrder}]
  BY DEF OrdersTypeOK
<1>n. job[j].step # "idle" => job[j].order \in OrderIds /\ order[job[j].order] # NoOrder
  BY <1>q, JobShape DEF JobOrders
<1>1. CASE NotifyComplete(j)
  BY <1>n, <1>1, ReadTypes DEF NotifyComplete
<1>2. CASE SaveOrder(j)
  <2>1. [job[j] EXCEPT !.step = "read_user"] \in Job
    BY <1>q, <1>2 DEF SaveOrder, Job, Idle
  <2>2. [job[j] EXCEPT !.step = "read_user"].order = job[j].order
    BY <1>q, <1>2 DEF SaveOrder, Job, Idle
  <2>3. TypeOK' /\ overwritten' \subseteq Users /\ order' = order
    BY <1>2, SameWalletTypes DEF SaveOrder
  <2> QED BY <1>q, <1>n, <1>2, <2>1, <2>2, <2>3, JobMoves DEF SaveOrder
<1>3. CASE ReadUser(j)
  <2> DEFINE next == [step |-> "save_user", order |-> job[j].order,
                      row |-> job[j].row, snap |-> account[job[j].row.user]]
  <2>1. TypeOK' /\ overwritten' \subseteq Users /\ order' = order
    BY <1>3, SameWalletTypes DEF ReadUser
  <2>2. job[j].row \in OrderRow
    BY <1>q, <1>3, JobShape DEF ReadUser
  <2>3. ASSUME account[job[j].row.user] # NoUser PROVE next \in Job
    <3>1. account[job[j].row.user] \in Row
      BY <2>2, <2>3 DEF OrdersTypeOK, TypeOK, OrderRow
    <3> QED BY <1>n, <1>3, <2>2, <3>1 DEF ReadUser, Job
  <2>4. CASE JobTo(j, Idle)
    BY <1>q, <2>1, <2>4, IdleIsAJob, JobMoves
  <2>5. CASE account[job[j].row.user] # NoUser /\ JobTo(j, next)
    BY <1>q, <1>n, <1>3, <2>1, <2>3, <2>5, JobMoves DEF ReadUser
  <2> QED BY <1>3, <2>4, <2>5 DEF ReadUser
<1>4. CASE SaveUser(j)
  <2>1. [job[j] EXCEPT !.step = "commit"] \in Job
    BY <1>q, <1>4 DEF SaveUser, Job, Idle
  <2>2. [job[j] EXCEPT !.step = "commit"].order = job[j].order
    BY <1>q, <1>4 DEF SaveUser, Job, Idle
  <2>3. TypeOK' /\ overwritten' \subseteq Users /\ order' = order
    BY <1>4, SameWalletTypes DEF SaveUser
  <2> QED BY <1>q, <1>n, <1>4, <2>1, <2>2, <2>3, JobMoves DEF SaveUser
<1>5. CASE CancelWrite(j)
  <2> DEFINE o == job[j].order
  <2>1. o \in OrderIds /\ order[o] \in OrderRow
    BY <1>q, <1>n, <1>5 DEF CancelWrite
  <2>2. [order[o] EXCEPT !.status = "cancelled"] \in OrderRow
    BY <2>1 DEF OrderRow
  <2>3. order' = [order EXCEPT ![o] = [order[o] EXCEPT !.status = "cancelled"]]
    BY <1>5 DEF CancelWrite
  <2>4. /\ order' \in [OrderIds -> OrderRow \union {NoOrder}]
        /\ \A p \in OrderIds : order[p] # NoOrder => order'[p] # NoOrder
    BY <1>q, <2>1, <2>2, <2>3, NoOrderAssumption
  <2>5. TypeOK' /\ overwritten' \subseteq Users /\ JobTo(j, Idle)
    BY <1>5, SameWalletTypes DEF CancelWrite
  <2> QED BY <2>4, <2>5, IdleIsAJob, JobMoves
<1>6. CASE AbandonJob(j)
  BY <1>q, <1>6, SameWalletTypes, IdleIsAJob, JobMoves DEF AbandonJob
<1>7. CASE Commit(j)
  BY <1>7, CommitTypes
<1> QED BY <1>1, <1>2, <1>3, <1>4, <1>5, <1>6, <1>7 DEF ContinueJob

\* Every step of Orders keeps the types and the orders of jobs.
LEMMA OrderStepTypes ==
    ASSUME OrdersTypeOK, JobOrders, [Next]_vars
    PROVE  OrdersTypeOK' /\ JobOrders'
<1>1. CASE UNCHANGED vars
  BY <1>1, SameWalletTypes DEF vars, orderVars, OrdersTypeOK, JobOrders
<1>2. CASE WalletStep
  BY <1>2, WalletStepTypes DEF WalletStep, orderVars, OrdersTypeOK, JobOrders
<1>3. ASSUME NEW o \in OrderIds, NEW u \in Users, NEW amount \in Amounts,
             NEW type \in OrderTypes, CreateOrder(o, u, amount, type)
      PROVE  OrdersTypeOK' /\ JobOrders'
  <2> DEFINE row == [status |-> "pending", user |-> u, amount |-> amount,
                     type |-> type, external |-> FALSE]
  <2>0. row \in OrderRow
    BY DEF OrderRow
  <2>1. row # NoOrder
    BY <2>0, NoOrderAssumption
  <2>2. order' = [order EXCEPT ![o] = row] /\ UNCHANGED <<walletVars, job, overwritten>>
    BY <1>3 DEF CreateOrder
  <2> HIDE DEF row
  <2>3. TypeOK' /\ overwritten' \subseteq Users
    BY <2>2, SameWalletTypes
  <2> QED BY <2>0, <2>1, <2>2, <2>3 DEF OrdersTypeOK, JobOrders
<1>4. ASSUME NEW j \in Jobs, NEW o \in OrderIds, AdminComplete(j, o) \/ CancelRead(j, o)
      PROVE  OrdersTypeOK' /\ JobOrders'
  BY <1>4, ReadTypes DEF AdminComplete
<1>5. ASSUME NEW j \in Jobs, NEW o \in OrderIds, Notify(j, o)
      PROVE  OrdersTypeOK' /\ JobOrders'
  <2> DEFINE next == [step |-> "read_order", order |-> o]
             noted == [order[o] EXCEPT !.external = TRUE]
  <2>1. next \in Job
    BY DEF Job
  <2>2. noted \in OrderRow /\ noted # NoOrder
    BY <1>5, NoOrderAssumption DEF Notify, OrdersTypeOK, OrderRow
  <2>3. /\ order' \in {order, [order EXCEPT ![o] = noted]} /\ JobTo(j, next)
        /\ TypeOK' /\ overwritten' \subseteq Users
    BY <1>5, SameWalletTypes DEF Notify
  <2>4. next.order = o
    OBVIOUS
  <2> HIDE DEF next, noted
  <2>5. /\ order' \in [OrderIds -> OrderRow \union {NoOrder}]
        /\ \A p \in OrderIds : order[p] # NoOrder => order'[p] # NoOrder
        /\ order'[o] # NoOrder
    BY <1>5, <2>2, <2>3 DEF Notify, OrdersTypeOK
  <2> QED BY <2>1, <2>3, <2>4, <2>5, JobMoves
<1>6. ASSUME NEW j \in Jobs, ContinueJob(j) \/ AbandonJob(j)
      PROVE  OrdersTypeOK' /\ JobOrders'
  BY <1>6, JobTypes
<1> QED BY <1>1, <1>2, <1>3, <1>4, <1>5, <1>6 DEF Next

\* No job works with an order that is not there.
LEMMA OrdersTypesKept == Spec => [](OrdersTypeOK /\ JobOrders)
<1>1. Init => OrdersTypeOK /\ JobOrders
  BY IdleIsAJob
     DEF Init, WalletInit, OrdersTypeOK, JobOrders, TypeOK, NewRow, Row, Request
<1>2. OrdersTypeOK /\ JobOrders /\ [Next]_vars => OrdersTypeOK' /\ JobOrders'
  BY OrderStepTypes
<1> QED BY <1>1, <1>2, PTL DEF Spec

\* Every variable of Orders stays in its set: a completion goes on only with
\* an order and a user the queries found (order_service.go:82-94, 107-110).
THEOREM OrdersTypes == Spec => []OrdersTypeOK
BY OrdersTypesKept, PTL

-----------------------------------------------------------------------------
(* Nobody waits in a circle.                                               *)

\* What another job holds stays as it has read it.
LEMMA OthersStay ==
    ASSUME OrdersTypeOK, NEW j \in Jobs, NEW state, JobTo(j, state)
    PROVE  job'[j] = state /\ \A k \in Jobs : k # j => job'[k] = job[k]
BY DEF OrdersTypeOK, JobTo

\* Who waits for nobody finds the rows free that the guards ask for, and the
\* other way round.
LEMMA WaitsAreTheGuards ==
    ASSUME NEW j \in Jobs
    PROVE  (\A k \in Jobs : ~ WaitsFor(j, k)) <=>
              /\ job[j].step \in {"save_order", "cancel"} => OrderFree(j, job[j].order)
              /\ job[j].step = "save_user" => UserFree(j, job[j].row.user)
BY DEF WaitsFor, OrderFree, UserFree

\* Who has locked a user waits for nobody.
LEMMA UserHolderGoesOn ==
    ASSUME NEW k \in Jobs, NEW u, HoldsUser(k, u), NEW l \in Jobs
    PROVE  ~ WaitsFor(k, l)
BY DEF HoldsUser, WaitsFor

\* Who has locked an order waits at most for one who has locked a user.
LEMMA OrderHolderWaits ==
    ASSUME NEW k \in Jobs, NEW o, HoldsOrder(k, o), NEW l \in Jobs, WaitsFor(k, l)
    PROVE  \E u : HoldsUser(l, u)
BY DEF HoldsOrder, WaitsFor

\* No job waits for itself by way of others, and no chain of waits is longer
\* than two, because the locks are taken in one order
\* (order_service.go:77-119).
THEOREM OrdersWaitsEnd == Spec => []WaitsEnd
<1>1. WaitsEnd
  <2> SUFFICES ASSUME NEW i \in Jobs, NEW j \in Jobs, NEW k \in Jobs,
                      WaitsFor(i, j), WaitsFor(j, k), NEW l \in Jobs, WaitsFor(k, l)
               PROVE  FALSE
    BY DEF WaitsEnd
  <2>1. CASE \E u : HoldsUser(j, u)
    BY <2>1, UserHolderGoesOn
  <2>2. CASE \E o : HoldsOrder(j, o)
    <3>1. \E u : HoldsUser(k, u)
      BY <2>2, OrderHolderWaits
    <3> QED BY <3>1, UserHolderGoesOn
  <2> QED BY <2>1, <2>2 DEF WaitsFor
<1> QED BY <1>1, PTL

-----------------------------------------------------------------------------
(* Credits.                                                                *)

\* The top-ups of order o among the transactions of a user.
Topups(rows, o) ==
    {i \in DOMAIN rows : rows[i].type \in TopupTypes /\ rows[i].reason = o}

LEMMA CreditsAreTopups ==
    ASSUME NEW o PROVE CreditsOf(o) = Topups(ledger[order[o].user], o)
BY DEF CreditsOf, Topups

\* Other transactions of the user add no top-up.
LEMMA OtherRows ==
    ASSUME NEW rows \in Seq(Entry), NEW o, NEW e \in Entry, e.type \notin TopupTypes
    PROVE  Topups(rows \o <<e>>, o) = Topups(rows, o)
<1>1. /\ rows \o <<e>> \in Seq(Entry) /\ DOMAIN rows = 1..Len(rows)
      /\ DOMAIN (rows \o <<e>>) = 1..(Len(rows) + 1)
      /\ (rows \o <<e>>)[Len(rows) + 1] = e
      /\ \A i \in 1..Len(rows) : (rows \o <<e>>)[i] = rows[i]
  OBVIOUS
<1>2. Len(rows) \in Nat
  OBVIOUS
<1> QED BY <1>1, <1>2 DEF Topups

\* A top-up of o adds itself.
LEMMA TopupRow ==
    ASSUME NEW rows \in Seq(Entry), NEW o, NEW e \in Entry, e.type \in TopupTypes
    PROVE  Topups(Append(rows, e), o) =
              Topups(rows, o) \union (IF e.reason = o THEN {Len(rows) + 1} ELSE {})
<1>1. /\ Append(rows, e) \in Seq(Entry) /\ DOMAIN rows = 1..Len(rows)
      /\ DOMAIN Append(rows, e) = 1..(Len(rows) + 1)
      /\ Append(rows, e)[Len(rows) + 1] = e
      /\ \A i \in 1..Len(rows) : Append(rows, e)[i] = rows[i]
  OBVIOUS
<1>2. Len(rows) \in Nat
  OBVIOUS
<1> QED BY <1>1, <1>2 DEF Topups

\* An operation of the wallet keeps the credits of o, unless it deletes a user.
CreditsKept(u, o) ==
    \/ Topups(ledger'[u], o) = Topups(ledger[u], o)
    \/ \E r \in Requests : req[r].step = "drop"

\* The write of an operation of Wallet adds no top-up.
LEMMA WriteKeepsCredits ==
    ASSUME TypeOK, NEW r \in Requests, req[r].user \in Users, NEW newRow,
           NEW entries, VersionedWrite(r, newRow, entries),
           entries = <<>> \/ \E e \in Entry : entries = <<e>> /\ e.type \notin TopupTypes,
           NEW u \in Users, NEW o
    PROVE  CreditsKept(u, o)
<1>1. ledger[u] \in Seq(Entry)
  BY DEF TypeOK
<1>2. CASE UNCHANGED <<account, ledger>>
  BY <1>2 DEF CreditsKept
<1>3. CASE /\ RowMatches(req[r].snap, account[req[r].user])
           /\ account' = [account EXCEPT ![req[r].user] = newRow]
           /\ ledger' = [ledger EXCEPT ![req[r].user] = @ \o entries]
  <2>1. ledger'[u] = ledger[u] \/ ledger'[u] = ledger[u] \o entries
    BY <1>3 DEF TypeOK
  <2>2. entries = <<>> => ledger[u] \o entries = ledger[u]
    BY <1>1
  <2>3. Topups(ledger'[u], o) = Topups(ledger[u], o)
    BY <1>1, <2>1, <2>2, OtherRows
  <2> QED BY <2>3 DEF CreditsKept
<1> QED BY <1>2, <1>3 DEF VersionedWrite

\* The operations of Wallet leave every order credited as it was.
LEMMA WalletKeepsCredits ==
    ASSUME TypeOK, [WalletNext]_walletVars, NEW u \in Users, NEW o
    PROVE  CreditsKept(u, o)
<1>1. CASE UNCHANGED <<account, ledger>>
  BY <1>1 DEF CreditsKept
<1>2. ASSUME NEW r \in Requests, Continue(r)
      PROVE  CreditsKept(u, o)
  <2> DEFINE q == req[r]
  <2>0. q \in Request
    BY DEF TypeOK
  <2>1. CASE DeductWrite(r)
    <3> DEFINE e == RowOf(-q.amount, q.snap.balance, q.type, q.reason)
    <3>1. /\ q.user \in Users /\ q.snap \in Row /\ q.amount \in Amounts
          /\ q.type \in DeductTypes /\ q.reason \in RowReasons
      BY <2>0, <2>1, DeductRequest DEF DeductWrite, RowReasons
    <3>2. e \in Entry
      BY <3>1, DeductedTypes DEF Types
    <3>3. e.type \notin TopupTypes
      BY <3>1 DEF RowOf, DeductTypes, TopupTypes
    <3>4. VersionedWrite(r, DeductedRow(account[q.user], q.snap, q.amount), <<e>>)
      BY <2>1 DEF DeductWrite
    <3> HIDE DEF e
    <3> QED BY <3>1, <3>2, <3>3, <3>4, WriteKeepsCredits
  <2>2. CASE AdjustWrite(r)
    <3> DEFINE e == RowOf(q.amount, q.snap.balance, q.type, q.reason)
    <3>1. /\ q.user \in Users /\ q.snap \in Row /\ q.amount \in Amounts
          /\ q.type \in AdjustTypes /\ q.reason \in RowReasons
      BY <2>0, <2>2, AdjustRequest DEF AdjustWrite, RowReasons
    <3>2. e \in Entry
      BY <3>1, AdjustedTypes DEF Types
    <3>3. e.type \notin TopupTypes
      BY <3>1 DEF RowOf, AdjustTypes, TopupTypes
    <3>4. VersionedWrite(r, AdjustedRow(account[q.user], q.snap, q.amount, q.type), <<e>>)
      BY <2>2 DEF AdjustWrite
    <3> HIDE DEF e
    <3> QED BY <3>1, <3>2, <3>3, <3>4, WriteKeepsCredits
  <2>3. CASE UpdateWrite(r)
    <3>1. q.user \in Users
      BY <2>0, <2>3, UpdateRequest DEF UpdateWrite
    <3> QED BY <2>3, <3>1, WriteKeepsCredits DEF UpdateWrite
  <2>4. CASE DropUser(r)
    BY <2>4 DEF DropUser, CreditsKept
  <2>5. CASE Invalidate(r) \/ PurgeRows(r) \/ ReadFound(r) \/ FillCache(r)
    BY <1>1, <2>5 DEF Invalidate, PurgeRows, ReadFound, FillCache
  <2> QED BY <1>2, <2>1, <2>2, <2>3, <2>4, <2>5 DEF Continue
<1>3. ASSUME NEW r \in Requests, NEW v \in Users, Begin(r, v)
      PROVE  CreditsKept(u, o)
  BY <1>1, <1>3 DEF Begin, BeginDeduct, BeginAdjust, BeginUpdate, BeginDelete, BeginFind
<1>4. CASE \/ \E r \in Requests : Abandon(r)
           \/ \E v \in Users : CacheExpire(v)
           \/ UNCHANGED walletVars
  BY <1>1, <1>4 DEF Abandon, CacheExpire, walletVars
<1> QED BY <1>2, <1>3, <1>4 DEF WalletNext

Completing(state) == state.step \in {"save_order", "read_user", "save_user", "commit"}

\* Where no user is deleted, nobody is about to; and a completion tops up the
\* user of its order.
NobodyGoes ==
    /\ \A r \in Requests : req[r].step \notin {"purge", "drop"}
    /\ \A j \in Jobs : Completing(job[j]) =>
          job[j].row.user = order[job[j].order].user

\* Then orders keep their users, and users their top-ups.
CreditsStay ==
    /\ \A o \in OrderIds : order[o] # NoOrder =>
          order'[o] # NoOrder /\ order'[o].user = order[o].user
    /\ \A u \in Users, o \in OrderIds : Topups(ledger[u], o) \subseteq Topups(ledger'[u], o)

\* What a commit does: a completion adds the top-up of its order to the user's rows.
CommitAdds(j, u, p, saved, n) ==
    /\ u \in Users /\ p \in OrderIds /\ saved \in OrderRow
    /\ p = job[j].order /\ u = job[j].row.user /\ saved.user = u
    /\ order' = [order EXCEPT ![p] = saved]
    /\ \A o \in OrderIds :
          Topups(ledger'[u], o) =
             Topups(ledger[u], o) \union (IF p = o THEN {n} ELSE {})
    /\ \A v \in Users : v # u => ledger'[v] = ledger[v]

\* Every commit of a completion does that.
LEMMA CommitsAdd ==
    ASSUME OrdersTypeOK, NEW j \in Jobs, Commit(j)
    PROVE  \E u, p, saved, n : CommitAdds(j, u, p, saved, n)
<1> DEFINE row == job[j].row
           snap == job[j].snap
           u == row.user
           p == job[j].order
           e == RowOf(row.amount, snap.balance, TopupType(row.type), p)
           saved == [row EXCEPT !.status = "paid"]
<1>1. /\ row \in OrderRow /\ snap \in Row /\ p \in OrderIds
      /\ u \in Users /\ row.amount \in Nat
  BY JobShape, AmountsAssumption DEF Commit, OrdersTypeOK, OrderRow
<1>2. e \in Entry /\ e.type \in TopupTypes /\ e.reason = p
  <2>1. snap.balance \in Int /\ snap.balance + row.amount \in Int
    BY <1>1 DEF Row
  <2> QED BY <1>1, <2>1
          DEF RowOf, Entry, TopupType, Types, TopupTypes, RowReasons
<1>3. saved \in OrderRow /\ saved.user = u
  BY <1>1 DEF OrderRow
<1>4. /\ \A v \in Users : v # u => ledger'[v] = ledger[v]
      /\ ledger'[u] = Append(ledger[u], e) /\ ledger[u] \in Seq(Entry)
      /\ order' = [order EXCEPT ![p] = saved]
  BY <1>1 DEF Commit, Credited, OrdersTypeOK, TypeOK
<1>5. PICK n : n = Len(ledger[u]) + 1
  OBVIOUS
<1>6. PICK u1 \in Users, p1 \in OrderIds, saved1 \in OrderRow, e1 \in Entry :
         u1 = u /\ p1 = p /\ saved1 = saved /\ e1 = e
  BY <1>1, <1>2, <1>3
<1>7. /\ \A v \in Users : v # u1 => ledger'[v] = ledger[v]
      /\ ledger'[u1] = Append(ledger[u1], e1) /\ ledger[u1] \in Seq(Entry)
      /\ order' = [order EXCEPT ![p1] = saved1]
      /\ e1.type \in TopupTypes /\ e1.reason = p1 /\ n = Len(ledger[u1]) + 1
  BY <1>2, <1>4, <1>5, <1>6
<1>8. p1 = job[j].order /\ u1 = job[j].row.user /\ saved1.user = u1
  BY <1>3, <1>6
<1> HIDE DEF row, snap, u, p, e, saved
<1>9. \A o \in OrderIds :
         Topups(ledger'[u1], o) =
            Topups(ledger[u1], o) \union (IF p1 = o THEN {n} ELSE {})
  BY <1>7, TopupRow
<1>10. CommitAdds(j, u1, p1, saved1, n)
  BY <1>7, <1>8, <1>9 DEF CommitAdds
<1> QED BY <1>10

\* So it is, step by step.
LEMMA CreditsStayStep ==
    ASSUME "delete" \notin Operations, OrdersTypeOK, JobOrders, NobodyGoes, [Next]_vars
    PROVE  NobodyGoes' /\ CreditsStay
<1>1. CASE [WalletNext]_walletVars /\ UNCHANGED orderVars
  <2>1. UNCHANGED <<order, job>>
    BY <1>1 DEF orderVars
  <2>2. \A u \in Users, o \in OrderIds : Topups(ledger'[u], o) = Topups(ledger[u], o)
    BY <1>1, WalletKeepsCredits DEF OrdersTypeOK, NobodyGoes, CreditsKept
  <2>3. Idle.step = "idle"
    BY DEF Idle
  <2>4. \A r \in Requests : req'[r].step \notin {"purge", "drop"}
    <3>1. CASE UNCHANGED req
      BY <3>1 DEF NobodyGoes
    <3>2. ASSUME NEW r \in Requests, NEW state, Goto(r, state),
                 state.step \notin {"purge", "drop"}
          PROVE  \A s \in Requests : req'[s].step \notin {"purge", "drop"}
      BY <3>2 DEF Goto, NobodyGoes, OrdersTypeOK, TypeOK
    <3>3. ASSUME NEW r \in Requests, NEW u \in Users, Begin(r, u)
          PROVE  \A s \in Requests : req'[s].step \notin {"purge", "drop"}
      BY <3>2, <3>3 DEF Begin, BeginDeduct, BeginAdjust, BeginUpdate, BeginFind
    <3>4. ASSUME NEW r \in Requests, Continue(r) \/ Abandon(r)
          PROVE  \A s \in Requests : req'[s].step \notin {"purge", "drop"}
      <4>1. req[r].step \notin {"purge", "drop"}
        BY DEF NobodyGoes
      <4>2. CASE Invalidate(r) \/ ReadFound(r) \/ FillCache(r) \/ Abandon(r)
        BY <2>3, <3>2, <4>2 DEF Invalidate, ReadFound, FillCache, Abandon
      <4>3. CASE DeductWrite(r) \/ AdjustWrite(r) \/ UpdateWrite(r)
        BY <2>3, <3>2, <4>3 DEF DeductWrite, AdjustWrite, UpdateWrite, VersionedWrite
      <4> QED BY <3>4, <4>1, <4>2, <4>3 DEF Continue, PurgeRows, DropUser
    <3> QED
      BY <1>1, <3>1, <3>3, <3>4 DEF WalletNext, CacheExpire, walletVars
  <2> QED BY <2>1, <2>2, <2>4 DEF NobodyGoes, CreditsStay, Completing
<1>2. ASSUME UNCHANGED walletVars,
             \A o \in OrderIds : order[o] # NoOrder =>
                order'[o] # NoOrder /\ order'[o].user = order[o].user,
             \A j \in Jobs :
                \/ Completing(job'[j]) => Completing(job[j])
                      /\ job'[j].order = job[j].order /\ job'[j].row = job[j].row
                \/ job'[j].order \in OrderIds /\ order[job'[j].order] # NoOrder
                      /\ job'[j].row = order[job'[j].order]
      PROVE  NobodyGoes' /\ CreditsStay
  <2>1. CreditsStay
    BY <1>2 DEF CreditsStay, walletVars
  <2>2. ASSUME NEW j \in Jobs, Completing(job'[j])
        PROVE  job'[j].row.user = order'[job'[j].order].user
    <3>1. Completing(job[j]) => /\ job[j].order \in OrderIds
                                /\ order[job[j].order] # NoOrder
                                /\ job[j].row.user = order[job[j].order].user
      BY JobShape DEF OrdersTypeOK, JobOrders, NobodyGoes, Completing
    <3> QED BY <1>2, <2>2, <3>1
  <2>3. \A r \in Requests : req'[r].step \notin {"purge", "drop"}
    BY <1>2 DEF walletVars, NobodyGoes
  <2> QED BY <2>1, <2>2, <2>3 DEF NobodyGoes, Completing
<1>3. ASSUME NEW o \in OrderIds, NEW u \in Users, NEW amount \in Amounts,
             NEW type \in OrderTypes, CreateOrder(o, u, amount, type)
      PROVE  NobodyGoes' /\ CreditsStay
  <2>1. \A p \in OrderIds : order[p] # NoOrder => order'[p] = order[p]
    BY <1>3 DEF CreateOrder, OrdersTypeOK
  <2> QED BY <1>2, <1>3, <2>1 DEF CreateOrder
<1>4. ASSUME NEW j \in Jobs, NEW state, JobTo(j, state), UNCHANGED <<walletVars, order>>,
             Completing(state) =>
                \/ Completing(job[j]) /\ state.order = job[j].order /\ state.row = job[j].row
                \/ state.order \in OrderIds /\ order[state.order] # NoOrder
                      /\ state.row = order[state.order]
      PROVE  NobodyGoes' /\ CreditsStay
  BY <1>2, <1>4, OthersStay
<1>5. ~ Completing(Idle)
  BY DEF Completing, Idle
<1>6. ASSUME NEW j \in Jobs, NEW o \in OrderIds,
             ReadPending(j, o) \/ ReadRefused(j, o) \/ CancelRead(j, o)
      PROVE  NobodyGoes' /\ CreditsStay
  BY <1>4, <1>5, <1>6 DEF ReadPending, ReadRefused, CancelRead, Completing
<1>7. ASSUME NEW j \in Jobs, NEW o \in OrderIds, Notify(j, o)
      PROVE  NobodyGoes' /\ CreditsStay
  <2>1. order[o] \in OrderRow
    BY <1>7 DEF Notify, OrdersTypeOK
  <2>2. \A p \in OrderIds : order[p] # NoOrder =>
           order'[p] # NoOrder /\ order'[p].user = order[p].user
    <3>1. [order[o] EXCEPT !.external = TRUE] \in OrderRow
      BY <2>1 DEF OrderRow
    <3>2. order' \in {order, [order EXCEPT ![o].external = TRUE]}
      BY <1>7 DEF Notify
    <3>3. [order[o] EXCEPT !.external = TRUE].user = order[o].user
      BY <2>1 DEF OrderRow
    <3>4. order \in [OrderIds -> OrderRow \union {NoOrder}]
      BY DEF OrdersTypeOK
    <3>5. CASE order' = order
      BY <3>5
    <3>6. CASE order' = [order EXCEPT ![o] = [order[o] EXCEPT !.external = TRUE]]
      BY <3>1, <3>3, <3>4, <3>6, NoOrderAssumption
    <3> QED BY <3>2, <3>5, <3>6
  <2>3. job'[j] = [step |-> "read_order", order |-> o]
        /\ \A k \in Jobs : k # j => job'[k] = job[k]
    BY <1>7, OthersStay DEF Notify
  <2> QED BY <1>2, <1>7, <2>2, <2>3 DEF Notify, Completing
<1>8. ASSUME NEW j \in Jobs, ContinueJob(j) \/ AbandonJob(j)
      PROVE  NobodyGoes' /\ CreditsStay
  <2>1. job[j].step # "idle" => job[j].order \in OrderIds /\ order[job[j].order] # NoOrder
    BY JobShape DEF OrdersTypeOK, JobOrders
  <2>2. CASE AbandonJob(j)
    BY <1>4, <1>5, <2>2 DEF AbandonJob
  <2>3. CASE NotifyComplete(j)
    BY <1>6, <2>1, <2>3 DEF NotifyComplete
  <2>4. CASE SaveOrder(j)
    <3>1. job[j] \in Job
      BY DEF OrdersTypeOK
    <3>2. /\ [job[j] EXCEPT !.step = "read_user"].order = job[j].order
          /\ [job[j] EXCEPT !.step = "read_user"].row = job[j].row
      BY <2>4, <3>1 DEF SaveOrder, Job, Idle
    <3> QED BY <1>4, <2>4, <3>2 DEF SaveOrder, Completing
  <2>8. CASE SaveUser(j)
    <3>1. job[j] \in Job
      BY DEF OrdersTypeOK
    <3>2. /\ [job[j] EXCEPT !.step = "commit"].order = job[j].order
          /\ [job[j] EXCEPT !.step = "commit"].row = job[j].row
      BY <2>8, <3>1 DEF SaveUser, Job, Idle
    <3> QED BY <1>4, <2>8, <3>2 DEF SaveUser, Completing
  <2>5. CASE ReadUser(j)
    BY <1>4, <1>5, <2>5 DEF ReadUser, Completing
  <2>6. CASE CancelWrite(j)
    <3>1. PICK o \in OrderIds : o = job[j].order /\ order[o] \in OrderRow
      BY <2>1, <2>6 DEF CancelWrite, OrdersTypeOK
    <3>2. [order[o] EXCEPT !.status = "cancelled"] \in OrderRow
      BY <3>1 DEF OrderRow
    <3>3. order' = [order EXCEPT ![o].status = "cancelled"]
      BY <2>6, <3>1 DEF CancelWrite
    <3>4. \A p \in OrderIds : order[p] # NoOrder =>
             order'[p] # NoOrder /\ order'[p].user = order[p].user
      BY <3>1, <3>2, <3>3, NoOrderAssumption DEF OrdersTypeOK, OrderRow
    <3>5. job'[j] = Idle /\ \A k \in Jobs : k # j => job'[k] = job[k]
      BY <2>6, OthersStay DEF CancelWrite
    <3> QED BY <1>2, <1>5, <2>6, <3>4, <3>5 DEF CancelWrite
  <2>7. CASE Commit(j)
    <3>0. PICK u, p, saved, n : CommitAdds(j, u, p, saved, n)
      BY <2>7, CommitsAdd
    <3>1. /\ u \in Users /\ p \in OrderIds /\ saved \in OrderRow
          /\ p = job[j].order /\ u = job[j].row.user /\ saved.user = u
          /\ order' = [order EXCEPT ![p] = saved]
          /\ \A o \in OrderIds :
                Topups(ledger'[u], o) =
                   Topups(ledger[u], o) \union (IF p = o THEN {n} ELSE {})
          /\ \A v \in Users : v # u => ledger'[v] = ledger[v]
      BY <3>0 DEF CommitAdds
    <3>2. order[p] # NoOrder /\ order[p].user = u
      BY <2>1, <2>7, <3>1 DEF Commit, NobodyGoes, Completing
    <3>3. \A o \in OrderIds : order[o] # NoOrder =>
             order'[o] # NoOrder /\ order'[o].user = order[o].user
      BY <3>1, <3>2, NoOrderAssumption DEF OrdersTypeOK
    <3>4. \A v \in Users, o \in OrderIds :
             Topups(ledger[v], o) \subseteq Topups(ledger'[v], o)
      BY <3>1
    <3>5. CreditsStay
      BY <3>3, <3>4 DEF CreditsStay
    <3>6. \A r \in Requests : req'[r].step \notin {"purge", "drop"}
      BY <2>7 DEF Commit, Credited, NobodyGoes
    <3>7. job'[j] = Idle /\ \A k \in Jobs : k # j => job'[k] = job[k]
      BY <2>7, OthersStay DEF Commit
    <3>8. ASSUME NEW k \in Jobs, Completing(job'[k])
          PROVE  job'[k].row.user = order'[job'[k].order].user
      <4>1. k # j /\ job'[k] = job[k]
        BY <1>5, <3>7, <3>8
      <4>2. /\ job[k].order \in OrderIds /\ order[job[k].order] # NoOrder
            /\ job[k].row.user = order[job[k].order].user
        BY <3>8, <4>1, JobShape DEF OrdersTypeOK, JobOrders, NobodyGoes, Completing
      <4> QED BY <3>3, <4>1, <4>2
    <3> QED BY <3>5, <3>6, <3>8 DEF NobodyGoes, Completing
  <2> QED BY <1>8, <2>2, <2>3, <2>4, <2>5, <2>6, <2>7, <2>8 DEF ContinueJob
<1>9. CASE WalletStep \/ UNCHANGED vars
  BY <1>1, <1>9 DEF WalletStep, vars
<1> QED BY <1>3, <1>6, <1>7, <1>8, <1>9 DEF Next, AdminComplete

-----------------------------------------------------------------------------
(* Credit and status, when no user is deleted: completions may credit an    *)
(* order twice, but no commit writes one of the two without the other, and *)
(* no order becomes pending again.                                         *)

CreditFollows(o) ==
    /\ order[o] = NoOrder => \A u \in Users : Topups(ledger[u], o) = {}
    /\ order[o] # NoOrder =>
          LET credits == Topups(ledger[order[o].user], o) IN
          /\ order[o].status = "pending" => credits = {}
          /\ order[o].status = "paid" => credits # {}

\* Every step leaves credits and status in agreement.
LEMMA CreditFollowsStep ==
    ASSUME "delete" \notin Operations, OrdersTypeOK, JobOrders, NobodyGoes,
           \A o \in OrderIds : CreditFollows(o), [Next]_vars
    PROVE  \A o \in OrderIds : CreditFollows(o)'
<1>1. CASE [WalletNext]_walletVars /\ UNCHANGED orderVars
  <2>1. UNCHANGED order
    BY <1>1 DEF orderVars
  <2>2. \A u \in Users, o \in OrderIds : Topups(ledger'[u], o) = Topups(ledger[u], o)
    BY <1>1, WalletKeepsCredits DEF OrdersTypeOK, NobodyGoes, CreditsKept
  <2>3. \A o \in OrderIds : order[o] # NoOrder => order[o].user \in Users
    BY DEF OrdersTypeOK, OrderRow
  <2> QED BY <2>1, <2>2, <2>3 DEF CreditFollows
\* The wallet stays, and an order stays pending or paid, is cancelled, or is new.
<1>2. ASSUME UNCHANGED ledger,
             \A o \in OrderIds :
                \/ order'[o] = order[o]
                \/ /\ order[o] # NoOrder /\ order'[o] # NoOrder
                   /\ order'[o].user = order[o].user
                   /\ order'[o].status \in {order[o].status, "cancelled"}
                \/ /\ order[o] = NoOrder /\ order'[o] # NoOrder
                   /\ order'[o].user \in Users /\ order'[o].status = "pending"
      PROVE  \A o \in OrderIds : CreditFollows(o)'
  BY <1>2 DEF CreditFollows
<1>3. ASSUME NEW o \in OrderIds, NEW u \in Users, NEW amount \in Amounts,
             NEW type \in OrderTypes, CreateOrder(o, u, amount, type)
      PROVE  \A p \in OrderIds : CreditFollows(p)'
  <2> DEFINE row == [status |-> "pending", user |-> u, amount |-> amount,
                     type |-> type, external |-> FALSE]
  <2>1. row \in OrderRow /\ row.user = u /\ row.status = "pending"
    BY <1>3 DEF OrderRow
  <2>2. order[o] = NoOrder /\ order' = [order EXCEPT ![o] = row] /\ UNCHANGED ledger
    BY <1>3 DEF CreateOrder, walletVars
  <2> HIDE DEF row
  <2>3. \A p \in OrderIds : p # o => order'[p] = order[p]
    BY <2>2 DEF OrdersTypeOK
  <2>4. order'[o] = row
    BY <2>2 DEF OrdersTypeOK
  <2> QED BY <1>2, <2>1, <2>2, <2>3, <2>4, NoOrderAssumption
<1>4. ASSUME NEW o \in OrderIds, NEW row \in OrderRow, order[o] # NoOrder,
             order' = [order EXCEPT ![o] = row], UNCHANGED ledger,
             row.user = order[o].user, row.status \in {order[o].status, "cancelled"}
      PROVE  \A p \in OrderIds : CreditFollows(p)'
  <2>1. order'[o] = row /\ \A p \in OrderIds : p # o => order'[p] = order[p]
    BY <1>4 DEF OrdersTypeOK
  <2> QED BY <1>2, <1>4, <2>1, NoOrderAssumption
<1>5. ASSUME NEW j \in Jobs, NEW o \in OrderIds, Notify(j, o)
      PROVE  \A p \in OrderIds : CreditFollows(p)'
  <2> DEFINE row == [order[o] EXCEPT !.external = TRUE]
  <2>1. order[o] # NoOrder /\ order[o] \in OrderRow
    BY <1>5 DEF Notify, OrdersTypeOK
  <2>2. row \in OrderRow /\ row.user = order[o].user /\ row.status = order[o].status
    BY <2>1 DEF OrderRow
  <2>3. order' \in {order, [order EXCEPT ![o] = row]} /\ UNCHANGED ledger
    BY <1>5 DEF Notify, walletVars
  <2> QED BY <1>2, <1>4, <2>1, <2>2, <2>3
<1>6. ASSUME NEW j \in Jobs, CancelWrite(j)
      PROVE  \A p \in OrderIds : CreditFollows(p)'
  <2>1. PICK o \in OrderIds : o = job[j].order /\ order[o] # NoOrder /\ order[o] \in OrderRow
    BY <1>6, JobShape DEF CancelWrite, OrdersTypeOK, JobOrders
  <2> DEFINE row == [order[o] EXCEPT !.status = "cancelled"]
  <2>2. row \in OrderRow /\ row.user = order[o].user /\ row.status = "cancelled"
    BY <2>1 DEF OrderRow
  <2>3. order' = [order EXCEPT ![o] = row] /\ UNCHANGED ledger
    BY <1>6, <2>1 DEF CancelWrite, walletVars
  <2> QED BY <1>4, <2>1, <2>2, <2>3
<1>7. ASSUME NEW j \in Jobs, Commit(j)
      PROVE  \A o \in OrderIds : CreditFollows(o)'
  <2>0. PICK u, p, saved, n : CommitAdds(j, u, p, saved, n)
    BY <1>7, CommitsAdd
  <2>1. /\ u \in Users /\ p \in OrderIds /\ saved \in OrderRow
        /\ p = job[j].order /\ u = job[j].row.user /\ saved.user = u
        /\ order' = [order EXCEPT ![p] = saved]
        /\ \A o \in OrderIds :
              Topups(ledger'[u], o) =
                 Topups(ledger[u], o) \union (IF p = o THEN {n} ELSE {})
        /\ \A v \in Users : v # u => ledger'[v] = ledger[v]
    BY <2>0 DEF CommitAdds
  <2>2. order'[p] = saved /\ \A o \in OrderIds : o # p => order'[o] = order[o]
    BY <2>1 DEF OrdersTypeOK
  <2>3. \A o \in OrderIds : o # p =>
           \A v \in Users : Topups(ledger'[v], o) = Topups(ledger[v], o)
    BY <2>1
  <2>4. \A o \in OrderIds : order[o] # NoOrder => order[o].user \in Users
    BY DEF OrdersTypeOK, OrderRow
  <2>5. \A o \in OrderIds : o # p => CreditFollows(o)'
    BY <2>2, <2>3, <2>4 DEF CreditFollows
  <2>6. saved # NoOrder /\ saved.status = "paid"
    <3>1. order'[job[j].order] = [job[j].row EXCEPT !.status = "paid"]
      BY <1>7, <2>1 DEF Commit, Credited, OrdersTypeOK
    <3>2. job[j].row \in OrderRow
      BY <1>7, JobShape DEF Commit, OrdersTypeOK
    <3> QED BY <2>1, <2>2, <3>1, <3>2, NoOrderAssumption DEF OrderRow
  <2>7. n \in Topups(ledger'[saved.user], p)
    BY <2>1
  <2>8. CreditFollows(p)'
    BY <2>2, <2>6, <2>7 DEF CreditFollows
  <2> QED BY <2>5, <2>8
<1>8. ASSUME UNCHANGED <<ledger, order>> PROVE \A o \in OrderIds : CreditFollows(o)'
  BY <1>8 DEF CreditFollows
<1>9. CASE WalletStep \/ UNCHANGED vars
  BY <1>1, <1>9 DEF WalletStep, vars
<1>10. ASSUME NEW j \in Jobs, NEW o \in OrderIds,
              ReadPending(j, o) \/ ReadRefused(j, o) \/ CancelRead(j, o)
       PROVE  \A p \in OrderIds : CreditFollows(p)'
  BY <1>8, <1>10 DEF ReadPending, ReadRefused, CancelRead, walletVars
<1>11. ASSUME NEW j \in Jobs, ContinueJob(j) \/ AbandonJob(j)
       PROVE  \A o \in OrderIds : CreditFollows(o)'
  <2>1. CASE NotifyComplete(j)
    <3>1. UNCHANGED <<ledger, order>>
      BY <2>1 DEF NotifyComplete, ReadPending, ReadRefused, walletVars
    <3> QED BY <1>8, <3>1
  <2>2. CASE SaveOrder(j) \/ ReadUser(j) \/ SaveUser(j) \/ AbandonJob(j)
    <3>1. UNCHANGED <<ledger, order>>
      BY <2>2 DEF SaveOrder, ReadUser, SaveUser, AbandonJob, walletVars
    <3> QED BY <1>8, <3>1
  <2> QED BY <1>6, <1>7, <1>11, <2>1, <2>2 DEF ContinueJob
<1> QED BY <1>3, <1>5, <1>9, <1>10, <1>11 DEF Next, AdminComplete

\* An order is credited when it is paid and not before, however completions, repeated
\* callbacks and cancellations overlap and fail, as long as no user is deleted
\* with the transactions (order_service.go:77-157).
THEOREM OrdersCreditMatchesStatus ==
    "delete" \notin Operations => (Spec => []CreditMatchesStatus)
<1> SUFFICES ASSUME "delete" \notin Operations PROVE Spec => []CreditMatchesStatus
  OBVIOUS
<1> DEFINE Inv == JobOrders /\ NobodyGoes /\ \A o \in OrderIds : CreditFollows(o)
<1>1. Init => Inv
  <2> SUFFICES ASSUME Init PROVE Inv
    OBVIOUS
  <2>1. JobOrders /\ NobodyGoes
    BY DEF Init, WalletInit, JobOrders, NobodyGoes, Completing, Idle
  <2>2. \A u \in Users, o \in OrderIds : Topups(ledger[u], o) = {}
    BY DEF Init, WalletInit, Topups
  <2> QED BY <2>1, <2>2 DEF CreditFollows, Init
<1>2. OrdersTypeOK /\ Inv /\ [Next]_vars => Inv'
  BY OrderStepTypes, CreditsStayStep, CreditFollowsStep
<1>3. Inv => CreditMatchesStatus
  BY CreditsAreTopups DEF CreditFollows, CreditMatchesStatus
<1> HIDE DEF Inv
<1> QED BY <1>1, <1>2, <1>3, OrdersTypes, PTL DEF Spec

-----------------------------------------------------------------------------
(* Lost writes.  The argument is Wallet's, user by user, up to the moment  *)
(* a completion commits over a row it has not seen.                        *)

\* The row says what the transactions add up to.
AccountedFor(row, rows) ==
    /\ Joined(rows)
    /\ EndOf(rows) = row.balance
    /\ ConsumedBy(rows) = row.consumed

Accounted(u) == account[u] # NoUser => AccountedFor(account[u], ledger[u])

\* What the operations of Wallet on this user have read is the row, or older.
Fresh(u) ==
    \A r \in Requests :
       req[r].step \in {"deduct", "adjust", "update", "fill"} /\ req[r].user = u =>
          NotAhead(req[r].snap, account[u])

\* One more transaction, and the row that goes with it.
LEMMA EntryAccounted ==
    ASSUME NEW rows \in Seq(Entry), NEW row, NEW newRow, NEW e \in Entry,
           AccountedFor(row, rows), e.before = row.balance,
           e.after = e.before + e.amount, newRow.balance = e.after,
           newRow.consumed = row.consumed + Consumption(e)
    PROVE  AccountedFor(newRow, rows \o <<e>>)
BY JoinedAppend, ConsumedAppend DEF AccountedFor

\* A row with the next version leaves every copy older.
LEMMA NextVersion ==
    ASSUME NEW row \in Row, NEW newRow, newRow.version = row.version + 1,
           NEW copy \in Row, NotAhead(copy, row)
    PROVE  NotAhead(copy, newRow)
<1>1. copy.version \in Nat /\ row.version \in Nat /\ row # NoUser
  BY NoUserAssumption DEF Row
<1> QED BY <1>1 DEF NotAhead

\* A request that holds a copy holds a row.
LEMMA CopyIsRow ==
    ASSUME NEW q \in Request, q.step \in {"deduct", "adjust", "update", "fill"}
    PROVE  q.snap \in Row
BY DeductRequest, AdjustRequest, UpdateRequest, FillRequest

\* A write with a version check goes in only where the row was read as it is.
LEMMA WriteKeepsUser ==
    ASSUME TypeOK, NEW u \in Users, Fresh(u), Accounted(u),
           NEW r \in Requests, req[r].step \in {"deduct", "adjust", "update"},
           req[r].user \in Users, NEW newRow, NEW entries,
           VersionedWrite(r, newRow, entries),
           account[req[r].user] = req[r].snap =>
              /\ newRow.version = req[r].snap.version + 1
              /\ \/ /\ entries = <<>> /\ newRow.balance = req[r].snap.balance
                    /\ newRow.consumed = req[r].snap.consumed
                 \/ \E e \in Entry :
                       /\ entries = <<e>> /\ e.before = req[r].snap.balance
                       /\ e.after = e.before + e.amount /\ newRow.balance = e.after
                       /\ newRow.consumed = req[r].snap.consumed + Consumption(e)
    PROVE  Fresh(u)' /\ Accounted(u)'
<1>1. /\ \A s \in Requests : s # r => req'[s] = req[s]
      /\ req'[r].step \notin {"deduct", "adjust", "update", "fill"}
  BY DEF VersionedWrite, Goto, Idle, TypeOK
<1>2. CASE account'[u] = account[u] /\ ledger'[u] = ledger[u]
  BY <1>1, <1>2 DEF Fresh, Accounted, NotAhead, AccountedFor, Joined, EndOf
<1>3. CASE /\ RowMatches(req[r].snap, account[u]) /\ req[r].user = u
           /\ account' = [account EXCEPT ![u] = newRow]
           /\ ledger' = [ledger EXCEPT ![u] = @ \o entries]
  <2>1. NotAhead(req[r].snap, account[u])
    BY <1>3 DEF Fresh
  <2>2. /\ req[r].snap = account[u] /\ account[u] # NoUser /\ account[u] \in Row
        /\ ledger[u] \in Seq(Entry)
    BY <1>3, <2>1 DEF RowMatches, NotAhead, TypeOK
  <2>3. account'[u] = newRow /\ ledger'[u] = ledger[u] \o entries
    BY <1>3 DEF TypeOK
  <2>4. AccountedFor(account[u], ledger[u])
    BY <2>2 DEF Accounted
  <2>5. AccountedFor(newRow, ledger[u] \o entries)
    <3>1. ASSUME entries = <<>>, newRow.balance = req[r].snap.balance,
                 newRow.consumed = req[r].snap.consumed
          PROVE  AccountedFor(newRow, ledger[u] \o entries)
      <4>1. ledger[u] \o entries = ledger[u]
        BY <2>2, <3>1
      <4> QED BY <2>2, <2>4, <3>1, <4>1 DEF AccountedFor
    <3>2. ASSUME NEW e \in Entry, entries = <<e>>, e.before = req[r].snap.balance,
                 e.after = e.before + e.amount, newRow.balance = e.after,
                 newRow.consumed = req[r].snap.consumed + Consumption(e)
          PROVE  AccountedFor(newRow, ledger[u] \o entries)
      BY <2>2, <2>4, <3>2, EntryAccounted
    <3> QED BY <1>3, <2>2, <3>1, <3>2
  <2>6. ASSUME NEW s \in Requests, req'[s].user = u,
               req'[s].step \in {"deduct", "adjust", "update", "fill"}
        PROVE  NotAhead(req'[s].snap, newRow)
    <3>1. req'[s] = req[s]
      BY <1>1, <2>6
    <3>2. req[s].snap \in Row
      BY <2>6, <3>1, CopyIsRow DEF TypeOK
    <3>3. NotAhead(req[s].snap, account[u])
      BY <2>6, <3>1 DEF Fresh
    <3>4. newRow.version = account[u].version + 1
      BY <1>3, <2>2
    <3> QED BY <2>2, <3>1, <3>2, <3>3, <3>4, NextVersion
  <2> QED BY <2>3, <2>5, <2>6 DEF Fresh, Accounted, NotAhead, AccountedFor, Joined, EndOf
<1> QED BY <1>2, <1>3 DEF VersionedWrite, TypeOK

\* The operations of Wallet keep what is known of a user.
LEMMA WalletKeepsUser ==
    ASSUME TypeOK, [WalletNext]_walletVars, NEW u \in Users, Fresh(u), Accounted(u)
    PROVE  Fresh(u)' /\ Accounted(u)'
<1> DEFINE Copies == {"deduct", "adjust", "update", "fill"}
<1>1. ASSUME account'[u] = account[u], ledger'[u] = ledger[u],
             \A s \in Requests :
                \/ req'[s] = req[s]
                \/ req'[s].step \notin Copies
                \/ req'[s].snap = account[req'[s].user] /\ req'[s].snap \in Row
      PROVE  Fresh(u)' /\ Accounted(u)'
  <2>1. ASSUME NEW row \in Row PROVE NotAhead(row, row)
    BY DEF NotAhead, Row
  <2>2. ASSUME NEW s \in Requests, req'[s].step \in Copies, req'[s].user = u
        PROVE  NotAhead(req'[s].snap, account[u])
    BY <1>1, <2>1, <2>2 DEF Fresh
  <2> QED BY <1>1, <2>2 DEF Fresh, Accounted, NotAhead, AccountedFor, Joined, EndOf
<1>2. ASSUME NEW r \in Requests, NEW v \in Users, Begin(r, v)
      PROVE  Fresh(u)' /\ Accounted(u)'
  <2>1. UNCHANGED <<account, ledger>> /\ \A s \in Requests : s # r => req'[s] = req[s]
    BY <1>2 DEF Begin, BeginDeduct, BeginAdjust, BeginUpdate, BeginDelete, BeginFind,
                Goto, TypeOK
  <2>2. \/ req'[r].step \notin Copies
        \/ req'[r].user = v /\ req'[r].snap = account[v] /\ account[v] # NoUser
    <3>1. ASSUME NEW amount, NEW type, NEW reason,
                 BeginDeduct(r, v, amount, type, reason)
          PROVE  req'[r].user = v /\ req'[r].snap = account[v] /\ account[v] # NoUser
      BY <3>1 DEF BeginDeduct, CanRead, Goto, TypeOK
    <3>2. ASSUME NEW amount, NEW type, NEW reason,
                 BeginAdjust(r, v, amount, type, reason)
          PROVE  req'[r].user = v /\ req'[r].snap = account[v] /\ account[v] # NoUser
      BY <3>2 DEF BeginAdjust, CanRead, Goto, TypeOK
    <3>3. ASSUME NEW newLimit, NEW newActive, BeginUpdate(r, v, newLimit, newActive)
          PROVE  req'[r].user = v /\ req'[r].snap = account[v] /\ account[v] # NoUser
      BY <3>3 DEF BeginUpdate, CanRead, Goto, TypeOK
    <3>4. CASE BeginDelete(r, v) \/ BeginFind(r, v)
      BY <3>4 DEF BeginDelete, BeginFind, Goto, TypeOK
    <3> QED BY <1>2, <3>1, <3>2, <3>3, <3>4 DEF Begin
  <2>3. account[v] # NoUser => account[v] \in Row
    BY DEF TypeOK
  <2> QED BY <1>1, <2>1, <2>2, <2>3
<1>3. ASSUME NEW r \in Requests, Continue(r)
      PROVE  Fresh(u)' /\ Accounted(u)'
  <2> DEFINE q == req[r]
  <2>0. q \in Request
    BY DEF TypeOK
  <2>1. CASE DeductWrite(r)
    <3> DEFINE e == RowOf(-q.amount, q.snap.balance, q.type, q.reason)
               newRow == DeductedRow(account[q.user], q.snap, q.amount)
    <3>1. /\ q.user \in Users /\ q.snap \in Row /\ q.amount \in Amounts
          /\ q.type \in DeductTypes /\ q.reason \in Reasons
      BY <2>0, <2>1, DeductRequest DEF DeductWrite
    <3>2. e \in Entry
      BY <3>1, DeductedTypes DEF Types, RowReasons
    <3>3. e.before = q.snap.balance /\ e.after = e.before + e.amount /\ e.amount = -q.amount
      BY DEF RowOf
    <3>4. Consumption(e) = q.amount
      <4>1. q.amount \in Nat \ {0}
        BY <3>1, AmountsAssumption
      <4> HIDE DEF e, q
      <4>2. e.amount < 0 /\ -e.amount = q.amount
        BY <3>3, <4>1
      <4> QED BY <4>2 DEF Consumption
    <3>5. account[q.user] = q.snap =>
             /\ newRow.version = q.snap.version + 1 /\ newRow.balance = q.snap.balance - q.amount
             /\ newRow.consumed = q.snap.consumed + q.amount
      BY <3>1 DEF DeductedRow, Row
    <3>6. q.snap.balance - q.amount = q.snap.balance + (-q.amount)
      BY <3>1, AmountsAssumption DEF Row
    <3>7. VersionedWrite(r, newRow, <<e>>) /\ q.step = "deduct"
      BY <2>1 DEF DeductWrite
    <3> HIDE DEF e, newRow, q
    <3> QED BY <3>1, <3>2, <3>3, <3>4, <3>5, <3>6, <3>7, WriteKeepsUser DEF q
  <2>2. CASE AdjustWrite(r)
    <3> DEFINE e == RowOf(q.amount, q.snap.balance, q.type, q.reason)
               newRow == AdjustedRow(account[q.user], q.snap, q.amount, q.type)
    <3>1. /\ q.user \in Users /\ q.snap \in Row /\ q.amount \in Amounts
          /\ q.type \in AdjustTypes /\ q.reason \in Reasons
      BY <2>0, <2>2, AdjustRequest DEF AdjustWrite
    <3>2. e \in Entry
      BY <3>1, AdjustedTypes DEF Types, RowReasons
    <3>3. /\ e.before = q.snap.balance /\ e.after = e.before + e.amount
          /\ e.amount = q.amount /\ e.type = q.type
      BY DEF RowOf
    <3>4. Consumption(e) = IF q.type = "user_refund" THEN -q.amount ELSE 0
      <4>1. q.amount \in Nat \ {0}
        BY <3>1, AmountsAssumption
      <4> HIDE DEF e, q
      <4>2. ~ (e.amount < 0)
        BY <3>3, <4>1
      <4> QED BY <3>3, <4>2 DEF Consumption
    <3>5. account[q.user] = q.snap =>
             /\ newRow.version = q.snap.version + 1 /\ newRow.balance = q.snap.balance + q.amount
             /\ newRow.consumed = q.snap.consumed + Consumption(e)
      BY <3>1, <3>4, AmountsAssumption DEF AdjustedRow, Row
    <3>6. VersionedWrite(r, newRow, <<e>>) /\ q.step = "adjust"
      BY <2>2 DEF AdjustWrite
    <3> HIDE DEF e, newRow, q
    <3> QED BY <3>1, <3>2, <3>3, <3>5, <3>6, WriteKeepsUser DEF q
  <2>3. CASE UpdateWrite(r)
    <3> DEFINE newRow == UpdatedRow(account[q.user], q.snap, q.limit, q.active)
    <3>1. q.user \in Users /\ q.snap \in Row
      BY <2>0, <2>3, UpdateRequest DEF UpdateWrite
    <3>2. account[q.user] = q.snap =>
             /\ newRow.version = q.snap.version + 1 /\ newRow.balance = q.snap.balance
             /\ newRow.consumed = q.snap.consumed
      BY <3>1 DEF UpdatedRow, Row
    <3>3. VersionedWrite(r, newRow, <<>>) /\ q.step = "update"
      BY <2>3 DEF UpdateWrite
    <3> HIDE DEF newRow
    <3> QED BY <3>1, <3>2, <3>3, WriteKeepsUser
  <2>4. CASE DropUser(r)
    <3>1. q.user \in Users
      BY <2>0, <2>4, UserRequest DEF DropUser
    <3>2. /\ req'[r].step \notin Copies
          /\ \A s \in Requests : s # r => req'[s] = req[s]
      BY <2>4 DEF DropUser, Goto, TypeOK
    <3>3. CASE q.user = u
      <4>1. account'[u] = NoUser
        BY <2>4, <3>3 DEF DropUser, TypeOK
      <4> QED BY <4>1 DEF Fresh, Accounted, NotAhead
    <3>4. CASE q.user # u
      <4>1. account'[u] = account[u] /\ ledger'[u] = ledger[u]
        BY <2>4, <3>1, <3>4 DEF DropUser, TypeOK
      <4> QED BY <1>1, <3>2, <4>1
    <3> QED BY <3>3, <3>4
  <2>5. CASE Invalidate(r) \/ PurgeRows(r) \/ FillCache(r)
    <3>1. /\ UNCHANGED <<account, ledger>> /\ req'[r].step \notin Copies
          /\ \A s \in Requests : s # r => req'[s] = req[s]
      BY <2>5 DEF Invalidate, PurgeRows, FillCache, Goto, Idle, TypeOK
    <3> QED BY <1>1, <3>1
  <2>6. CASE ReadFound(r)
    <3>1. q.user \in Users
      BY <2>0, <2>6, UserRequest DEF ReadFound
    <3>2. UNCHANGED <<account, ledger>> /\ \A s \in Requests : s # r => req'[s] = req[s]
      BY <2>6 DEF ReadFound, Goto, TypeOK
    <3>3. \/ req'[r].step \notin Copies
          \/ req'[r].user = q.user /\ req'[r].snap = account[q.user] /\ account[q.user] \in Row
      BY <2>6, <3>1 DEF ReadFound, Goto, Idle, TypeOK
    <3> QED BY <1>1, <3>2, <3>3
  <2> QED BY <1>3, <2>1, <2>2, <2>3, <2>4, <2>5, <2>6 DEF Continue
<1>4. ASSUME NEW r \in Requests, Abandon(r) PROVE Fresh(u)' /\ Accounted(u)'
  <2>1. /\ UNCHANGED <<account, ledger>> /\ req'[r].step \notin Copies
        /\ \A s \in Requests : s # r => req'[s] = req[s]
    BY <1>4 DEF Abandon, Goto, Idle, TypeOK
  <2> QED BY <1>1, <2>1
<1>5. CASE (\E v \in Users : CacheExpire(v)) \/ UNCHANGED walletVars
  BY <1>1, <1>5 DEF CacheExpire, walletVars
<1> QED BY <1>2, <1>3, <1>4, <1>5 DEF WalletNext

\* A completion writes the next version, and the balance it adds up to, if
\* the row is as it read it; and if not it says so.
LEMMA CommitKeepsUser ==
    ASSUME OrdersTypeOK, NEW j \in Jobs, Commit(j),
           NEW u \in Users \ overwritten', Fresh(u), Accounted(u)
    PROVE  Fresh(u)' /\ Accounted(u)'
<1> DEFINE paid == job[j].row
           snap == job[j].snap
           e == RowOf(paid.amount, snap.balance, TopupType(paid.type), job[j].order)
           newRow == ToppedUp(snap, paid.amount)
<1>1. paid \in OrderRow /\ snap \in Row /\ job[j].order \in OrderIds
  BY JobShape DEF Commit, OrdersTypeOK
<1>2. /\ account' = [account EXCEPT ![paid.user] = newRow]
      /\ ledger' = [ledger EXCEPT ![paid.user] = Append(@, e)]
      /\ overwritten' = IF snap = account[paid.user] THEN overwritten
                                                     ELSE overwritten \union {paid.user}
      /\ UNCHANGED req
  BY DEF Commit, Credited
<1>3. /\ paid.user \in Users /\ paid.amount \in Nat /\ snap.balance \in Int
      /\ snap.consumed \in Int
      /\ TopupType(paid.type) \in Types /\ TopupType(paid.type) # "user_refund"
  BY <1>1, AmountsAssumption DEF OrderRow, Row, TopupType, Types, TopupTypes
<1>4. /\ e \in Entry /\ e.before = snap.balance /\ e.after = e.before + e.amount
      /\ e.amount = paid.amount /\ e.type = TopupType(paid.type)
  BY <1>1, <1>3 DEF RowOf, Entry, RowReasons
<1>5. /\ newRow.balance = snap.balance + paid.amount
      /\ newRow.consumed = snap.consumed /\ newRow.version = snap.version + 1
  BY <1>1 DEF ToppedUp, Row
<1> HIDE DEF e, newRow, paid
<1>6. Consumption(e) = 0
  <2>1. ~ (e.amount < 0)
    BY <1>3, <1>4
  <2> QED BY <1>3, <1>4, <2>1 DEF Consumption
<1>7. CASE paid.user # u
  <2>1. account'[u] = account[u] /\ ledger'[u] = ledger[u]
    BY <1>2, <1>7 DEF OrdersTypeOK, TypeOK
  <2> QED BY <1>2, <2>1 DEF Fresh, Accounted, NotAhead, AccountedFor, Joined, EndOf
<1>8. CASE paid.user = u
  <2>1. account[u] = snap /\ account[u] # NoUser
    BY <1>1, <1>2, <1>8, NoUserAssumption
  <2>2. account'[u] = newRow /\ ledger[u] \in Seq(Entry) /\ ledger'[u] = ledger[u] \o <<e>>
    <3>1. ledger[u] \in Seq(Entry) /\ ledger'[u] = Append(ledger[u], e)
      BY <1>2, <1>8 DEF OrdersTypeOK, TypeOK
    <3> QED BY <1>2, <1>4, <1>8, <3>1 DEF OrdersTypeOK, TypeOK
  <2>3. AccountedFor(newRow, ledger[u] \o <<e>>)
    <3>1. newRow.consumed = snap.consumed + 0
      BY <1>3, <1>5
    <3> QED BY <1>4, <1>5, <1>6, <2>1, <2>2, <3>1, EntryAccounted DEF Accounted
  <2>4. ASSUME NEW s \in Requests, req[s].user = u,
               req[s].step \in {"deduct", "adjust", "update", "fill"}
        PROVE  NotAhead(req[s].snap, newRow)
    <3>1. req[s].snap \in Row
      BY <2>4, CopyIsRow DEF OrdersTypeOK, TypeOK
    <3>2. NotAhead(req[s].snap, snap)
      BY <2>1, <2>4 DEF Fresh
    <3> QED BY <1>1, <1>5, <3>1, <3>2, NextVersion
  <2> QED BY <1>2, <2>2, <2>3, <2>4 DEF Fresh, Accounted, NotAhead, AccountedFor, Joined, EndOf
<1> QED BY <1>7, <1>8

\* Each step keeps what is known of the users it does not overwrite.
LEMMA StepKeepsUser ==
    ASSUME OrdersTypeOK, [Next]_vars, NEW u \in Users \ overwritten',
           u \notin overwritten => Fresh(u) /\ Accounted(u)
    PROVE  Fresh(u)' /\ Accounted(u)'
<1>1. CASE WalletStep
  BY <1>1, WalletKeepsUser DEF WalletStep, orderVars, OrdersTypeOK
<1>2. ASSUME NEW j \in Jobs, Commit(j) PROVE Fresh(u)' /\ Accounted(u)'
  <2>1. u \notin overwritten
    BY <1>2 DEF Commit, Credited
  <2> QED BY <1>2, <2>1, CommitKeepsUser
<1>3. CASE UNCHANGED <<walletVars, overwritten>>
  BY <1>3, WalletKeepsUser DEF OrdersTypeOK
<1>4. CASE \/ \E o \in OrderIds, v \in Users, amount \in Amounts, type \in OrderTypes :
                 CreateOrder(o, v, amount, type)
           \/ \E j \in Jobs, o \in OrderIds :
                 AdminComplete(j, o) \/ Notify(j, o) \/ CancelRead(j, o)
           \/ \E j \in Jobs :
                 NotifyComplete(j) \/ SaveOrder(j) \/ ReadUser(j) \/ SaveUser(j)
                 \/ CancelWrite(j) \/ AbandonJob(j)
           \/ UNCHANGED vars
  <2>1. UNCHANGED <<walletVars, overwritten>>
    BY <1>4 DEF CreateOrder, AdminComplete, ReadPending, ReadRefused, Notify,
                CancelRead, NotifyComplete, SaveOrder, ReadUser, SaveUser, CancelWrite,
                AbandonJob, vars, orderVars
  <2> QED BY <1>3, <2>1
<1> QED BY <1>1, <1>2, <1>4 DEF Next, ContinueJob

\* A write of a user is lost only to a top-up that commits after another write
\* it has not seen: the balance and total_consumed of all others are what their
\* transactions add up to, under every interleaving of debits, refunds,
\* updates, deletions, completions and failures (order_service.go:107-118,
\* user_service.go:76-90).
THEOREM OrdersLostOnlyByOverwriting == Spec => []LostOnlyByOverwriting
<1> DEFINE Inv == \A u \in Users : u \notin overwritten => Fresh(u) /\ Accounted(u)
<1>1. Init => Inv
  <2>1. EndOf(<<>>) = 0 /\ Joined(<<>>)
    BY DEF EndOf, Joined
  <2> QED BY <2>1, ConsumedNothing
          DEF Init, WalletInit, NewRow, Fresh, Accounted, AccountedFor, Idle
<1>2. OrdersTypeOK /\ Inv /\ [Next]_vars => Inv'
  BY StepKeepsUser
<1>3. Inv => LostOnlyByOverwriting
  BY DEF LostOnlyByOverwriting, Accounted, AccountedFor
<1> HIDE DEF Inv
<1> QED BY <1>1, <1>2, <1>3, OrdersTypes, PTL DEF Spec

-----------------------------------------------------------------------------
(* Every step of Payments is a step of Orders, or leaves it alone.         *)

\* A job answers a callback for an order, or none.
CallbacksName == callback \in [Jobs -> OrderIds \union {NoOrder}]

\* Every step leaves callbacks naming the orders of their jobs.
LEMMA CallbackStep ==
    ASSUME CallbacksName, [PaymentsNext]_paymentsVars
    PROVE  CallbacksName'
<1>1. CASE UNCHANGED callback
  BY <1>1 DEF CallbacksName
<1>2. ASSUME NEW j \in Jobs, NEW o \in OrderIds, Deliver(j, o) PROVE CallbacksName'
  BY <1>2 DEF Deliver, CallbacksName
<1>3. ASSUME NEW j \in Jobs, AnswerCallback(j) \/ JobFails(j) PROVE CallbacksName'
  BY <1>3 DEF AnswerCallback, JobFails, CallbacksName
<1>4. CASE AdminStep \/ MethodStep \/ UNCHANGED paymentsVars
  BY <1>1, <1>4 DEF AdminStep, MethodStep, CreateMethod, BeginEdit, WriteEdit,
                    DeleteMethod, payVars, paymentsVars
<1>5. CASE CustomerStep
  BY <1>1, <1>5 DEF CustomerStep, PickMethod, PlaceOrder, JumpToGateway,
                    JumpRefused, CustomerLeaves
<1>6. CASE \/ \E o \in OrderIds : PayAtGateway(o)
           \/ \E j \in Jobs : StoreExternal(j)
  BY <1>1, <1>6 DEF PayAtGateway, StoreExternal, payVars
<1> QED BY <1>2, <1>3, <1>4, <1>5, <1>6 DEF PaymentsNext, JobStep

\* Every step of Payments is a step of Orders, or leaves its tables alone.
LEMMA StepsOfOrders ==
    ASSUME CallbacksName, [PaymentsNext]_paymentsVars
    PROVE  [Next]_vars
<1>1. CASE UNCHANGED paymentsVars
  BY <1>1 DEF paymentsVars
<1>2. CASE AdminStep
  BY <1>2 DEF AdminStep, Next, OrderTypes
<1>3. CASE MethodStep
  <2>1. UNCHANGED vars
    BY <1>3 DEF MethodStep, CreateMethod, BeginEdit, WriteEdit, DeleteMethod
  <2> QED BY <2>1
<1>4. CASE CustomerStep
  <2>1. ASSUME NEW c \in Customers, NEW o \in OrderIds, NEW u \in Users,
               NEW amount \in Amounts, PlaceOrder(c, o, u, amount)
        PROVE  Next
    BY <2>1 DEF PlaceOrder, Next, OrderTypes
  <2>2. ASSUME NEW c \in Customers,
               \/ \E m \in Methods : PickMethod(c, m)
               \/ JumpToGateway(c) \/ JumpRefused(c) \/ CustomerLeaves(c)
        PROVE  UNCHANGED vars
    BY <2>2 DEF PickMethod, JumpToGateway, JumpRefused, CustomerLeaves
  <2> QED BY <1>4, <2>1, <2>2 DEF CustomerStep
<1>5. ASSUME NEW o \in OrderIds,
             PayAtGateway(o) \/ \E j \in Jobs : Deliver(j, o)
      PROVE  UNCHANGED vars
  BY <1>5 DEF PayAtGateway, Deliver
<1>6. ASSUME NEW j \in Jobs, JobFails(j) \/ (ContinueJob(j) /\ AnswerCallback(j))
      PROVE  Next
  BY <1>6 DEF JobFails, Next
<1>7. ASSUME NEW j \in Jobs, StoreExternal(j) PROVE Next
  <2>1. callback[j] \in OrderIds /\ Notify(j, callback[j])
    BY <1>7 DEF StoreExternal, CallbacksName
  <2> QED BY <2>1 DEF Next
<1> QED BY <1>1, <1>2, <1>3, <1>4, <1>5, <1>6, <1>7 DEF PaymentsNext, JobStep

\* The gateway and the payment methods add no behaviour to the orders and the
\* users (payment_service.go:148-184 ends in CompleteOrder).
THEOREM PaymentsImplementOrders == PaymentsSpec => Spec
<1>1. PaymentsInit => Init /\ CallbacksName
  BY DEF PaymentsInit, CallbacksName
<1>2. CallbacksName /\ [PaymentsNext]_paymentsVars => CallbacksName' /\ [Next]_vars
  BY CallbackStep, StepsOfOrders
<1> QED BY <1>1, <1>2, PTL DEF PaymentsSpec, Spec

\* Every variable of Orders stays in its set under Payments.
THEOREM PaymentsOrdersTypes == PaymentsSpec => []OrdersTypeOK
BY PaymentsImplementOrders, OrdersTypes, PTL

\* The gateway's callbacks and the payments add no circle of waits.
THEOREM PaymentsWaitsEnd == PaymentsSpec => []WaitsEnd
BY PaymentsImplementOrders, OrdersWaitsEnd, PTL

-----------------------------------------------------------------------------
(* Deleted methods.                                                        *)

MethodTable == method = [m \in Methods |-> method[m]] /\ deleted \subseteq Methods

\* Every step leaves the rows of deleted methods gone.
LEMMA DeletedStep ==
    ASSUME MethodTable, DeletedMethodsStay, [PaymentsNext]_paymentsVars
    PROVE  MethodTable' /\ DeletedMethodsStay'
<1>1. CASE UNCHANGED <<method, deleted>>
  BY <1>1 DEF MethodTable, DeletedMethodsStay
<1>2. ASSUME NEW m \in Methods, NEW config \in Configs, CreateMethod(m, config)
      PROVE  MethodTable' /\ DeletedMethodsStay'
  BY <1>2 DEF CreateMethod, MethodTable, DeletedMethodsStay
<1>3. ASSUME NEW e \in Editors, WriteEdit(e)
      PROVE  MethodTable' /\ DeletedMethodsStay'
  <2>1. \A m \in Methods : method'[m] = method[m]
                            \/ method'[m] = Written(editor[e], method[m])
    BY <1>3 DEF WriteEdit, MethodTable
  <2>2. Written(editor[e], NoMethod) = NoMethod
    BY DEF Written
  <2> QED BY <1>3, <2>1, <2>2 DEF WriteEdit, MethodTable, DeletedMethodsStay
<1>4. ASSUME NEW m \in Methods, DeleteMethod(m)
      PROVE  MethodTable' /\ DeletedMethodsStay'
  BY <1>4 DEF DeleteMethod, MethodTable, DeletedMethodsStay
<1>5. CASE \E e \in Editors, m \in Methods :
              \/ \E config \in Configs : BeginEdit(e, m, config, Keep)
              \/ \E enabled \in BOOLEAN : BeginEdit(e, m, Keep, enabled)
  BY <1>1, <1>5 DEF BeginEdit
<1>6. CASE \/ AdminStep \/ CustomerStep \/ UNCHANGED paymentsVars
           \/ \E o \in OrderIds : PayAtGateway(o) \/ \E j \in Jobs : Deliver(j, o)
           \/ \E j \in Jobs : JobStep(j) \/ JobFails(j)
  BY <1>1, <1>6 DEF AdminStep, CustomerStep, PickMethod, PlaceOrder, JumpToGateway,
                    JumpRefused, CustomerLeaves, PayAtGateway, Deliver, JobStep,
                    StoreExternal, AnswerCallback, JobFails, methodVars, paymentsVars
<1> QED BY <1>2, <1>3, <1>4, <1>5, <1>6 DEF PaymentsNext, MethodStep

\* No update that has read a method brings it back once it is deleted
\* (payment_service.go:59-83).
THEOREM PaymentsDeletedMethodsStay == PaymentsSpec => []DeletedMethodsStay
<1>1. PaymentsInit => MethodTable /\ DeletedMethodsStay
  BY DEF PaymentsInit, MethodTable, DeletedMethodsStay
<1>2. MethodTable /\ DeletedMethodsStay /\ [PaymentsNext]_paymentsVars
         => MethodTable' /\ DeletedMethodsStay'
  BY DeletedStep
<1> QED BY <1>1, <1>2, PTL DEF PaymentsSpec

-----------------------------------------------------------------------------
(* What the gateway is told.                                               *)

\* A user of the gateway's page, an update and a bill are what they should be.
PayTypes ==
    /\ CallbacksName
    /\ method \in [Methods -> MethodRow \union {NoMethod}]
    /\ editor \in [Editors -> {Idle} \union
          [step : {"update"}, method : Methods, row : MethodRow,
           config : Configs \union {Keep}, enabled : BOOLEAN \union {Keep}]]
    /\ customer \in [Customers -> {Idle} \union [step : {"picked"}, method : Methods]
          \union [step : {"jump"}, order : OrderIds, method : Methods]]
    /\ bill \in [OrderIds -> Bill \union {NoBill}]
    /\ \A j \in Jobs : callback[j] # NoOrder => bill[callback[j]] # NoBill

\* The gateway's view of at most one order changes, and it hears "success" when
\* the job that answers its callback commits.
LEMMA BillChanges ==
    ASSUME PayTypes, [PaymentsNext]_paymentsVars
    PROVE  \/ bill' = bill
           \/ \E o \in OrderIds, b \in Bill :
                 /\ bill' = [bill EXCEPT ![o] = b]
                 /\ b.status = "acknowledged" =>
                       \E j \in Jobs : callback[j] = o /\ ContinueJob(j) /\ Answers(j)
                                      /\ callback[j] # NoOrder
<1>1. Idle.step = "idle"
  BY DEF Idle
<1>2. ASSUME NEW c \in Customers, JumpToGateway(c)
      PROVE  \E o \in OrderIds, b \in Bill :
                bill' = [bill EXCEPT ![o] = b] /\ b.status = "open"
  <2>1. PICK m \in Methods, o \in OrderIds :
           m = customer[c].method /\ o = customer[c].order
    BY <1>1, <1>2 DEF JumpToGateway, PayTypes
  <2>2. method[m] \in MethodRow /\ method[m].config \in Accounts
    BY <1>2, <2>1 DEF JumpToGateway, Configured, PayTypes, MethodRow, Configs
  <2>3. PICK b : b = [status |-> "open", method |-> m, account |-> method[m].config]
    OBVIOUS
  <2>4. b \in Bill /\ b.status = "open" /\ bill' = [bill EXCEPT ![o] = b]
    BY <1>2, <2>1, <2>2, <2>3 DEF JumpToGateway, Bill
  <2> QED BY <2>4
<1>3. ASSUME NEW o \in OrderIds, bill[o] \in Bill, NEW status \in {"paid", "acknowledged"},
             bill' = [bill EXCEPT ![o].status = status]
      PROVE  \E b \in Bill : bill' = [bill EXCEPT ![o] = b] /\ b.status = status
  <2>1. PICK b : b = [bill[o] EXCEPT !.status = status]
    OBVIOUS
  <2>2. b \in Bill /\ b.status = status
    BY <1>3, <2>1 DEF Bill
  <2>3. bill' = [bill EXCEPT ![o] = b]
    BY <1>3, <2>1
  <2> QED BY <2>2, <2>3
<1>4. ASSUME NEW o \in OrderIds, PayAtGateway(o)
      PROVE  \E b \in Bill : bill' = [bill EXCEPT ![o] = b] /\ b.status = "paid"
  <2>1. bill[o] \in Bill /\ bill' = [bill EXCEPT ![o].status = "paid"]
    BY <1>4 DEF PayAtGateway, PayTypes
  <2> QED BY <1>3, <2>1
<1>5. ASSUME NEW j \in Jobs, ContinueJob(j), AnswerCallback(j), bill' # bill
      PROVE  \E o \in OrderIds, b \in Bill :
                /\ bill' = [bill EXCEPT ![o] = b]
                /\ callback[j] = o /\ Answers(j) /\ callback[j] # NoOrder
  <2>1. /\ callback[j] # NoOrder /\ Answers(j)
        /\ bill' = [bill EXCEPT ![callback[j]].status = "acknowledged"]
    BY <1>5 DEF AnswerCallback
  <2>2. PICK o \in OrderIds : o = callback[j]
    BY <2>1 DEF PayTypes, CallbacksName
  <2>3. bill[o] \in Bill
    BY <2>1, <2>2 DEF PayTypes
  <2> QED BY <1>3, <2>1, <2>2, <2>3
<1>6. CASE \/ AdminStep \/ MethodStep \/ UNCHANGED paymentsVars
           \/ \E j \in Jobs : StoreExternal(j) \/ JobFails(j)
                             \/ \E o \in OrderIds : Deliver(j, o)
  BY <1>6 DEF AdminStep, MethodStep, CreateMethod, BeginEdit, WriteEdit, DeleteMethod,
              StoreExternal, JobFails, Deliver, payVars, paymentsVars
<1>7. CASE CustomerStep
  BY <1>2, <1>7 DEF CustomerStep, PickMethod, PlaceOrder, JumpRefused, CustomerLeaves
<1> QED BY <1>4, <1>5, <1>6, <1>7 DEF PaymentsNext, JobStep

\* Updates and the page keep them so.
LEMMA PayStepTypes ==
    ASSUME PayTypes, [PaymentsNext]_paymentsVars
    PROVE  PayTypes'
<1>1. /\ CallbacksName'
      /\ bill' \in [OrderIds -> Bill \union {NoBill}]
      /\ \A j \in Jobs : callback'[j] # NoOrder => bill'[callback'[j]] # NoBill
  <2>1. CallbacksName'
    BY CallbackStep DEF PayTypes
  <2>2. /\ bill' \in [OrderIds -> Bill \union {NoBill}]
        /\ \A o \in OrderIds : bill[o] # NoBill => bill'[o] # NoBill
    BY BillChanges, NoBillAssumption DEF PayTypes
  <2>3. \A j \in Jobs :
           \/ callback'[j] = callback[j] \/ callback'[j] = NoOrder
           \/ callback'[j] \in OrderIds /\ bill[callback'[j]] # NoBill
    <3>1. CASE callback' = callback
      BY <3>1
    <3>2. CASE \E j \in Jobs, o \in OrderIds : Deliver(j, o)
      BY <3>2 DEF Deliver, Paid, PayTypes, CallbacksName
    <3>3. CASE \E j \in Jobs : AnswerCallback(j) \/ JobFails(j)
      BY <3>3 DEF AnswerCallback, JobFails, PayTypes, CallbacksName
    <3>4. CASE \/ AdminStep \/ MethodStep \/ CustomerStep \/ UNCHANGED paymentsVars
               \/ \E o \in OrderIds : PayAtGateway(o)
               \/ \E j \in Jobs : StoreExternal(j)
      BY <3>1, <3>4
      DEF AdminStep, MethodStep, CreateMethod, BeginEdit, WriteEdit, DeleteMethod,
          CustomerStep, PickMethod, PlaceOrder, JumpToGateway, JumpRefused,
          CustomerLeaves, PayAtGateway, StoreExternal, payVars, paymentsVars
    <3> QED BY <3>2, <3>3, <3>4 DEF PaymentsNext, JobStep
  <2> QED BY <2>1, <2>2, <2>3 DEF PayTypes, CallbacksName
<1>2. Idle.step = "idle"
  BY DEF Idle
<1>3. CASE UNCHANGED <<method, editor, customer>>
  BY <1>1, <1>3 DEF PayTypes
<1>4. CASE MethodStep
  <2>1. ASSUME NEW m \in Methods, NEW config \in Configs, CreateMethod(m, config)
        PROVE  PayTypes'
    <3>1. [config |-> config, enabled |-> TRUE] \in MethodRow
      BY DEF MethodRow
    <3> QED BY <1>1, <2>1, <3>1 DEF CreateMethod, PayTypes, payVars
  <2>2. ASSUME NEW e \in Editors, NEW m \in Methods, NEW config \in Configs \union {Keep},
               NEW enabled \in BOOLEAN \union {Keep}, BeginEdit(e, m, config, enabled)
        PROVE  PayTypes'
    <3>1. method[m] \in MethodRow
      BY <2>2 DEF BeginEdit, PayTypes
    <3> QED BY <1>1, <2>2, <3>1 DEF BeginEdit, PayTypes, payVars
  <2>3. ASSUME NEW m \in Methods, DeleteMethod(m) PROVE PayTypes'
    BY <1>1, <2>3 DEF DeleteMethod, PayTypes, payVars
  <2>4. ASSUME NEW e \in Editors, WriteEdit(e) PROVE PayTypes'
    <3> DEFINE q == editor[e]
    <3>1. /\ q.method \in Methods /\ q.config \in Configs \union {Keep}
          /\ q.enabled \in BOOLEAN \union {Keep}
      BY <2>4 DEF WriteEdit, PayTypes
    <3>2. ASSUME NEW row \in MethodRow
          PROVE  Written(q, row) \in MethodRow \union {NoMethod}
      <4>1. Given(q.config, row.config) \in Configs
        BY <3>1 DEF Given, MethodRow
      <4>2. Given(q.enabled, row.enabled) \in BOOLEAN
        BY <3>1 DEF Given, MethodRow
      <4> QED BY <4>1, <4>2 DEF Written, MethodRow
    <3>3. Written(q, NoMethod) = NoMethod
      BY DEF Written
    <3>4. Written(q, method[q.method]) \in MethodRow \union {NoMethod}
      BY <3>1, <3>2, <3>3 DEF PayTypes
    <3>5. /\ method' = [method EXCEPT ![q.method] = Written(q, @)]
          /\ editor' = [editor EXCEPT ![e] = Idle] /\ UNCHANGED customer
      BY <2>4 DEF WriteEdit, payVars
    <3> HIDE DEF q
    <3> QED BY <1>1, <3>1, <3>4, <3>5 DEF PayTypes
  <2> QED BY <1>4, <2>1, <2>2, <2>3, <2>4 DEF MethodStep
<1>5. CASE CustomerStep
  <2>1. ASSUME NEW c \in Customers,
               \/ \E m \in Methods : PickMethod(c, m)
               \/ \E o \in OrderIds, u \in Users, amount \in Amounts :
                     PlaceOrder(c, o, u, amount)
               \/ JumpToGateway(c) \/ JumpRefused(c) \/ CustomerLeaves(c)
        PROVE  PayTypes'
    <3>1. CASE \E m \in Methods : PickMethod(c, m)
      BY <1>1, <3>1 DEF PickMethod, PayTypes, methodVars
    <3>2. CASE \E o \in OrderIds, u \in Users, amount \in Amounts :
                  PlaceOrder(c, o, u, amount)
      <4>1. PICK o \in OrderIds, u \in Users, amount \in Amounts :
               PlaceOrder(c, o, u, amount)
        BY <3>2
      <4>2. customer[c].method \in Methods
        BY <1>2, <4>1 DEF PlaceOrder, PayTypes
      <4> QED BY <1>1, <4>1, <4>2 DEF PlaceOrder, PayTypes, methodVars
    <3>3. CASE JumpToGateway(c) \/ JumpRefused(c) \/ CustomerLeaves(c)
      BY <1>1, <3>3 DEF JumpToGateway, JumpRefused, CustomerLeaves, PayTypes, methodVars
    <3> QED BY <2>1, <3>1, <3>2, <3>3
  <2> QED BY <1>5, <2>1 DEF CustomerStep
<1>6. CASE \/ AdminStep \/ UNCHANGED paymentsVars
           \/ \E o \in OrderIds : PayAtGateway(o) \/ \E j \in Jobs : Deliver(j, o)
           \/ \E j \in Jobs : JobStep(j) \/ JobFails(j)
  BY <1>3, <1>6 DEF AdminStep, PayAtGateway, Deliver, JobStep, StoreExternal,
                    AnswerCallback, JobFails, methodVars, payVars, paymentsVars
<1> QED BY <1>4, <1>5, <1>6 DEF PaymentsNext

\* A job that answers a callback works on its order, and what is acknowledged
\* is credited.
Acknowledged ==
    /\ \A j \in Jobs :
          callback[j] # NoOrder /\ job[j].step # "idle" => job[j].order = callback[j]
    /\ \A o \in OrderIds :
          bill[o] # NoBill /\ bill[o].status = "acknowledged" =>
             order[o] # NoOrder /\ Topups(ledger[order[o].user], o) # {}

\* The answer goes out with the commit that credits the order.
LEMMA AcknowledgedStep ==
    ASSUME "delete" \notin Operations, OrdersTypeOK, JobOrders, NobodyGoes,
           PayTypes, Acknowledged, [PaymentsNext]_paymentsVars
    PROVE  Acknowledged'
<1>1. CreditsStay
  BY StepsOfOrders, CreditsStayStep DEF PayTypes
<1>2. Idle.step = "idle"
  BY DEF Idle
<1>3. \A j \in Jobs :
         callback'[j] # NoOrder /\ job'[j].step # "idle" => job'[j].order = callback'[j]
  <2>1. ASSUME callback' = callback,
               \A k \in Jobs : \/ job'[k] = job[k]
                               \/ callback[k] = NoOrder
                               \/ job'[k].step # "idle" => job'[k].order = callback[k]
        PROVE  \A k \in Jobs :
                  callback'[k] # NoOrder /\ job'[k].step # "idle" =>
                     job'[k].order = callback'[k]
    BY <2>1 DEF Acknowledged
  <2>2. CASE AdminStep
    <3>1. CASE \/ WalletStep
               \/ \E o \in OrderIds, u \in Users, amount \in Amounts :
                     CreateOrder(o, u, amount, "manual")
      <4>1. job' = job /\ callback' = callback
        BY <2>2, <3>1 DEF AdminStep, WalletStep, CreateOrder, orderVars, payVars
      <4> QED BY <2>1, <4>1
    <3>2. ASSUME NEW j \in Jobs, NEW o \in OrderIds, callback[j] = NoOrder,
                 AdminComplete(j, o) \/ CancelRead(j, o)
          PROVE  \A k \in Jobs : job'[k] = job[k] \/ callback[k] = NoOrder
      BY <3>2 DEF AdminComplete, ReadPending, CancelRead, JobTo, OrdersTypeOK
    <3>3. callback' = callback
      BY <2>2 DEF AdminStep, payVars
    <3> QED BY <2>1, <2>2, <3>1, <3>2, <3>3 DEF AdminStep
  <2>3. CASE MethodStep \/ CustomerStep \/ UNCHANGED paymentsVars
             \/ \E o \in OrderIds : PayAtGateway(o)
    <3>1. job' = job /\ callback' = callback
      BY <2>3 DEF MethodStep, CreateMethod, BeginEdit, WriteEdit, DeleteMethod,
         CustomerStep, PickMethod, PlaceOrder, CreateOrder, JumpToGateway, JumpRefused,
         CustomerLeaves, PayAtGateway, vars, orderVars, payVars, paymentsVars
    <3> QED BY <2>1, <3>1
  <2>4. ASSUME NEW j \in Jobs, NEW o \in OrderIds, Deliver(j, o)
        PROVE  \A k \in Jobs :
                  callback'[k] # NoOrder /\ job'[k].step # "idle" =>
                     job'[k].order = callback'[k]
    <3>1. /\ job' = job /\ job[j].step = "idle"
          /\ \A k \in Jobs : k # j => callback'[k] = callback[k]
      BY <1>2, <2>4 DEF Deliver, vars, orderVars, PayTypes, CallbacksName
    <3> QED BY <3>1 DEF Acknowledged
  <2>5. ASSUME NEW j \in Jobs, StoreExternal(j)
        PROVE  \A k \in Jobs :
                  callback'[k] # NoOrder /\ job'[k].step # "idle" =>
                     job'[k].order = callback'[k]
    <3>1. /\ callback' = callback
          /\ JobTo(j, [step |-> "read_order", order |-> callback[j]])
      BY <2>5 DEF StoreExternal, Notify, payVars
    <3>2. /\ job'[j].order = callback[j]
          /\ \A k \in Jobs : k # j => job'[k] = job[k]
      BY <3>1, OthersStay
    <3> QED BY <2>1, <3>1, <3>2
  <2>6. ASSUME NEW j \in Jobs, JobFails(j) \/ (ContinueJob(j) /\ AnswerCallback(j))
        PROVE  \A k \in Jobs :
                  callback'[k] # NoOrder /\ job'[k].step # "idle" =>
                     job'[k].order = callback'[k]
    <3>1. PICK state : /\ JobTo(j, state) /\ job[j].step # "idle"
                       /\ state = Idle \/ state.order = job[j].order
      <4>1. CASE JobFails(j)
        BY <1>2, <4>1 DEF JobFails, AbandonJob, OrdersTypeOK, Job, Idle
      <4>2. CASE SaveOrder(j)
        <5>1. job[j] \in Job
          BY DEF OrdersTypeOK
        <5>2. [job[j] EXCEPT !.step = "read_user"].order = job[j].order
          BY <4>2, <5>1 DEF SaveOrder, Job, Idle
        <5> QED BY <4>2, <5>2 DEF SaveOrder
      <4>3. CASE NotifyComplete(j) \/ ReadUser(j) \/ Commit(j) \/ CancelWrite(j)
        BY <4>3 DEF NotifyComplete, ReadPending, ReadRefused, ReadUser, Commit,
                    CancelWrite
      <4>4. CASE SaveUser(j)
        <5>1. job[j] \in Job
          BY DEF OrdersTypeOK
        <5>2. [job[j] EXCEPT !.step = "commit"].order = job[j].order
          BY <4>4, <5>1 DEF SaveUser, Job, Idle
        <5> QED BY <4>4, <5>2 DEF SaveUser
      <4> QED BY <2>6, <4>1, <4>2, <4>3, <4>4 DEF ContinueJob
    <3>2. job'[j] = state /\ \A k \in Jobs : k # j => job'[k] = job[k]
      BY <3>1, OthersStay
    <3>3. /\ callback'[j] = IF job'[j] = Idle THEN NoOrder ELSE callback[j]
          /\ \A k \in Jobs : k # j => callback'[k] = callback[k]
      <4>1. CASE JobFails(j)
        <5>1. job'[j] = Idle
          BY <4>1, OthersStay DEF JobFails, AbandonJob
        <5> QED BY <4>1, <5>1 DEF JobFails, PayTypes, CallbacksName
      <4>2. CASE AnswerCallback(j)
        BY <4>2 DEF AnswerCallback, PayTypes, CallbacksName
      <4> QED BY <2>6, <4>1, <4>2
    <3> QED BY <1>2, <3>1, <3>2, <3>3 DEF Acknowledged
  <2> QED BY <2>2, <2>3, <2>4, <2>5, <2>6 DEF PaymentsNext, JobStep
<1>4. ASSUME NEW o \in OrderIds, order[o] # NoOrder, Topups(ledger[order[o].user], o) # {}
      PROVE  order'[o] # NoOrder /\ Topups(ledger'[order'[o].user], o) # {}
  <2>1. order'[o] # NoOrder /\ order'[o].user = order[o].user /\ order[o].user \in Users
    BY <1>1, <1>4 DEF CreditsStay, OrdersTypeOK, OrderRow
  <2>2. PICK u \in Users : u = order[o].user
    BY <2>1
  <2>3. Topups(ledger[u], o) # {} /\ Topups(ledger[u], o) \subseteq Topups(ledger'[u], o)
    BY <1>1, <1>4, <2>2 DEF CreditsStay
  <2>4. Topups(ledger'[u], o) # {}
    BY <2>3
  <2>5. order'[o].user = u
    BY <2>1, <2>2
  <2> QED BY <2>1, <2>4, <2>5
<1>5. ASSUME NEW j \in Jobs, NEW o \in OrderIds, callback[j] = o, callback[j] # NoOrder,
             ContinueJob(j), Answers(j)
      PROVE  order'[o] # NoOrder /\ Topups(ledger'[order'[o].user], o) # {}
  <2>1. Commit(j)
    BY <1>5 DEF ContinueJob, NotifyComplete, SaveOrder, ReadUser, SaveUser, CancelWrite,
                Answers
  <2>2. PICK u, p, saved, n : CommitAdds(j, u, p, saved, n)
    BY <2>1, CommitsAdd
  <2>3. /\ u \in Users /\ p \in OrderIds /\ saved \in OrderRow /\ p = job[j].order
        /\ saved.user = u /\ order' = [order EXCEPT ![p] = saved]
        /\ n \in Topups(ledger'[u], p)
    BY <2>2 DEF CommitAdds
  <2>4. p = o
    BY <1>5, <2>1, <2>3 DEF Acknowledged, Commit
  <2>5. order'[o] = saved /\ saved # NoOrder
    BY <2>3, <2>4, NoOrderAssumption DEF OrdersTypeOK
  <2>6. Topups(ledger'[u], o) # {}
    BY <2>3, <2>4
  <2>7. order'[o].user = u
    BY <2>3, <2>5
  <2> QED BY <2>5, <2>6, <2>7
<1>6. ASSUME NEW o \in OrderIds, bill'[o] # NoBill, bill'[o].status = "acknowledged"
      PROVE  order'[o] # NoOrder /\ Topups(ledger'[order'[o].user], o) # {}
  <2>1. \/ bill'[o] = bill[o]
        \/ \E j \in Jobs : callback[j] = o /\ callback[j] # NoOrder
                           /\ ContinueJob(j) /\ Answers(j)
    BY <1>6, BillChanges DEF PayTypes
  <2> QED BY <1>4, <1>5, <1>6, <2>1 DEF Acknowledged
<1> QED BY <1>3, <1>6 DEF Acknowledged

\* The gateway hears "success" only of an order whose credit is committed, for
\* any interleaving of callbacks, administrators, edits and failures, as long as no user is deleted with the transactions
\* (api/v1/payment/handler.go:113-119).
THEOREM PaymentsAcknowledgedIsCredited ==
    "delete" \notin Operations => (PaymentsSpec => []AcknowledgedIsCredited)
<1> SUFFICES ASSUME "delete" \notin Operations
             PROVE  PaymentsSpec => []AcknowledgedIsCredited
  OBVIOUS
<1> DEFINE Inv == JobOrders /\ NobodyGoes /\ PayTypes /\ Acknowledged
<1>1. PaymentsInit => Inv
  <2> SUFFICES ASSUME PaymentsInit PROVE Inv
    OBVIOUS
  <2>1. Idle.step = "idle"
    BY DEF Idle
  <2>2. /\ \A j \in Jobs : job[j] = Idle /\ callback[j] = NoOrder
        /\ \A r \in Requests : req[r] = Idle
        /\ \A o \in OrderIds : bill[o] = NoBill
    BY DEF PaymentsInit, Init, WalletInit
  <2>3. JobOrders /\ NobodyGoes /\ Acknowledged
    BY <2>1, <2>2 DEF JobOrders, NobodyGoes, Acknowledged, Completing
  <2>4. PayTypes
    BY DEF PaymentsInit, PayTypes, CallbacksName
  <2> QED BY <2>3, <2>4
<1>2. OrdersTypeOK /\ Inv /\ [PaymentsNext]_paymentsVars => Inv'
  <2> SUFFICES ASSUME OrdersTypeOK, Inv, [PaymentsNext]_paymentsVars PROVE Inv'
    OBVIOUS
  <2>1. [Next]_vars
    BY StepsOfOrders DEF PayTypes
  <2>2. JobOrders'
    BY <2>1, OrderStepTypes
  <2>3. NobodyGoes'
    BY <2>1, CreditsStayStep
  <2>4. PayTypes' /\ Acknowledged'
    BY PayStepTypes, AcknowledgedStep
  <2> QED BY <2>2, <2>3, <2>4
<1>3. Inv => AcknowledgedIsCredited
  BY CreditsAreTopups DEF Acknowledged, AcknowledgedIsCredited
<1> HIDE DEF Inv
<1> QED BY <1>1, <1>2, <1>3, PaymentsOrdersTypes, PTL DEF PaymentsSpec

-----------------------------------------------------------------------------
(* What holds of Orders holds of what callbacks, users and administrators  *)
(* complete together.                                                      *)

\* An order is credited when it is paid and not before, as long as no user is
\* deleted (order_service.go:77-157).
THEOREM PaymentsCreditMatchesStatus ==
    "delete" \notin Operations => (PaymentsSpec => []CreditMatchesStatus)
BY PaymentsImplementOrders, OrdersCreditMatchesStatus, PTL

\* A write of a user is lost only to a top-up that had not seen it
\* (order_service.go:107-118, user_service.go:76-90).
THEOREM PaymentsLostOnlyByOverwriting == PaymentsSpec => []LostOnlyByOverwriting
BY PaymentsImplementOrders, OrdersLostOnlyByOverwriting, PTL

=============================================================================
