---------------------------- MODULE WalletProofs ----------------------------
(* Theorems about Wallet, for any number of users, requests and operations. *)
EXTENDS Wallet, WellFoundedInduction, TLAPS

-----------------------------------------------------------------------------
(* What a goroutine holds, by the step it is at.                           *)

\* A request about to write holds the row it read and what it will write.
LEMMA DeductRequest ==
    ASSUME NEW q \in Request, q.step = "deduct"
    PROVE  /\ q.user \in Users /\ q.snap \in Row /\ q.amount \in Amounts
           /\ q.type \in DeductTypes /\ q.reason \in Reasons
BY DEF Request, Idle

\* The same for a credit or a refund.
LEMMA AdjustRequest ==
    ASSUME NEW q \in Request, q.step = "adjust"
    PROVE  /\ q.user \in Users /\ q.snap \in Row /\ q.amount \in Amounts
           /\ q.type \in AdjustTypes /\ q.reason \in Reasons
BY DEF Request, Idle

\* The same for an update.
LEMMA UpdateRequest ==
    ASSUME NEW q \in Request, q.step = "update"
    PROVE  /\ q.user \in Users /\ q.snap \in Row /\ q.limit \in Limits
           /\ q.active \in BOOLEAN
BY DEF Request, Idle

\* A cache fill holds the row it read.
LEMMA FillRequest ==
    ASSUME NEW q \in Request, q.step = "fill"
    PROVE  q.user \in Users /\ q.snap \in Row
BY DEF Request, Idle

\* A lookup, an invalidation or a deletion names its user, and a deletion the
\* rows it has locked.
LEMMA UserRequest ==
    ASSUME NEW q \in Request
    PROVE  /\ q.step \in {"find", "invalidate", "purge", "drop"} => q.user \in Users
           /\ q.step = "drop" => q.purged \in Nat
BY DEF Request, Idle

-----------------------------------------------------------------------------
(* The rows an operation writes.                                           *)

\* A debit writes a row and an entry of the right sets.
LEMMA DeductedTypes ==
    ASSUME NEW row \in Row, NEW snap \in Row, NEW amount \in Amounts,
           NEW type \in Types, NEW reason \in RowReasons
    PROVE  /\ DeductedRow(row, snap, amount) \in Row
           /\ RowOf(-amount, snap.balance, type, reason) \in Entry
<1>1. /\ snap.balance - amount \in Int /\ snap.consumed + amount \in Int
      /\ snap.version + 1 \in Nat \ {0}
  BY AmountsAssumption DEF Row
<1>2. DeductedRow(row, snap, amount) \in Row
  BY <1>1 DEF DeductedRow, Row
<1>3. RowOf(-amount, snap.balance, type, reason) \in Entry
  BY AmountsAssumption DEF RowOf, Row, Entry
<1> QED BY <1>2, <1>3

\* So does a credit or a refund.
LEMMA AdjustedTypes ==
    ASSUME NEW row \in Row, NEW snap \in Row, NEW amount \in Amounts,
           NEW type \in Types, NEW reason \in RowReasons
    PROVE  /\ AdjustedRow(row, snap, amount, type) \in Row
           /\ RowOf(amount, snap.balance, type, reason) \in Entry
<1>1. /\ snap.balance + amount \in Int /\ snap.consumed - amount \in Int
      /\ snap.version + 1 \in Nat \ {0}
  BY AmountsAssumption DEF Row
<1>2. AdjustedRow(row, snap, amount, type) \in Row
  BY <1>1 DEF AdjustedRow, Row
<1>3. RowOf(amount, snap.balance, type, reason) \in Entry
  BY AmountsAssumption DEF RowOf, Row, Entry
<1> QED BY <1>2, <1>3

\* So does an update.
LEMMA UpdatedType ==
    ASSUME NEW row \in Row, NEW snap \in Row, NEW newLimit \in Limits,
           NEW newActive \in BOOLEAN
    PROVE  UpdatedRow(row, snap, newLimit, newActive) \in Row
<1>1. newLimit \in Int /\ snap.version + 1 \in Nat \ {0}
  BY LimitsAssumption DEF Row
<1> QED BY <1>1 DEF UpdatedRow, Row

-----------------------------------------------------------------------------
(* Type correctness.                                                       *)

\* A write that goes in, and one that is refused, keep the types.
LEMMA VersionedWriteTypes ==
    ASSUME TypeOK, NEW r \in Requests, req[r].user \in Users,
           NEW newRow, NEW entries \in Seq(Entry),
           account[req[r].user] \in Row => newRow \in Row,
           VersionedWrite(r, newRow, entries)
    PROVE  TypeOK'
<1> DEFINE u == req[r].user
<1>1. CASE RowMatches(req[r].snap, account[u]) /\ account' = [account EXCEPT ![u] = newRow]
  <2>1. newRow \in Row
    BY <1>1 DEF RowMatches, TypeOK
  <2>2. ledger' \in [Users -> Seq(Entry)]
    <3>1. ledger[u] \o entries \in Seq(Entry)
      BY DEF TypeOK
    <3> QED BY <1>1, <3>1 DEF VersionedWrite, TypeOK
  <2>3. req' \in [Requests -> Request]
    <3>1. [step |-> "invalidate", user |-> u] \in Request
      BY DEF Request
    <3> QED BY <1>1, <3>1 DEF VersionedWrite, TypeOK, Goto
  <2> QED BY <1>1, <2>1, <2>2, <2>3 DEF VersionedWrite, TypeOK
<1>2. CASE ~ RowMatches(req[r].snap, account[u])
  BY <1>2 DEF VersionedWrite, TypeOK, Goto, Request
<1> QED BY <1>1, <1>2 DEF VersionedWrite

\* Each operation of the wallet keeps the types.
LEMMA WalletStepTypes ==
    ASSUME TypeOK, [WalletNext]_walletVars
    PROVE  TypeOK'
<1> USE DEF TypeOK
<1>1. ASSUME NEW r \in Requests, NEW u \in Users, Begin(r, u)
      PROVE  TypeOK'
  <2>1. ASSUME NEW amount \in Amounts, NEW type \in DeductTypes,
               NEW reason \in Reasons, BeginDeduct(r, u, amount, type, reason)
        PROVE  TypeOK'
    <3>1. [step |-> "deduct", user |-> u, snap |-> account[u], amount |-> amount,
           type |-> type, reason |-> reason] \in Request
      BY <2>1 DEF BeginDeduct, CanRead, Request
    <3> QED BY <2>1, <3>1 DEF BeginDeduct, Goto
  <2>2. ASSUME NEW amount \in Amounts, NEW type \in AdjustTypes,
               NEW reason \in Reasons, BeginAdjust(r, u, amount, type, reason)
        PROVE  TypeOK'
    <3>1. [step |-> "adjust", user |-> u, snap |-> account[u], amount |-> amount,
           type |-> type, reason |-> reason] \in Request
      BY <2>2 DEF BeginAdjust, CanRead, Request
    <3> QED BY <2>2, <3>1 DEF BeginAdjust, Goto
  <2>3. ASSUME NEW newLimit \in Limits, NEW newActive \in BOOLEAN,
               BeginUpdate(r, u, newLimit, newActive)
        PROVE  TypeOK'
    <3>1. [step |-> "update", user |-> u, snap |-> account[u],
           limit |-> newLimit, active |-> newActive] \in Request
      BY <2>3 DEF BeginUpdate, CanRead, Request
    <3> QED BY <2>3, <3>1 DEF BeginUpdate, Goto
  <2>4. CASE BeginDelete(r, u)
    <3>1. [step |-> "purge", user |-> u] \in Request
      BY DEF Request
    <3> QED BY <2>4, <3>1 DEF BeginDelete, Goto
  <2>5. CASE BeginFind(r, u)
    <3>1. [step |-> "find", user |-> u] \in Request
      BY DEF Request
    <3> QED BY <2>5, <3>1 DEF BeginFind, Goto
  <2> QED BY <1>1, <2>1, <2>2, <2>3, <2>4, <2>5 DEF Begin
<1>2. ASSUME NEW r \in Requests, Continue(r)
      PROVE  TypeOK'
  <2> DEFINE q == req[r]
  <2>0. q \in Request
    OBVIOUS
  <2>1. CASE DeductWrite(r)
    <3>1. /\ q.user \in Users /\ q.snap \in Row /\ q.amount \in Amounts
          /\ q.type \in Types /\ q.reason \in RowReasons
      BY <2>0, <2>1, DeductRequest DEF DeductWrite, Types, RowReasons
    <3>2. <<RowOf(-q.amount, q.snap.balance, q.type, q.reason)>> \in Seq(Entry)
      BY <3>1, DeductedTypes
    <3>3. account[q.user] \in Row => DeductedRow(account[q.user], q.snap, q.amount) \in Row
      BY <3>1, DeductedTypes
    <3> QED BY <2>1, <3>1, <3>2, <3>3, VersionedWriteTypes DEF DeductWrite
  <2>2. CASE AdjustWrite(r)
    <3>1. /\ q.user \in Users /\ q.snap \in Row /\ q.amount \in Amounts
          /\ q.type \in Types /\ q.reason \in RowReasons
      BY <2>0, <2>2, AdjustRequest DEF AdjustWrite, Types, RowReasons
    <3>2. <<RowOf(q.amount, q.snap.balance, q.type, q.reason)>> \in Seq(Entry)
      BY <3>1, AdjustedTypes
    <3>3. account[q.user] \in Row =>
             AdjustedRow(account[q.user], q.snap, q.amount, q.type) \in Row
      BY <3>1, AdjustedTypes
    <3> QED BY <2>2, <3>1, <3>2, <3>3, VersionedWriteTypes DEF AdjustWrite
  <2>3. CASE UpdateWrite(r)
    <3>1. /\ q.user \in Users /\ q.snap \in Row /\ q.limit \in Limits
          /\ q.active \in BOOLEAN
      BY <2>0, <2>3, UpdateRequest DEF UpdateWrite
    <3>2. account[q.user] \in Row =>
             UpdatedRow(account[q.user], q.snap, q.limit, q.active) \in Row
      BY <3>1, UpdatedType
    <3>3. <<>> \in Seq(Entry)
      OBVIOUS
    <3> QED BY <2>3, <3>1, <3>2, <3>3, VersionedWriteTypes DEF UpdateWrite
  <2>4. CASE Invalidate(r)
    <3>1. Idle \in Request
      BY DEF Request
    <3> QED BY <2>4, <3>1 DEF Invalidate, Goto
  <2>5. CASE PurgeRows(r)
    <3>1. q.user \in Users
      BY <2>0, <2>5, UserRequest DEF PurgeRows
    <3>2. [step |-> "drop", user |-> q.user, purged |-> Len(ledger[q.user])] \in Request
      BY <3>1 DEF Request
    <3> QED BY <2>5, <3>1, <3>2 DEF PurgeRows, Goto
  <2>6. CASE DropUser(r)
    <3>1. q.user \in Users /\ q.purged \in Nat
      BY <2>0, <2>6, UserRequest DEF DropUser
    <3>2. SubSeq(ledger[q.user], q.purged + 1, Len(ledger[q.user])) \in Seq(Entry)
      BY <3>1
    <3>3. [step |-> "invalidate", user |-> q.user] \in Request
      BY <3>1 DEF Request
    <3> QED BY <2>6, <3>1, <3>2, <3>3 DEF DropUser, Goto
  <2>7. CASE FillCache(r)
    <3>1. q.snap \in Row /\ Idle \in Request
      BY <2>0, <2>7, FillRequest DEF FillCache, Request
    <3> QED BY <2>7, <3>1 DEF FillCache, Goto
  <2>8. CASE ReadFound(r)
    <3>1. q.user \in Users
      BY <2>0, <2>8, UserRequest DEF ReadFound
    <3>2. /\ Idle \in Request
          /\ account[q.user] # NoUser =>
                [step |-> "fill", user |-> q.user, snap |-> account[q.user]] \in Request
      BY <3>1 DEF Request
    <3> QED BY <2>8, <3>1, <3>2 DEF ReadFound, Goto
  <2> QED BY <1>2, <2>1, <2>2, <2>3, <2>4, <2>5, <2>6, <2>7, <2>8 DEF Continue
<1>3. ASSUME NEW r \in Requests, Abandon(r)
      PROVE  TypeOK'
  BY <1>3 DEF Abandon, Goto, Request
<1>4. ASSUME NEW u \in Users, CacheExpire(u)
      PROVE  TypeOK'
  BY <1>4 DEF CacheExpire
<1>5. CASE UNCHANGED walletVars
  BY <1>5 DEF walletVars
<1> QED BY <1>1, <1>2, <1>3, <1>4, <1>5 DEF WalletNext

\* Every variable of the wallet stays in its set, however many users there
\* are and however their requests overlap.
THEOREM WalletTypeOK == WalletSpec => []TypeOK
<1>1. WalletInit => TypeOK
  BY DEF WalletInit, TypeOK, NewRow, Row, Request
<1>2. TypeOK /\ [WalletNext]_walletVars => TypeOK'
  BY WalletStepTypes
<1> QED BY <1>1, <1>2, PTL DEF WalletSpec

-----------------------------------------------------------------------------
(* Versions.                                                               *)

\* A write that goes in leaves every other copy recognisably older.
LEMMA WriteKeepsAges ==
    ASSUME TypeOK, SnapshotsTellTheirAge, CacheTellsItsAge,
           NEW r \in Requests, req[r].user \in Users, req[r].snap \in Row,
           NEW newRow, NEW entries, VersionedWrite(r, newRow, entries),
           account[req[r].user] \in Row => newRow.version = req[r].snap.version + 1
    PROVE  SnapshotsTellTheirAge' /\ CacheTellsItsAge'
<1> DEFINE u == req[r].user
<1>1. CASE RowMatches(req[r].snap, account[u]) /\ account' = [account EXCEPT ![u] = newRow]
  <2>1. /\ account'[u] = newRow /\ newRow.version = account[u].version + 1
        /\ account[u] \in Row /\ account[u].version \in Nat
    BY <1>1 DEF RowMatches, TypeOK, Row
  <2>2. ASSUME NEW copy \in Row, NEW v \in Users, NotAhead(copy, account[v])
        PROVE  NotAhead(copy, account'[v])
    <3>1. CASE v = u
      <4>1. copy.version \in Nat
        BY DEF Row
      <4> QED BY <2>1, <2>2, <3>1, <4>1, NoUserAssumption DEF NotAhead
    <3>2. CASE v # u
      BY <1>1, <2>2, <3>2 DEF TypeOK
    <3> QED BY <3>1, <3>2
  <2>3. SnapshotsTellTheirAge'
    <3> SUFFICES ASSUME NEW s \in Requests,
                        req'[s].step \in {"deduct", "adjust", "update", "fill"}
                 PROVE  NotAhead(req'[s].snap, account'[req'[s].user])
      BY DEF SnapshotsTellTheirAge, NotAhead
    <3>1. s # r /\ req'[s] = req[s]
      BY <1>1 DEF VersionedWrite, Goto, TypeOK
    <3>2. req[s].snap \in Row /\ req[s].user \in Users
      BY <3>1, DeductRequest, AdjustRequest, UpdateRequest, FillRequest DEF TypeOK
    <3>3. NotAhead(req[s].snap, account[req[s].user])
      BY <3>1 DEF SnapshotsTellTheirAge
    <3> QED BY <2>2, <3>1, <3>2, <3>3
  <2>4. CacheTellsItsAge'
    BY <1>1, <2>2 DEF CacheTellsItsAge, NotAhead, VersionedWrite, TypeOK
  <2> QED BY <2>3, <2>4
<1>2. CASE ~ RowMatches(req[r].snap, account[u])
  <2>1. /\ account' = account /\ cache' = cache
        /\ req' = [req EXCEPT ![r] = Idle]
    BY <1>2 DEF VersionedWrite, Goto
  <2> QED BY <2>1 DEF TypeOK, Idle, SnapshotsTellTheirAge, CacheTellsItsAge, NotAhead
<1> QED BY <1>1, <1>2 DEF VersionedWrite

\* Each operation keeps every copy recognisable: the reads because what
\* they hold is the row, the writes because they advance the version.
LEMMA WalletStepAges ==
    ASSUME TypeOK, SnapshotsTellTheirAge, CacheTellsItsAge, [WalletNext]_walletVars
    PROVE  SnapshotsTellTheirAge' /\ CacheTellsItsAge'
<1> USE DEF TypeOK
<1>0. ASSUME NEW row \in Row PROVE NotAhead(row, row)
  BY DEF NotAhead, Row
<1>1. ASSUME NEW r \in Requests, NEW u \in Users, Begin(r, u)
      PROVE  SnapshotsTellTheirAge' /\ CacheTellsItsAge'
  <2> DEFINE Reads == /\ account' = account /\ cache' = cache
                      /\ \A s \in Requests : s # r => req'[s] = req[s]
                      /\ req'[r].user = u
                      /\ req'[r].step \notin {"purge", "find"} =>
                            account[u] # NoUser /\ req'[r].snap = account[u]
  <2>1. Reads
    <3>1. ASSUME NEW amount, NEW type, NEW reason,
                 BeginDeduct(r, u, amount, type, reason)
          PROVE  Reads
      BY <3>1 DEF BeginDeduct, CanRead, Goto
    <3>2. ASSUME NEW amount, NEW type, NEW reason,
                 BeginAdjust(r, u, amount, type, reason)
          PROVE  Reads
      BY <3>2 DEF BeginAdjust, CanRead, Goto
    <3>3. ASSUME NEW newLimit, NEW newActive, BeginUpdate(r, u, newLimit, newActive)
          PROVE  Reads
      BY <3>3 DEF BeginUpdate, CanRead, Goto
    <3>4. CASE BeginDelete(r, u)
      BY <3>4 DEF BeginDelete, Goto
    <3>5. CASE BeginFind(r, u)
      BY <3>5 DEF BeginFind, Goto
    <3> QED BY <1>1, <3>1, <3>2, <3>3, <3>4, <3>5 DEF Begin
  <2>2. SnapshotsTellTheirAge'
    <3> SUFFICES ASSUME NEW s \in Requests,
                        req'[s].step \in {"deduct", "adjust", "update", "fill"}
                 PROVE  NotAhead(req'[s].snap, account[req'[s].user])
      BY <2>1 DEF SnapshotsTellTheirAge, NotAhead
    <3>1. CASE s = r
      <4>1. account[u] \in Row /\ req'[s].snap = account[u] /\ req'[s].user = u
        BY <2>1, <3>1
      <4> QED BY <1>0, <4>1
    <3>2. CASE s # r
      BY <2>1, <3>2 DEF SnapshotsTellTheirAge
    <3> QED BY <3>1, <3>2
  <2>3. CacheTellsItsAge'
    BY <2>1 DEF CacheTellsItsAge, NotAhead
  <2> QED BY <2>2, <2>3
<1>2. ASSUME NEW r \in Requests, Continue(r)
      PROVE  SnapshotsTellTheirAge' /\ CacheTellsItsAge'
  <2> DEFINE q == req[r]
  <2>0. q \in Request
    OBVIOUS
  <2>1. CASE DeductWrite(r)
    <3>1. q.user \in Users /\ q.snap \in Row
      BY <2>0, <2>1, DeductRequest DEF DeductWrite
    <3>2. account[q.user] \in Row =>
             DeductedRow(account[q.user], q.snap, q.amount).version = q.snap.version + 1
      BY DEF DeductedRow, Row
    <3> QED BY <2>1, <3>1, <3>2, WriteKeepsAges DEF DeductWrite
  <2>2. CASE AdjustWrite(r)
    <3>1. q.user \in Users /\ q.snap \in Row
      BY <2>0, <2>2, AdjustRequest DEF AdjustWrite
    <3>2. account[q.user] \in Row =>
             AdjustedRow(account[q.user], q.snap, q.amount, q.type).version
                = q.snap.version + 1
      BY DEF AdjustedRow, Row
    <3> QED BY <2>2, <3>1, <3>2, WriteKeepsAges DEF AdjustWrite
  <2>3. CASE UpdateWrite(r)
    <3>1. q.user \in Users /\ q.snap \in Row
      BY <2>0, <2>3, UpdateRequest DEF UpdateWrite
    <3>2. account[q.user] \in Row =>
             UpdatedRow(account[q.user], q.snap, q.limit, q.active).version
                = q.snap.version + 1
      BY DEF UpdatedRow, Row
    <3> QED BY <2>3, <3>1, <3>2, WriteKeepsAges DEF UpdateWrite
  <2>4. CASE Invalidate(r)
    BY <2>4 DEF Invalidate, Goto, Idle, SnapshotsTellTheirAge, CacheTellsItsAge, NotAhead
  <2>5. CASE PurgeRows(r)
    BY <2>5 DEF PurgeRows, Goto, SnapshotsTellTheirAge, CacheTellsItsAge, NotAhead
  <2>6. CASE DropUser(r)
    BY <2>6 DEF DropUser, Goto, SnapshotsTellTheirAge, CacheTellsItsAge, NotAhead
  <2>7. CASE FillCache(r)
    <3>1. q.user \in Users /\ q.snap \in Row /\ NotAhead(q.snap, account[q.user])
      BY <2>0, <2>7, FillRequest DEF FillCache, SnapshotsTellTheirAge
    <3> QED BY <2>7, <3>1 DEF FillCache, Goto, Idle, SnapshotsTellTheirAge,
                              CacheTellsItsAge, NotAhead
  <2>8. CASE ReadFound(r)
    <3>1. q.user \in Users
      BY <2>0, <2>8, UserRequest DEF ReadFound
    <3>2. UNCHANGED <<account, cache>> /\ \A s \in Requests : s # r => req'[s] = req[s]
      BY <2>8 DEF ReadFound, Goto
    <3>3. CASE account[q.user] = NoUser
      <4>1. req'[r] = Idle
        BY <2>8, <3>3 DEF ReadFound, Goto
      <4> QED BY <3>2, <4>1 DEF Idle, SnapshotsTellTheirAge, CacheTellsItsAge, NotAhead
    <3>4. CASE account[q.user] # NoUser
      <4>1. req'[r].user = q.user /\ req'[r].snap = account[q.user]
        BY <2>8, <3>4 DEF ReadFound, Goto
      <4>2. NotAhead(account[q.user], account[q.user])
        BY <1>0, <3>1, <3>4
      <4> QED BY <3>2, <4>1, <4>2 DEF SnapshotsTellTheirAge, CacheTellsItsAge, NotAhead
    <3> QED BY <3>3, <3>4
  <2> QED BY <1>2, <2>1, <2>2, <2>3, <2>4, <2>5, <2>6, <2>7, <2>8 DEF Continue
<1>3. ASSUME NEW r \in Requests, Abandon(r)
      PROVE  SnapshotsTellTheirAge' /\ CacheTellsItsAge'
  BY <1>3 DEF Abandon, Goto, Idle, SnapshotsTellTheirAge, CacheTellsItsAge, NotAhead
<1>4. ASSUME NEW u \in Users, CacheExpire(u)
      PROVE  SnapshotsTellTheirAge' /\ CacheTellsItsAge'
  BY <1>4 DEF CacheExpire, SnapshotsTellTheirAge, CacheTellsItsAge, NotAhead
<1>5. CASE UNCHANGED walletVars
  BY <1>5 DEF walletVars, SnapshotsTellTheirAge, CacheTellsItsAge, NotAhead
<1> QED BY <1>1, <1>2, <1>3, <1>4, <1>5 DEF WalletNext

-----------------------------------------------------------------------------
(* The ledger.                                                             *)

\* A row that starts where the rows end joins them, and ends them.
LEMMA JoinedAppend ==
    ASSUME NEW rows \in Seq(Entry), Joined(rows), NEW e \in Entry,
           e.before = EndOf(rows), e.after = e.before + e.amount
    PROVE  Joined(rows \o <<e>>) /\ EndOf(rows \o <<e>>) = e.after
<1> DEFINE more == rows \o <<e>>
<1>1. /\ more \in Seq(Entry) /\ Len(more) = Len(rows) + 1
      /\ more[Len(rows) + 1] = e
      /\ \A i \in 1..Len(rows) : more[i] = rows[i]
  OBVIOUS
<1>2. EndOf(more) = e.after
  BY <1>1 DEF EndOf
<1>3. ASSUME NEW i \in 1..Len(more)
      PROVE  /\ more[i].before = IF i = 1 THEN 0 ELSE more[i-1].after
             /\ more[i].after = more[i].before + more[i].amount
  <2>1. CASE i \in 1..Len(rows)
    <3>1. more[i] = rows[i] /\ (i # 1 => more[i-1] = rows[i-1])
      BY <1>1, <2>1
    <3> QED BY <2>1, <3>1 DEF Joined
  <2>2. CASE i = Len(rows) + 1
    <3>1. CASE rows = <<>>
      BY <1>1, <2>2, <3>1 DEF EndOf
    <3>2. CASE rows # <<>>
      <4>1. Len(rows) \in 1..Len(rows) /\ i # 1 /\ i - 1 = Len(rows)
        BY <2>2, <3>2
      <4> QED BY <1>1, <2>2, <3>2, <4>1 DEF EndOf
    <3> QED BY <3>1, <3>2
  <2> QED BY <1>1, <1>3, <2>1, <2>2
<1> QED BY <1>2, <1>3 DEF Joined

\* A write that records the change it makes keeps the ledger complete.
LEMMA WriteKeepsLedger ==
    ASSUME TypeOK, SnapshotsTellTheirAge, LedgerComplete,
           NEW r \in Requests, req[r].step \in {"deduct", "adjust", "update"},
           req[r].user \in Users, req[r].snap \in Row,
           NEW newRow, NEW entries, VersionedWrite(r, newRow, entries),
           \/ entries = <<>> /\ newRow.balance = account[req[r].user].balance
           \/ \E e \in Entry :
                 /\ entries = <<e>>
                 /\ e.before = req[r].snap.balance
                 /\ e.after = e.before + e.amount
                 /\ newRow.balance = e.after
    PROVE  LedgerComplete'
<1> DEFINE u == req[r].user
<1>1. CASE RowMatches(req[r].snap, account[u]) /\ account' = [account EXCEPT ![u] = newRow]
           /\ ledger' = [ledger EXCEPT ![u] = @ \o entries]
  <2>1. req[r].snap = account[u] /\ account[u] # NoUser
    BY <1>1 DEF RowMatches, SnapshotsTellTheirAge, NotAhead
  <2>2. /\ ledger[u] \in Seq(Entry) /\ Joined(ledger[u])
        /\ EndOf(ledger[u]) = account[u].balance
    BY <2>1 DEF LedgerComplete, TypeOK
  <2>3. Joined(ledger'[u]) /\ EndOf(ledger'[u]) = newRow.balance
    <3>1. CASE entries = <<>> /\ newRow.balance = account[u].balance
      <4>1. ledger'[u] = ledger[u]
        BY <1>1, <2>2, <3>1 DEF TypeOK
      <4> QED BY <2>2, <3>1, <4>1
    <3>2. ASSUME NEW e \in Entry, entries = <<e>>, e.before = req[r].snap.balance,
                 e.after = e.before + e.amount, newRow.balance = e.after
          PROVE  Joined(ledger'[u]) /\ EndOf(ledger'[u]) = newRow.balance
      <4>1. ledger'[u] = ledger[u] \o <<e>>
        BY <1>1, <3>2 DEF TypeOK
      <4>2. e.before = EndOf(ledger[u])
        BY <2>1, <2>2, <3>2
      <4> QED BY <2>2, <3>2, <4>1, <4>2, JoinedAppend
    <3> QED BY <3>1, <3>2
  <2>4. \A v \in Users : v # u => account'[v] = account[v] /\ ledger'[v] = ledger[v]
    BY <1>1 DEF TypeOK
  <2>5. account'[u] = newRow
    BY <1>1 DEF TypeOK
  <2> QED BY <2>3, <2>4, <2>5 DEF LedgerComplete, Joined, EndOf
<1>2. CASE UNCHANGED <<account, ledger>>
  BY <1>2 DEF LedgerComplete, Joined, EndOf
<1> QED BY <1>1, <1>2 DEF VersionedWrite

\* Each operation keeps every ledger complete.
LEMMA WalletStepLedger ==
    ASSUME TypeOK, SnapshotsTellTheirAge, LedgerComplete, [WalletNext]_walletVars
    PROVE  LedgerComplete'
<1>1. CASE UNCHANGED <<account, ledger>>
  BY <1>1 DEF LedgerComplete, Joined, EndOf
<1>2. ASSUME NEW r \in Requests, Continue(r)
      PROVE  LedgerComplete'
  <2> DEFINE q == req[r]
  <2>0. q \in Request
    BY DEF TypeOK
  <2>1. CASE DeductWrite(r)
    <3> DEFINE e == RowOf(-q.amount, q.snap.balance, q.type, q.reason)
               new == DeductedRow(account[q.user], q.snap, q.amount)
    <3>1. /\ q.user \in Users /\ q.snap \in Row /\ q.amount \in Amounts
          /\ q.type \in Types /\ q.reason \in RowReasons
      BY <2>0, <2>1, DeductRequest DEF DeductWrite, Types, RowReasons
    <3>2. e \in Entry /\ e.before = q.snap.balance /\ e.after = e.before + e.amount
      BY <3>1, DeductedTypes DEF RowOf
    <3>3. account[q.user] \in Row => new.balance = e.after
      BY <3>1, AmountsAssumption DEF DeductedRow, RowOf, Row
    <3>4. CASE account[q.user] = NoUser
      BY <1>1, <2>1, <3>4 DEF DeductWrite, VersionedWrite, RowMatches
    <3>5. CASE account[q.user] \in Row
      BY <2>1, <3>1, <3>2, <3>3, <3>5, WriteKeepsLedger DEF DeductWrite
    <3> QED BY <3>1, <3>4, <3>5 DEF TypeOK
  <2>2. CASE AdjustWrite(r)
    <3> DEFINE e == RowOf(q.amount, q.snap.balance, q.type, q.reason)
               new == AdjustedRow(account[q.user], q.snap, q.amount, q.type)
    <3>1. /\ q.user \in Users /\ q.snap \in Row /\ q.amount \in Amounts
          /\ q.type \in Types /\ q.reason \in RowReasons
      BY <2>0, <2>2, AdjustRequest DEF AdjustWrite, Types, RowReasons
    <3>2. e \in Entry /\ e.before = q.snap.balance /\ e.after = e.before + e.amount
      BY <3>1, AdjustedTypes DEF RowOf
    <3>3. account[q.user] \in Row => new.balance = e.after
      BY <3>1, AmountsAssumption DEF AdjustedRow, RowOf, Row
    <3>4. CASE account[q.user] = NoUser
      BY <1>1, <2>2, <3>4 DEF AdjustWrite, VersionedWrite, RowMatches
    <3>5. CASE account[q.user] \in Row
      BY <2>2, <3>1, <3>2, <3>3, <3>5, WriteKeepsLedger DEF AdjustWrite
    <3> QED BY <3>1, <3>4, <3>5 DEF TypeOK
  <2>3. CASE UpdateWrite(r)
    <3> DEFINE new == UpdatedRow(account[q.user], q.snap, q.limit, q.active)
    <3>1. q.user \in Users /\ q.snap \in Row
      BY <2>0, <2>3, UpdateRequest DEF UpdateWrite
    <3>2. account[q.user] \in Row => new.balance = account[q.user].balance
      BY DEF UpdatedRow, Row
    <3>3. CASE account[q.user] = NoUser
      BY <1>1, <2>3, <3>3 DEF UpdateWrite, VersionedWrite, RowMatches
    <3>4. CASE account[q.user] \in Row
      BY <2>3, <3>1, <3>2, <3>4, WriteKeepsLedger DEF UpdateWrite
    <3> QED BY <3>1, <3>3, <3>4 DEF TypeOK
  <2>4. CASE DropUser(r)
    <3>1. q.user \in Users
      BY <2>0, <2>4, UserRequest DEF DropUser
    <3>2. /\ account'[q.user] = NoUser
          /\ \A v \in Users : v # q.user => account'[v] = account[v] /\ ledger'[v] = ledger[v]
      BY <2>4, <3>1 DEF DropUser, TypeOK
    <3> QED BY <3>2 DEF LedgerComplete, Joined, EndOf
  <2>5. CASE Invalidate(r) \/ PurgeRows(r) \/ ReadFound(r) \/ FillCache(r)
    BY <1>1, <2>5 DEF Invalidate, PurgeRows, ReadFound, FillCache
  <2> QED BY <1>2, <2>1, <2>2, <2>3, <2>4, <2>5 DEF Continue
<1>3. ASSUME NEW r \in Requests, NEW u \in Users, Begin(r, u)
      PROVE  LedgerComplete'
  BY <1>1, <1>3 DEF Begin, BeginDeduct, BeginAdjust, BeginUpdate, BeginDelete, BeginFind
<1>4. CASE \/ \E r \in Requests : Abandon(r)
           \/ \E u \in Users : CacheExpire(u)
           \/ UNCHANGED walletVars
  BY <1>1, <1>4 DEF Abandon, CacheExpire, walletVars
<1> QED BY <1>2, <1>3, <1>4 DEF WalletNext

\* A debit is begun with the funds there, and holds what it read until it ends.
LEMMA WalletStepFunds ==
    ASSUME TypeOK, FundsSeen, [WalletNext]_walletVars
    PROVE  FundsSeen'
<1> USE DEF TypeOK
<1>0. Idle.step # "deduct"
  BY DEF Idle
<1>1. ASSUME NEW r \in Requests, NEW state, Goto(r, state), state.step # "deduct"
      PROVE  FundsSeen'
  BY <1>1 DEF FundsSeen, SufficientFunds, Goto
<1>2. ASSUME NEW r \in Requests, NEW u \in Users, Begin(r, u)
      PROVE  FundsSeen'
  <2>1. ASSUME NEW amount \in Amounts, NEW type \in DeductTypes,
               NEW reason \in Reasons, BeginDeduct(r, u, amount, type, reason)
        PROVE  FundsSeen'
    <3>1. req'[r].snap = account[u] /\ req'[r].amount = amount
      BY <2>1 DEF BeginDeduct, Goto
    <3>2. \A s \in Requests : s # r => req'[s] = req[s]
      BY <2>1 DEF BeginDeduct, Goto
    <3> QED BY <2>1, <3>1, <3>2 DEF BeginDeduct, FundsSeen, SufficientFunds
  <2>2. CASE \E amount \in Amounts, type \in AdjustTypes, reason \in Reasons :
                BeginAdjust(r, u, amount, type, reason)
    BY <1>1, <2>2 DEF BeginAdjust
  <2>3. CASE \E newLimit \in Limits, newActive \in BOOLEAN :
                BeginUpdate(r, u, newLimit, newActive)
    BY <1>1, <2>3 DEF BeginUpdate
  <2>4. CASE BeginDelete(r, u)
    BY <1>1, <2>4 DEF BeginDelete
  <2>5. CASE BeginFind(r, u)
    BY <1>1, <2>5 DEF BeginFind
  <2> QED BY <1>2, <2>1, <2>2, <2>3, <2>4, <2>5 DEF Begin
<1>3. ASSUME NEW r \in Requests, Continue(r)
      PROVE  FundsSeen'
  <2>1. CASE DeductWrite(r) \/ AdjustWrite(r) \/ UpdateWrite(r)
    <3>1. PICK newRow, entries : VersionedWrite(r, newRow, entries)
      BY <2>1 DEF DeductWrite, AdjustWrite, UpdateWrite
    <3> QED BY <1>0, <1>1, <3>1 DEF VersionedWrite
  <2>2. CASE Invalidate(r) \/ ReadFound(r) \/ FillCache(r)
    BY <1>0, <1>1, <2>2 DEF Invalidate, ReadFound, FillCache
  <2>3. CASE PurgeRows(r) \/ DropUser(r)
    BY <1>1, <2>3 DEF PurgeRows, DropUser
  <2> QED BY <1>3, <2>1, <2>2, <2>3 DEF Continue
<1>4. ASSUME NEW r \in Requests, Abandon(r)
      PROVE  FundsSeen'
  BY <1>0, <1>1, <1>4 DEF Abandon
<1>5. CASE (\E u \in Users : CacheExpire(u)) \/ UNCHANGED walletVars
  BY <1>5 DEF CacheExpire, walletVars, FundsSeen, SufficientFunds
<1> QED BY <1>2, <1>3, <1>4, <1>5 DEF WalletNext

-----------------------------------------------------------------------------
(* The inductive invariant.                                                *)

\* The tables are empty and no goroutine is under way at first.
LEMMA WalletInvAtFirst == WalletInit => WalletInv
<1> SUFFICES ASSUME WalletInit PROVE WalletInv
  OBVIOUS
<1>1. TypeOK
  BY DEF WalletInit, TypeOK, NewRow, Row, Request
<1>2. SnapshotsTellTheirAge /\ CacheTellsItsAge /\ FundsSeen
  BY DEF WalletInit, Idle, SnapshotsTellTheirAge, CacheTellsItsAge, FundsSeen
<1>3. LedgerComplete
  BY DEF WalletInit, LedgerComplete, Joined, EndOf, NewRow
<1> QED BY <1>1, <1>2, <1>3 DEF WalletInv

\* The version check keeps every copy recognisable, so a write that goes in
\* was computed from the row it replaces, so the ledger stays complete.
THEOREM WalletInvariant == WalletSpec => []WalletInv
<1>1. WalletInit => WalletInv
  BY WalletInvAtFirst
<1>2. WalletInv /\ [WalletNext]_walletVars => WalletInv'
  BY WalletStepTypes, WalletStepAges, WalletStepFunds, WalletStepLedger DEF WalletInv
<1> QED BY <1>1, <1>2, PTL DEF WalletSpec

\* Equal versions mean equal rows, for what requests hold ...
THEOREM WalletAges == WalletSpec => []SnapshotsTellTheirAge
<1>1. WalletInv => SnapshotsTellTheirAge
  BY DEF WalletInv
<1> QED BY <1>1, WalletInvariant, PTL

\* ... and for what the cache holds.
THEOREM WalletCache == WalletSpec => []CacheTellsItsAge
<1>1. WalletInv => CacheTellsItsAge
  BY DEF WalletInv
<1> QED BY <1>1, WalletInvariant, PTL

\* The transactions of every user account for the balance at all times.
THEOREM WalletLedger == WalletSpec => []LedgerComplete
<1>1. WalletInv => LedgerComplete
  BY DEF WalletInv
<1> QED BY <1>1, WalletInvariant, PTL

-----------------------------------------------------------------------------
(* What the transactions of a user say was consumed is a recursive sum: its *)
(* value is found by induction on the number of rows.                      *)

\* Every set of naturals that is not empty has a least member.
LEMMA LessThanWF == IsWellFoundedOn({p \in Nat \X Nat : p[1] < p[2]}, Nat)
<1>1. OpToRel(<, Nat) = {p \in Nat \X Nat : p[1] < p[2]}
  BY DEF OpToRel
<1> QED BY <1>1, NatLessThanWellFounded

\* A set of naturals that holds zero and the successors of its members holds
\* them all: induction, stated of sets because a proof may not be given a
\* predicate.
LEMMA SetInduction ==
    ASSUME NEW S \in SUBSET Nat, 0 \in S, \A n \in S : n + 1 \in S
    PROVE  S = Nat
<1> SUFFICES ASSUME S # Nat PROVE FALSE
  OBVIOUS
<1> DEFINE R == {p \in Nat \X Nat : p[1] < p[2]}
<1> DEFINE T == Nat \ S
<1>1. IsWellFoundedOn(R, Nat) BY LessThanWF
<1>2. T \subseteq Nat /\ T # {} OBVIOUS
<1> HIDE DEF R, T
<1>3. PICK x \in T : \A y \in T : ~ (<<y, x>> \in R)
  BY <1>1, <1>2, WFMin
<1>4. x \in Nat /\ x # 0 /\ x \notin S
  BY DEF T
<1>5. x - 1 \in T
  BY <1>4 DEF T
<1>6. <<x-1, x>> \in R
  BY <1>4 DEF R
<1> QED BY <1>3, <1>5, <1>6

\* f holds the running totals of the first n rows.
Totals(f, rows, n) ==
    \A i \in 0..n : f[i] = IF i = 0 THEN 0 ELSE f[i-1] + Consumption(rows[i])

\* What one entry counts is a number.
LEMMA ConsumptionType == ASSUME NEW e \in Entry PROVE Consumption(e) \in Int
BY DEF Consumption, Entry

\* Rows have one running total after each of them.
LEMMA TotalsUnique ==
    ASSUME NEW rows, NEW f, NEW g, NEW n \in Nat, Totals(f, rows, n), Totals(g, rows, n)
    PROVE  f[n] = g[n]
<1> DEFINE S == {k \in Nat : k =< n => f[k] = g[k]}
<1>1. 0 \in S
  BY DEF Totals
<1>2. ASSUME NEW k \in S PROVE k + 1 \in S
  <2>1. k \in Nat
    OBVIOUS
  <2>2. ASSUME k + 1 =< n PROVE f[k+1] = g[k+1]
    <3>1. f[k] = g[k] /\ k + 1 \in 0..n /\ k + 1 # 0 /\ (k + 1) - 1 = k
      BY <2>2
    <3> QED BY <3>1 DEF Totals
  <2> QED BY <2>1, <2>2
<1> HIDE DEF S
<1>3. S \in SUBSET Nat
  BY DEF S
<1>4. S = Nat
  BY <1>1, <1>2, <1>3, SetInduction
<1>5. n \in S
  BY <1>4
<1> QED BY <1>5 DEF S

\* They have running totals as far as they go: one more than for the rows
\* before the last.
LEMMA TotalsExist ==
    ASSUME NEW rows \in Seq(Entry), NEW n \in 0..Len(rows)
    PROVE  \E f \in [0..n -> Int] : Totals(f, rows, n)
<1> DEFINE S == {k \in Nat : k =< Len(rows) => \E f \in [0..k -> Int] : Totals(f, rows, k)}
<1>1. 0 \in S
  <2>1. [i \in 0..0 |-> 0] \in [0..0 -> Int] /\ Totals([i \in 0..0 |-> 0], rows, 0)
    BY DEF Totals
  <2> QED BY <2>1
<1>2. ASSUME NEW k \in S PROVE k + 1 \in S
  <2>1. k \in Nat
    OBVIOUS
  <2>2. ASSUME k + 1 =< Len(rows) PROVE \E g \in [0..k+1 -> Int] : Totals(g, rows, k+1)
    <3>1. PICK f \in [0..k -> Int] : Totals(f, rows, k)
      BY <2>2
    <3> DEFINE c == Consumption(rows[k+1])
               g == [i \in 0..k+1 |-> IF i =< k THEN f[i] ELSE f[k] + c]
    <3>2. c \in Int
      BY <2>1, <2>2, ConsumptionType
    <3>3. g \in [0..k+1 -> Int]
      BY <3>2
    <3>4. ASSUME NEW i \in 0..k+1
          PROVE g[i] = IF i = 0 THEN 0 ELSE g[i-1] + Consumption(rows[i])
      <4>1. CASE i =< k
        <5>1. f[i] = IF i = 0 THEN 0 ELSE f[i-1] + Consumption(rows[i])
          BY <3>1, <4>1 DEF Totals
        <5>2. g[i] = f[i] /\ (i # 0 => g[i-1] = f[i-1])
          BY <4>1
        <5> QED BY <5>1, <5>2
      <4>2. CASE i = k + 1
        <5>1. g[i] = f[k] + c /\ g[i-1] = f[k] /\ i # 0
          BY <4>2
        <5> QED BY <4>2, <5>1
      <4> QED BY <2>1, <4>1, <4>2
    <3> HIDE DEF g
    <3>5. Totals(g, rows, k+1)
      BY <3>4 DEF Totals
    <3> QED BY <3>3, <3>5
  <2> HIDE DEF S
  <2>3. k + 1 \in Nat
    BY <2>1
  <2> QED BY <2>2, <2>3 DEF S
<1> HIDE DEF S
<1>3. S \in SUBSET Nat
  BY DEF S
<1>4. S = Nat
  BY <1>1, <1>2, <1>3, SetInduction
<1>5. n \in S /\ n =< Len(rows)
  BY <1>4
<1> QED BY <1>5 DEF S

\* Any running totals of the rows end in what was consumed.
LEMMA ConsumedIsTotal ==
    ASSUME NEW rows \in Seq(Entry), NEW f, Totals(f, rows, Len(rows))
    PROVE  ConsumedBy(rows) = f[Len(rows)]
<1> DEFINE Sum(g) == g = [i \in 0..Len(rows) |->
                           IF i = 0 THEN 0 ELSE g[i-1] + Consumption(rows[i])]
           total == CHOOSE g : Sum(g)
<1>1. ConsumedBy(rows) = total[Len(rows)]
  BY Zenon DEF ConsumedBy
<1>2. \E g : Sum(g)
  <2>1. PICK g \in [0..Len(rows) -> Int] : Totals(g, rows, Len(rows))
    BY TotalsExist
  <2>2. Sum(g)
    BY <2>1 DEF Totals
  <2> QED BY <2>2
<1>3. Sum(total)
  <2> HIDE DEF Sum
  <2> QED BY <1>2
<1> HIDE DEF total
<1>4. Totals(total, rows, Len(rows))
  BY <1>3 DEF Totals
<1> QED BY <1>1, <1>4, TotalsUnique

\* One more entry adds what it counts.
LEMMA ConsumedAppend ==
    ASSUME NEW rows \in Seq(Entry), NEW e \in Entry
    PROVE  ConsumedBy(rows \o <<e>>) = ConsumedBy(rows) + Consumption(e)
<1> DEFINE more == rows \o <<e>>
<1>1. /\ more \in Seq(Entry) /\ Len(more) = Len(rows) + 1
      /\ more[Len(rows) + 1] = e
      /\ \A i \in 1..Len(rows) : more[i] = rows[i]
  OBVIOUS
<1>2. PICK f \in [0..Len(more) -> Int] : Totals(f, more, Len(more))
  BY <1>1, TotalsExist
<1>3. ConsumedBy(more) = f[Len(more)]
  BY <1>1, <1>2, ConsumedIsTotal
<1>4. Totals(f, rows, Len(rows))
  BY <1>1, <1>2 DEF Totals
<1>5. ConsumedBy(rows) = f[Len(rows)]
  BY <1>4, ConsumedIsTotal
<1>6. f[Len(more)] = f[Len(rows)] + Consumption(e)
  BY <1>1, <1>2 DEF Totals
<1> QED BY <1>3, <1>5, <1>6

\* No transactions, nothing consumed.
LEMMA ConsumedNothing == ConsumedBy(<<>>) = 0
<1>1. Totals([i \in 0..0 |-> 0], <<>>, 0)
  BY DEF Totals
<1> QED BY <1>1, ConsumedIsTotal

-----------------------------------------------------------------------------
(* The consumption.                                                        *)

\* A write that goes in with an entry moves total_consumed by what the entry
\* counts.
LEMMA WriteKeepsConsumed ==
    ASSUME TypeOK, SnapshotsTellTheirAge, ConsumedAgrees,
           NEW r \in Requests, req[r].step \in {"deduct", "adjust", "update"},
           req[r].user \in Users, req[r].snap \in Row,
           NEW newRow, NEW entries, VersionedWrite(r, newRow, entries),
           account[req[r].user] = req[r].snap =>
              \/ entries = <<>> /\ newRow.consumed = req[r].snap.consumed
              \/ \E e \in Entry :
                    /\ entries = <<e>>
                    /\ newRow.consumed = req[r].snap.consumed + Consumption(e)
    PROVE  ConsumedAgrees'
<1> DEFINE u == req[r].user
<1>1. CASE RowMatches(req[r].snap, account[u]) /\ account' = [account EXCEPT ![u] = newRow]
           /\ ledger' = [ledger EXCEPT ![u] = @ \o entries]
  <2>1. account[u] = req[r].snap /\ account[u] # NoUser /\ ledger[u] \in Seq(Entry)
    BY <1>1 DEF RowMatches, SnapshotsTellTheirAge, NotAhead, TypeOK
  <2>2. account'[u] = newRow /\ ledger'[u] = ledger[u] \o entries
    BY <1>1 DEF TypeOK
  <2>3. newRow.consumed = ConsumedBy(ledger'[u])
    <3>1. CASE entries = <<>> /\ newRow.consumed = req[r].snap.consumed
      <4>1. ledger'[u] = ledger[u]
        BY <2>1, <2>2, <3>1
      <4> QED BY <2>1, <3>1, <4>1 DEF ConsumedAgrees
    <3>2. ASSUME NEW e \in Entry, entries = <<e>>,
                 newRow.consumed = req[r].snap.consumed + Consumption(e)
          PROVE  newRow.consumed = ConsumedBy(ledger'[u])
      BY <2>1, <2>2, <3>2, ConsumedAppend DEF ConsumedAgrees
    <3> QED BY <2>1, <3>1, <3>2
  <2>4. \A v \in Users : v # u => account'[v] = account[v] /\ ledger'[v] = ledger[v]
    BY <1>1 DEF TypeOK
  <2> QED BY <2>2, <2>3, <2>4 DEF ConsumedAgrees
<1>2. CASE UNCHANGED <<account, ledger>>
  BY <1>2 DEF ConsumedAgrees
<1> QED BY <1>1, <1>2 DEF VersionedWrite

\* Each operation keeps total_consumed what the transactions add up to.
LEMMA WalletStepConsumed ==
    ASSUME TypeOK, SnapshotsTellTheirAge, ConsumedAgrees, [WalletNext]_walletVars
    PROVE  ConsumedAgrees'
<1>1. CASE UNCHANGED <<account, ledger>>
  BY <1>1 DEF ConsumedAgrees
<1>2. ASSUME NEW r \in Requests, Continue(r)
      PROVE  ConsumedAgrees'
  <2> DEFINE q == req[r]
  <2>0. q \in Request
    BY DEF TypeOK
  <2>1. CASE DeductWrite(r)
    <3> DEFINE e == RowOf(-q.amount, q.snap.balance, q.type, q.reason)
    <3>1. /\ q.user \in Users /\ q.snap \in Row /\ q.amount \in Amounts
          /\ q.type \in DeductTypes /\ q.reason \in Reasons
      BY <2>0, <2>1, DeductRequest DEF DeductWrite
    <3>2. e \in Entry
      BY <3>1, DeductedTypes DEF Types, RowReasons
    <3>3. Consumption(e) = q.amount
      <4>1. e.amount = -q.amount /\ q.amount \in Nat \ {0}
        BY <3>1, AmountsAssumption DEF RowOf
      <4> HIDE DEF e, q
      <4>2. e.amount < 0 /\ -e.amount = q.amount
        BY <4>1
      <4> QED BY <4>2 DEF Consumption
    <3>4. DeductedRow(q.snap, q.snap, q.amount).consumed = q.snap.consumed + q.amount
      BY <3>1 DEF DeductedRow, Row
    <3> QED BY <2>1, <3>1, <3>2, <3>3, <3>4, WriteKeepsConsumed DEF DeductWrite
  <2>2. CASE AdjustWrite(r)
    <3> DEFINE e == RowOf(q.amount, q.snap.balance, q.type, q.reason)
    <3>1. /\ q.user \in Users /\ q.snap \in Row /\ q.amount \in Amounts
          /\ q.type \in AdjustTypes /\ q.reason \in Reasons
      BY <2>0, <2>2, AdjustRequest DEF AdjustWrite
    <3>2. e \in Entry
      BY <3>1, AdjustedTypes DEF Types, RowReasons
    <3>3. Consumption(e) = IF q.type = "user_refund" THEN -q.amount ELSE 0
      <4>1. e.amount = q.amount /\ e.type = q.type /\ q.amount \in Nat \ {0}
        BY <3>1, AmountsAssumption DEF RowOf
      <4> HIDE DEF e, q
      <4>2. ~ (e.amount < 0)
        BY <4>1
      <4> QED BY <4>1, <4>2 DEF Consumption
    <3>4. AdjustedRow(q.snap, q.snap, q.amount, q.type).consumed
             = q.snap.consumed + Consumption(e)
      BY <3>1, <3>3, AmountsAssumption DEF AdjustedRow, Row
    <3> QED BY <2>2, <3>1, <3>2, <3>4, WriteKeepsConsumed DEF AdjustWrite
  <2>3. CASE UpdateWrite(r)
    <3>1. q.user \in Users /\ q.snap \in Row
      BY <2>0, <2>3, UpdateRequest DEF UpdateWrite
    <3>2. UpdatedRow(q.snap, q.snap, q.limit, q.active).consumed = q.snap.consumed
      BY <3>1 DEF UpdatedRow, Row
    <3> QED BY <2>3, <3>1, <3>2, WriteKeepsConsumed DEF UpdateWrite
  <2>4. CASE DropUser(r)
    <3>1. q.user \in Users
      BY <2>0, <2>4, UserRequest DEF DropUser
    <3>2. /\ account'[q.user] = NoUser
          /\ \A v \in Users : v # q.user => account'[v] = account[v] /\ ledger'[v] = ledger[v]
      BY <2>4, <3>1 DEF DropUser, TypeOK
    <3> QED BY <3>2 DEF ConsumedAgrees
  <2>5. CASE Invalidate(r) \/ PurgeRows(r) \/ ReadFound(r) \/ FillCache(r)
    BY <1>1, <2>5 DEF Invalidate, PurgeRows, ReadFound, FillCache
  <2> QED BY <1>2, <2>1, <2>2, <2>3, <2>4, <2>5 DEF Continue
<1>3. ASSUME NEW r \in Requests, NEW u \in Users, Begin(r, u)
      PROVE  ConsumedAgrees'
  BY <1>1, <1>3 DEF Begin, BeginDeduct, BeginAdjust, BeginUpdate, BeginDelete, BeginFind
<1>4. CASE \/ \E r \in Requests : Abandon(r)
           \/ \E u \in Users : CacheExpire(u)
           \/ UNCHANGED walletVars
  BY <1>1, <1>4 DEF Abandon, CacheExpire, walletVars
<1> QED BY <1>2, <1>3, <1>4 DEF WalletNext

\* A user just registered has consumed nothing.
LEMMA ConsumedAtFirst == WalletInit => ConsumedAgrees
BY ConsumedNothing DEF WalletInit, NewRow, ConsumedAgrees

\* total_consumed is what the transactions of the user add up to at all
\* times: a debit and a refund that overlap never lose one another's part.
THEOREM WalletConsumed == WalletSpec => []ConsumedAgrees
<1>1. WalletInv /\ ConsumedAgrees /\ [WalletNext]_walletVars => ConsumedAgrees'
  BY WalletStepConsumed DEF WalletInv
<1> QED BY <1>1, ConsumedAtFirst, WalletInvariant, PTL DEF WalletSpec

-----------------------------------------------------------------------------
(* The abstract ledger.                                                    *)

\* A write that goes in replaces exactly the row its request read.
LEMMA WriteSeesItsRow ==
    ASSUME WalletInv, NEW r \in Requests, req[r].step \in {"deduct", "adjust", "update"},
           RowMatches(req[r].snap, account[req[r].user])
    PROVE  /\ account[req[r].user] = req[r].snap
           /\ account[req[r].user] # NoUser
BY DEF WalletInv, RowMatches, SnapshotsTellTheirAge, NotAhead

\* The balance of a row is the balance of the abstract account.
LEMMA BalanceIsStatement ==
    ASSUME WalletInv, NEW u \in Users, account[u] # NoUser
    PROVE  Ledger!Balance(u) = account[u].balance
BY DEF WalletInv, LedgerComplete, EndOf, Ledger!Balance

\* Every operation of the abstract ledger is one of its steps.
LEMMA LedgerSteps ==
    ASSUME NEW u \in Users, NEW amount \in Amounts, NEW type \in Types,
           NEW reason \in RowReasons, NEW newLimit \in Limits,
           \/ Ledger!Debit(u, amount, type, reason)
           \/ Ledger!Credit(u, amount, type, reason)
           \/ Ledger!SetLimit(u, newLimit)
           \/ Ledger!Close(u)
    PROVE  Ledger!Next
BY DEF Ledger!Next

\* A debit that goes in is the abstract debit, funds and all.
LEMMA DeductRefines ==
    ASSUME WalletInv, NEW r \in Requests, DeductWrite(r)
    PROVE  [Ledger!Next]_(Ledger!vars)
<1>0. PICK q \in Request : q = req[r]
  BY DEF WalletInv, TypeOK
<1> DEFINE u == q.user
<1>1. /\ u \in Users /\ q.snap \in Row /\ q.amount \in Amounts
      /\ q.type \in Types /\ q.reason \in RowReasons
  BY <1>0, DeductRequest DEF DeductWrite, Types, RowReasons
<1>2. CASE RowMatches(q.snap, account[u])
  <2>1. account[u] = q.snap /\ account[u] # NoUser
    BY <1>0, <1>2, WriteSeesItsRow DEF DeductWrite
  <2>2. /\ account' = [account EXCEPT ![u] = DeductedRow(q.snap, q.snap, q.amount)]
        /\ ledger' = [ledger EXCEPT ![u] = @ \o
              <<RowOf(-q.amount, q.snap.balance, q.type, q.reason)>>]
    BY <1>0, <1>2, <2>1 DEF DeductWrite, VersionedWrite
  <2>3. /\ account' \in [Users -> Row \union {NoUser}]
        /\ account'[u] # NoUser
        /\ account'[u].credit = account[u].credit
        /\ \A v \in Users : v # u => account'[v] = account[v]
    <3>1. DeductedRow(q.snap, q.snap, q.amount) \in Row
      BY <1>1, DeductedTypes
    <3>2. DeductedRow(q.snap, q.snap, q.amount).credit = q.snap.credit
      BY <1>1 DEF DeductedRow, Row
    <3> QED BY <1>1, <2>1, <2>2, <3>1, <3>2, NoUserAssumption DEF WalletInv, TypeOK
  <2>4. Ledger!Balance(u) = q.snap.balance
    BY <1>1, <2>1, BalanceIsStatement
  <2>5. q.snap.balance + q.snap.credit >= q.amount
    BY <1>0 DEF WalletInv, FundsSeen, SufficientFunds, DeductWrite
  <2>6. Ledger!Debit(u, q.amount, q.type, q.reason)
    <3>1. [v \in Users |-> account[v] # NoUser]' = [v \in Users |-> account[v] # NoUser]
      BY <2>1, <2>3
    <3>2. [v \in Users |-> IF account[v] = NoUser THEN 0 ELSE account[v].credit]'
             = [v \in Users |-> IF account[v] = NoUser THEN 0 ELSE account[v].credit]
      BY <2>1, <2>3
    <3>3. [v \in Users |-> IF account[v] = NoUser THEN <<>> ELSE ledger[v]]'
             = [[v \in Users |-> IF account[v] = NoUser THEN <<>> ELSE ledger[v]]
                  EXCEPT ![u] = Append(@,
                     RowOf(-q.amount, q.snap.balance, q.type, q.reason))]
      <4>1. ledger[u] \in Seq(Entry) /\ ledger'[u] = Append(ledger[u],
               RowOf(-q.amount, q.snap.balance, q.type, q.reason))
        BY <1>1, <2>2 DEF WalletInv, TypeOK
      <4>2. \A v \in Users : v # u => ledger'[v] = ledger[v]
        BY <2>2 DEF WalletInv, TypeOK
      <4> QED BY <1>1, <2>1, <2>3, <4>1, <4>2
    <3> QED BY <1>1, <2>1, <2>4, <2>5, <3>1, <3>2, <3>3
            DEF Ledger!Debit, Ledger!Record, RowOf
  <2> QED BY <1>1, <2>6, LedgerSteps, LimitsAssumption
<1>3. CASE ~ RowMatches(q.snap, account[u])
  BY <1>0, <1>3 DEF DeductWrite, VersionedWrite, Ledger!vars
<1> QED BY <1>2, <1>3

\* A credit or a refund that goes in is the abstract credit.
LEMMA AdjustRefines ==
    ASSUME WalletInv, NEW r \in Requests, AdjustWrite(r)
    PROVE  [Ledger!Next]_(Ledger!vars)
<1>0. PICK q \in Request : q = req[r]
  BY DEF WalletInv, TypeOK
<1> DEFINE u == q.user
           row == AdjustedRow(q.snap, q.snap, q.amount, q.type)
           e == RowOf(q.amount, q.snap.balance, q.type, q.reason)
<1>1. /\ u \in Users /\ q.snap \in Row /\ q.amount \in Amounts
      /\ q.type \in Types /\ q.reason \in RowReasons
  BY <1>0, AdjustRequest DEF AdjustWrite, Types, RowReasons
<1>2. CASE RowMatches(q.snap, account[u])
  <2>1. account[u] = q.snap /\ account[u] # NoUser
    BY <1>0, <1>2, WriteSeesItsRow DEF AdjustWrite
  <2>2. /\ account' = [account EXCEPT ![u] = row]
        /\ ledger' = [ledger EXCEPT ![u] = @ \o <<e>>]
    BY <1>0, <1>2, <2>1 DEF AdjustWrite, VersionedWrite
  <2>3. /\ account' \in [Users -> Row \union {NoUser}]
        /\ account'[u] # NoUser
        /\ account'[u].credit = account[u].credit
        /\ \A v \in Users : v # u => account'[v] = account[v]
    <3>1. row \in Row
      BY <1>1, AdjustedTypes
    <3>2. row.credit = q.snap.credit
      BY <1>1 DEF AdjustedRow, Row
    <3> QED BY <1>1, <2>1, <2>2, <3>1, <3>2, NoUserAssumption DEF WalletInv, TypeOK
  <2>4. Ledger!Balance(u) = q.snap.balance
    BY <1>1, <2>1, BalanceIsStatement
  <2>5. Ledger!Credit(u, q.amount, q.type, q.reason)
    <3>1. [v \in Users |-> account[v] # NoUser]' = [v \in Users |-> account[v] # NoUser]
      BY <2>1, <2>3
    <3>2. [v \in Users |-> IF account[v] = NoUser THEN 0 ELSE account[v].credit]'
             = [v \in Users |-> IF account[v] = NoUser THEN 0 ELSE account[v].credit]
      BY <2>1, <2>3
    <3>3. [v \in Users |-> IF account[v] = NoUser THEN <<>> ELSE ledger[v]]'
             = [[v \in Users |-> IF account[v] = NoUser THEN <<>> ELSE ledger[v]]
                  EXCEPT ![u] = Append(@, e)]
      <4>1. ledger[u] \in Seq(Entry) /\ ledger'[u] = Append(ledger[u], e)
        BY <1>1, <2>2 DEF WalletInv, TypeOK
      <4>2. \A v \in Users : v # u => ledger'[v] = ledger[v]
        BY <2>2 DEF WalletInv, TypeOK
      <4> QED BY <1>1, <2>1, <2>3, <4>1, <4>2
    <3> QED BY <1>1, <2>1, <2>4, <3>1, <3>2, <3>3
            DEF Ledger!Credit, Ledger!Record, RowOf
  <2> QED BY <1>1, <2>5, LedgerSteps, LimitsAssumption
<1>3. CASE ~ RowMatches(q.snap, account[u])
  BY <1>0, <1>3 DEF AdjustWrite, VersionedWrite, Ledger!vars
<1> QED BY <1>2, <1>3

\* An update that goes in sets the abstract limit.
LEMMA UpdateRefines ==
    ASSUME WalletInv, NEW r \in Requests, UpdateWrite(r)
    PROVE  [Ledger!Next]_(Ledger!vars)
<1>0. PICK q \in Request : q = req[r]
  BY DEF WalletInv, TypeOK
<1> DEFINE u == q.user
           row == UpdatedRow(q.snap, q.snap, q.limit, q.active)
<1>1. u \in Users /\ q.snap \in Row /\ q.limit \in Limits /\ q.active \in BOOLEAN
  BY <1>0, UpdateRequest DEF UpdateWrite
<1>2. CASE RowMatches(q.snap, account[u])
  <2>1. account[u] = q.snap /\ account[u] # NoUser
    BY <1>0, <1>2, WriteSeesItsRow DEF UpdateWrite
  <2>2. /\ account' = [account EXCEPT ![u] = row]
        /\ ledger' = ledger
    BY <1>0, <1>2, <2>1 DEF UpdateWrite, VersionedWrite, WalletInv, TypeOK
  <2>3. /\ account' \in [Users -> Row \union {NoUser}]
        /\ account'[u] # NoUser
        /\ account'[u].credit = q.limit
        /\ \A v \in Users : v # u => account'[v] = account[v]
    <3>1. row \in Row
      BY <1>1, UpdatedType
    <3>2. row.credit = q.limit
      BY <1>1 DEF UpdatedRow, Row
    <3> QED BY <1>1, <2>2, <3>1, <3>2, NoUserAssumption DEF WalletInv, TypeOK
  <2>4. Ledger!SetLimit(u, q.limit)
    <3>1. [v \in Users |-> account[v] # NoUser]' = [v \in Users |-> account[v] # NoUser]
      BY <2>1, <2>3
    <3>2. [v \in Users |-> IF account[v] = NoUser THEN 0 ELSE account[v].credit]'
             = [[v \in Users |-> IF account[v] = NoUser THEN 0 ELSE account[v].credit]
                  EXCEPT ![u] = q.limit]
      BY <1>1, <2>1, <2>3
    <3>3. [v \in Users |-> IF account[v] = NoUser THEN <<>> ELSE ledger[v]]'
             = [v \in Users |-> IF account[v] = NoUser THEN <<>> ELSE ledger[v]]
      BY <2>1, <2>2, <2>3
    <3> QED BY <1>1, <2>1, <3>1, <3>2, <3>3 DEF Ledger!SetLimit
  <2>5. Ledger!Next
    BY <1>1, <2>4 DEF Ledger!Next
  <2> QED BY <2>5
<1>3. CASE ~ RowMatches(q.snap, account[u])
  BY <1>0, <1>3 DEF UpdateWrite, VersionedWrite, Ledger!vars
<1> QED BY <1>2, <1>3

\* The second DELETE closes the abstract account, unless another deletion
\* closed it before.
LEMMA DropRefines ==
    ASSUME WalletInv, NEW r \in Requests, DropUser(r)
    PROVE  [Ledger!Next]_(Ledger!vars)
<1>0. PICK q \in Request : q = req[r]
  BY DEF WalletInv, TypeOK
<1> DEFINE u == q.user
<1>1. /\ u \in Users
      /\ account' = [account EXCEPT ![u] = NoUser]
      /\ \A v \in Users : v # u => account'[v] = account[v] /\ ledger'[v] = ledger[v]
  BY <1>0, UserRequest DEF DropUser, WalletInv, TypeOK
<1>2. CASE account[u] # NoUser
  <2>1. Ledger!Close(u)
    <3>1. [v \in Users |-> account[v] # NoUser]'
             = [[v \in Users |-> account[v] # NoUser] EXCEPT ![u] = FALSE]
      BY <1>1 DEF WalletInv, TypeOK
    <3>2. [v \in Users |-> IF account[v] = NoUser THEN 0 ELSE account[v].credit]'
             = [[v \in Users |-> IF account[v] = NoUser THEN 0 ELSE account[v].credit]
                  EXCEPT ![u] = 0]
      BY <1>1 DEF WalletInv, TypeOK
    <3>3. [v \in Users |-> IF account[v] = NoUser THEN <<>> ELSE ledger[v]]'
             = [[v \in Users |-> IF account[v] = NoUser THEN <<>> ELSE ledger[v]]
                  EXCEPT ![u] = <<>>]
      BY <1>1 DEF WalletInv, TypeOK
    <3> QED BY <1>1, <1>2, <3>1, <3>2, <3>3 DEF Ledger!Close
  <2>2. Ledger!Next
    BY <1>1, <2>1 DEF Ledger!Next
  <2> QED BY <2>2
<1>3. CASE account[u] = NoUser
  <2>1. account' = account
    BY <1>1, <1>3 DEF WalletInv, TypeOK
  <2>2. [v \in Users |-> IF account[v] = NoUser THEN <<>> ELSE ledger[v]]'
           = [v \in Users |-> IF account[v] = NoUser THEN <<>> ELSE ledger[v]]
    BY <1>1, <1>3, <2>1
  <2> QED BY <2>1, <2>2 DEF Ledger!vars
<1> QED BY <1>2, <1>3

\* Every step of the wallet is a step of the abstract ledger, or none.
LEMMA WalletStepRefines ==
    ASSUME WalletInv, [WalletNext]_walletVars
    PROVE  [Ledger!Next]_(Ledger!vars)
<1>1. CASE UNCHANGED <<account, ledger>>
  BY <1>1 DEF Ledger!vars
<1>2. ASSUME NEW r \in Requests, Continue(r)
      PROVE  [Ledger!Next]_(Ledger!vars)
  <2>1. CASE DeductWrite(r) BY <2>1, DeductRefines
  <2>2. CASE AdjustWrite(r) BY <2>2, AdjustRefines
  <2>3. CASE UpdateWrite(r) BY <2>3, UpdateRefines
  <2>4. CASE DropUser(r) BY <2>4, DropRefines
  <2>5. CASE Invalidate(r) \/ PurgeRows(r) \/ ReadFound(r) \/ FillCache(r)
    BY <1>1, <2>5 DEF Invalidate, PurgeRows, ReadFound, FillCache
  <2> QED BY <1>2, <2>1, <2>2, <2>3, <2>4, <2>5 DEF Continue
<1>3. ASSUME NEW r \in Requests, NEW u \in Users, Begin(r, u)
      PROVE  [Ledger!Next]_(Ledger!vars)
  BY <1>1, <1>3 DEF Begin, BeginDeduct, BeginAdjust, BeginUpdate, BeginDelete, BeginFind
<1>4. CASE \/ \E r \in Requests : Abandon(r)
           \/ \E u \in Users : CacheExpire(u)
           \/ UNCHANGED walletVars
  BY <1>1, <1>4 DEF Abandon, CacheExpire, walletVars
<1> QED BY <1>2, <1>3, <1>4 DEF WalletNext

\* A user just registered is an open account without rows or limit.
LEMMA LedgerAtFirst == WalletInit => Ledger!Init
<1> SUFFICES ASSUME WalletInit PROVE Ledger!Init
  OBVIOUS
<1>1. \A u \in Users : account[u] # NoUser /\ account[u].credit = 0
  <2>1. NewRow \in Row
    BY DEF NewRow, Row
  <2> QED BY <2>1, NoUserAssumption DEF WalletInit, NewRow
<1> QED BY <1>1 DEF WalletInit, Ledger!Init

\* The wallet, with its optimistic transactions, implements the ledger whose
\* operations are atomic and whose balance is its statement.
THEOREM WalletImplementsLedger == WalletSpec => ImplementsLedger
<1>1. WalletInit => Ledger!Init
  BY LedgerAtFirst
<1>2. WalletInv /\ [WalletNext]_walletVars => [Ledger!Next]_(Ledger!vars)
  BY WalletStepRefines
<1> QED BY <1>1, <1>2, WalletInvariant, PTL
        DEF WalletSpec, ImplementsLedger, Ledger!Spec

-----------------------------------------------------------------------------
(* Overdrafts.                                                             *)

\* What a write that goes in does to the balance: only a debit lowers it,
\* and the debit was covered by the very row it replaces.
LEMMA WriteOverdraft ==
    ASSUME WalletInv, NEW r \in Requests,
           DeductWrite(r) \/ AdjustWrite(r) \/ UpdateWrite(r),
           NEW u \in Users, account[u] # NoUser, account'[u] # NoUser,
           account'[u].balance < account[u].balance
    PROVE  account'[u].balance + account'[u].credit >= 0
<1> DEFINE q == req[r]
<1>0. q \in Request /\ account \in [Users -> Row \union {NoUser}]
  BY DEF WalletInv, TypeOK
<1>1. q.user = u /\ RowMatches(q.snap, account[u])
  BY <1>0 DEF DeductWrite, AdjustWrite, UpdateWrite, VersionedWrite, Row
<1>2. q.snap = account[u]
  BY <1>1, WriteSeesItsRow DEF DeductWrite, AdjustWrite, UpdateWrite
<1>3. account[u] \in Row
  BY <1>0
<1>4. CASE DeductWrite(r)
  <2>1. q.amount \in Amounts /\ account'[u] = DeductedRow(account[u], q.snap, q.amount)
    BY <1>0, <1>1, <1>4, DeductRequest DEF DeductWrite, VersionedWrite
  <2>2. account[u].balance + account[u].credit >= q.amount
    BY <1>2, <1>4 DEF DeductWrite, WalletInv, FundsSeen, SufficientFunds
  <2>3. /\ account'[u].balance = account[u].balance - q.amount
        /\ account'[u].credit = account[u].credit
    BY <1>2, <1>3, <2>1 DEF DeductedRow, Row
  <2>4. account[u].balance \in Int /\ account[u].credit \in Int
    BY <1>3 DEF Row
  <2>5. q.amount \in Nat
    BY <1>0, <1>4, DeductRequest, AmountsAssumption DEF DeductWrite
  <2> QED BY <2>2, <2>3, <2>4, <2>5
<1>5. CASE AdjustWrite(r)
  <2>1. /\ q.amount \in Nat
        /\ account'[u] = AdjustedRow(account[u], q.snap, q.amount, q.type)
    BY <1>0, <1>1, <1>5, AdjustRequest, AmountsAssumption DEF AdjustWrite, VersionedWrite
  <2>2. account'[u].balance = account[u].balance + q.amount
    BY <1>2, <1>3, <2>1 DEF AdjustedRow, Row
  <2> QED BY <1>3, <2>1, <2>2 DEF Row
<1>6. CASE UpdateWrite(r)
  <2>1. account'[u] = UpdatedRow(account[u], q.snap, q.limit, q.active)
    BY <1>0, <1>1, <1>6 DEF UpdateWrite, VersionedWrite
  <2>2. account'[u].balance = account[u].balance
    BY <1>3, <2>1 DEF UpdatedRow, Row
  <2> QED BY <1>3, <2>2 DEF Row
<1> QED BY <1>4, <1>5, <1>6

\* A step that takes money from an account leaves it within its credit.
LEMMA WalletStepCovered ==
    ASSUME WalletInv, [WalletNext]_walletVars
    PROVE  [\A u \in Users :
               account[u] # NoUser /\ account'[u] # NoUser /\
               account'[u].balance < account[u].balance =>
                  account'[u].balance + account'[u].credit >= 0]_walletVars
<1> SUFFICES ASSUME WalletNext, NEW u \in Users,
                    account[u] # NoUser, account'[u] # NoUser,
                    account'[u].balance < account[u].balance
             PROVE  account'[u].balance + account'[u].credit >= 0
  OBVIOUS
<1>0. account \in [Users -> Row \union {NoUser}]
  BY DEF WalletInv, TypeOK
<1>1. account'[u] # account[u]
  BY <1>0 DEF Row
<1>2. ASSUME NEW r \in Requests, Continue(r)
      PROVE  DeductWrite(r) \/ AdjustWrite(r) \/ UpdateWrite(r)
  <2>1. CASE DropUser(r)
    BY <1>0, <1>1, <2>1 DEF DropUser
  <2> QED BY <1>1, <1>2, <2>1 DEF Continue, Invalidate, PurgeRows, ReadFound, FillCache
<1>3. ASSUME NEW r \in Requests, NEW v \in Users, Begin(r, v)
      PROVE  FALSE
  BY <1>1, <1>3 DEF Begin, BeginDeduct, BeginAdjust, BeginUpdate, BeginDelete, BeginFind
<1>4. PICK r \in Requests : Continue(r)
  BY <1>1, <1>3 DEF WalletNext, Abandon, CacheExpire
<1> QED BY <1>2, <1>4, WriteOverdraft

\* No interleaving of debits, credits, limit changes and deletions takes an
\* account below its credit.
THEOREM WalletNoOverdraft == WalletSpec => NoOverdraft
BY WalletStepCovered, WalletInvariant, PTL DEF WalletSpec, NoOverdraft

=============================================================================
