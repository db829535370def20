---------------------------- MODULE ChargesProofs ----------------------------
(***************************************************************************)
(* Proofs about Charges, for any tasks, handlers, workers, administrators  *)
(* and prices: tasks and charges come in pairs, refunds are of paid runs.  *)
(***************************************************************************)
EXTENDS Charges, TasksProofs

-----------------------------------------------------------------------------
(* The purse.                                                              *)

Goroutines == Handlers \union Workers \union Others

Named == TaskIds \union {Manual}

\* What a goroutine about to write the balance holds.
LEMMA PurseRequest ==
    ASSUME NEW q \in Purse!Request, q.step \in {"deduct", "adjust"}
    PROVE  /\ q.user = Owner /\ q.snap \in Purse!Row /\ q.amount = Price
           /\ q.reason \in Named
           /\ q.step = "deduct" => q.type \in Purse!DeductTypes
           /\ q.step = "adjust" => q.type \in Purse!AdjustTypes
BY DEF Purse!Request, Purse!Idle, Named

\* Idle is the same word in both modules.
LEMMA IdleIsIdle == Purse!Idle = Idle /\ Idle.step = "idle"
BY DEF Purse!Idle, Idle

\* What is read and held is a row of the table.
LEMMA PurseRead ==
    ASSUME Purse!TypeOK, NEW g \in Goroutines, NEW reason \in Named,
           \/ \E type \in Purse!DeductTypes :
                 Purse!BeginDeduct(g, Owner, Price, type, reason)
           \/ \E type \in Purse!AdjustTypes :
                 Purse!BeginAdjust(g, Owner, Price, type, reason)
    PROVE  /\ Purse!TypeOK'
           /\ req[g] = Idle /\ UNCHANGED ledger
           /\ \A f \in Goroutines : f # g => req'[f] = req[f]
<1>1. account[Owner] \in Purse!Row /\ req[g] = Idle
  BY IdleIsIdle DEF Purse!TypeOK, Purse!BeginDeduct, Purse!BeginAdjust, Purse!CanRead
<1>2. ASSUME NEW type \in Purse!DeductTypes,
             Purse!BeginDeduct(g, Owner, Price, type, reason)
      PROVE  Purse!TypeOK'
  <2>1. [step |-> "deduct", user |-> Owner, snap |-> account[Owner], amount |-> Price,
         type |-> type, reason |-> reason] \in Purse!Request
    BY <1>1 DEF Purse!Request, Named
  <2> QED BY <1>2, <2>1 DEF Purse!BeginDeduct, Purse!Goto, Purse!TypeOK
<1>3. ASSUME NEW type \in Purse!AdjustTypes,
             Purse!BeginAdjust(g, Owner, Price, type, reason)
      PROVE  Purse!TypeOK'
  <2>1. [step |-> "adjust", user |-> Owner, snap |-> account[Owner], amount |-> Price,
         type |-> type, reason |-> reason] \in Purse!Request
    BY <1>1 DEF Purse!Request, Named
  <2> QED BY <1>3, <2>1 DEF Purse!BeginAdjust, Purse!Goto, Purse!TypeOK
<1>4. UNCHANGED ledger /\ \A f \in Goroutines : f # g => req'[f] = req[f]
  BY DEF Purse!BeginDeduct, Purse!BeginAdjust, Purse!Goto, Purse!TypeOK, Goroutines
<1> QED BY <1>1, <1>2, <1>3, <1>4

\* A write that goes in appends its one row; a refused one changes nothing.
LEMMA PurseWrite ==
    ASSUME Purse!TypeOK, NEW g \in Goroutines,
           Purse!DeductWrite(g) \/ Purse!AdjustWrite(g)
    PROVE  /\ Purse!TypeOK'
           /\ req[g].step \in {"deduct", "adjust"}
           /\ req'[g].step \in {"idle", "invalidate"}
           /\ \A f \in Goroutines : f # g => req'[f] = req[f]
           /\ IF Purse!RowMatches(req[g].snap, account[Owner])
              THEN \E entry \in Purse!Entry :
                      /\ entry.reason = req[g].reason /\ entry.type = req[g].type
                      /\ ledger' = [ledger EXCEPT ![Owner] = @ \o <<entry>>]
              ELSE UNCHANGED ledger
<1> DEFINE q == req[g]
<1>1. q \in Purse!Request /\ q.step \in {"deduct", "adjust"}
  BY DEF Purse!TypeOK, Purse!DeductWrite, Purse!AdjustWrite, Goroutines
<1>2. /\ q.user = Owner /\ q.snap \in Purse!Row /\ q.amount = Price
      /\ q.reason \in Named /\ q.type \in Purse!Types
  BY <1>1, PurseRequest DEF Purse!Types
<1>3. PICK row, entry :
         /\ account[Owner] \in Purse!Row => row \in Purse!Row
         /\ entry \in Purse!Entry /\ entry.reason = q.reason /\ entry.type = q.type
         /\ \/ /\ Purse!RowMatches(q.snap, account[Owner])
               /\ account' = [account EXCEPT ![Owner] = row]
               /\ ledger' = [ledger EXCEPT ![Owner] = @ \o <<entry>>]
               /\ req' = [req EXCEPT ![g] = [step |-> "invalidate", user |-> Owner]]
               /\ UNCHANGED cache
            \/ /\ ~ Purse!RowMatches(q.snap, account[Owner])
               /\ req' = [req EXCEPT ![g] = Purse!Idle]
               /\ UNCHANGED <<account, ledger, cache>>
  <2>1. /\ q.snap.balance - Price \in Int /\ q.snap.consumed + Price \in Int
        /\ q.snap.balance + Price \in Int /\ q.snap.consumed - Price \in Int
        /\ q.snap.balance + (-Price) \in Int /\ q.snap.balance \in Int
        /\ q.snap.version + 1 \in Nat \ {0} /\ Price \in Int /\ -Price \in Int
    BY <1>2, PriceAssumption DEF Purse!Row
  <2>2. q.reason \in Purse!RowReasons
    BY <1>2 DEF Purse!RowReasons, Named
  <2>3. CASE Purse!DeductWrite(g)
    <3>1. PICK row : row = Purse!DeductedRow(account[Owner], q.snap, Price)
      OBVIOUS
    <3>2. PICK entry : entry = Purse!RowOf(-Price, q.snap.balance, q.type, q.reason)
      OBVIOUS
    <3>3. account[Owner] \in Purse!Row => row \in Purse!Row
      BY <2>1, <3>1 DEF Purse!DeductedRow, Purse!Row
    <3>4. entry \in Purse!Entry /\ entry.reason = q.reason /\ entry.type = q.type
      BY <1>2, <2>1, <2>2, <3>2 DEF Purse!RowOf, Purse!Entry
    <3>5. \/ /\ Purse!RowMatches(q.snap, account[Owner])
             /\ account' = [account EXCEPT ![Owner] = row]
             /\ ledger' = [ledger EXCEPT ![Owner] = @ \o <<entry>>]
             /\ req' = [req EXCEPT ![g] = [step |-> "invalidate", user |-> Owner]]
             /\ UNCHANGED cache
          \/ /\ ~ Purse!RowMatches(q.snap, account[Owner])
             /\ req' = [req EXCEPT ![g] = Purse!Idle]
             /\ UNCHANGED <<account, ledger, cache>>
      BY <1>2, <2>3, <3>1, <3>2 DEF Purse!DeductWrite, Purse!VersionedWrite, Purse!Goto
    <3> QED BY <3>3, <3>4, <3>5
  <2>4. CASE Purse!AdjustWrite(g)
    <3>1. PICK row : row = Purse!AdjustedRow(account[Owner], q.snap, Price, q.type)
      OBVIOUS
    <3>2. PICK entry : entry = Purse!RowOf(Price, q.snap.balance, q.type, q.reason)
      OBVIOUS
    <3>3. account[Owner] \in Purse!Row => row \in Purse!Row
      BY <2>1, <3>1 DEF Purse!AdjustedRow, Purse!Row
    <3>4. entry \in Purse!Entry /\ entry.reason = q.reason /\ entry.type = q.type
      BY <1>2, <2>1, <2>2, <3>2 DEF Purse!RowOf, Purse!Entry
    <3>5. \/ /\ Purse!RowMatches(q.snap, account[Owner])
             /\ account' = [account EXCEPT ![Owner] = row]
             /\ ledger' = [ledger EXCEPT ![Owner] = @ \o <<entry>>]
             /\ req' = [req EXCEPT ![g] = [step |-> "invalidate", user |-> Owner]]
             /\ UNCHANGED cache
          \/ /\ ~ Purse!RowMatches(q.snap, account[Owner])
             /\ req' = [req EXCEPT ![g] = Purse!Idle]
             /\ UNCHANGED <<account, ledger, cache>>
      BY <1>2, <2>4, <3>1, <3>2 DEF Purse!AdjustWrite, Purse!VersionedWrite, Purse!Goto
    <3> QED BY <3>3, <3>4, <3>5
  <2> QED BY <2>3, <2>4
<1>6. /\ [step |-> "invalidate", user |-> Owner] \in Purse!Request
      /\ Purse!Idle \in Purse!Request /\ Purse!Idle.step = "idle"
  BY DEF Purse!Request, Purse!Idle
<1>7. CASE Purse!RowMatches(q.snap, account[Owner])
  <2>1. /\ account' = [account EXCEPT ![Owner] = row]
        /\ ledger' = [ledger EXCEPT ![Owner] = @ \o <<entry>>]
        /\ req' = [req EXCEPT ![g] = [step |-> "invalidate", user |-> Owner]]
        /\ UNCHANGED cache
    BY <1>3, <1>7
  <2>2. row \in Purse!Row
    BY <1>3, <1>7 DEF Purse!RowMatches, Purse!TypeOK
  <2>3. ledger[Owner] \o <<entry>> \in Seq(Purse!Entry)
    BY <1>3 DEF Purse!TypeOK
  <2>4. Purse!TypeOK'
    BY <1>6, <2>1, <2>2, <2>3 DEF Purse!TypeOK
  <2>5. /\ req'[g].step = "invalidate"
        /\ \A f \in Goroutines : f # g => req'[f] = req[f]
    BY <2>1 DEF Purse!TypeOK, Goroutines
  <2> QED BY <1>1, <1>3, <1>7, <2>1, <2>4, <2>5
<1>8. CASE ~ Purse!RowMatches(q.snap, account[Owner])
  <2>1. /\ req' = [req EXCEPT ![g] = Purse!Idle]
        /\ UNCHANGED <<account, ledger, cache>>
    BY <1>3, <1>8
  <2>2. Purse!TypeOK'
    BY <1>6, <2>1 DEF Purse!TypeOK
  <2>3. /\ req'[g].step = "idle"
        /\ \A f \in Goroutines : f # g => req'[f] = req[f]
    BY <1>6, <2>1 DEF Purse!TypeOK, Goroutines
  <2> QED BY <1>1, <1>8, <2>1, <2>2, <2>3
<1> QED BY <1>7, <1>8

\* Dropping the cached copy leaves the tables alone.
LEMMA PurseDrop ==
    ASSUME Purse!TypeOK, NEW g \in Goroutines, Purse!Invalidate(g)
    PROVE  /\ Purse!TypeOK' /\ UNCHANGED ledger
           /\ req'[g].step = "idle"
           /\ \A f \in Goroutines : f # g => req'[f] = req[f]
<1>1. Purse!Idle \in Purse!Request /\ Purse!Idle.step = "idle"
  BY DEF Purse!Request, Purse!Idle
<1>2. /\ cache' = [cache EXCEPT ![req[g].user] = NoUser]
      /\ req' = [req EXCEPT ![g] = Purse!Idle]
      /\ UNCHANGED <<account, ledger>>
  BY DEF Purse!Invalidate, Purse!Goto
<1> QED BY <1>1, <1>2 DEF Purse!TypeOK, Goroutines

\* The rows of a type that name a task, after one more row.
LEMMA RowsGrow ==
    ASSUME Purse!TypeOK, NEW entry \in Purse!Entry, NEW t, NEW type,
           ledger' = [ledger EXCEPT ![Owner] = @ \o <<entry>>]
    PROVE  IF entry.reason = t /\ entry.type = type
           THEN \E i : i \notin RowsOf(t, type) /\ RowsOf(t, type)' = RowsOf(t, type) \union {i}
           ELSE RowsOf(t, type)' = RowsOf(t, type)
<1>1. ledger[Owner] \in Seq(Purse!Entry)
  BY DEF Purse!TypeOK
<1>2. ledger'[Owner] = ledger[Owner] \o <<entry>>
  BY DEF Purse!TypeOK
<1> DEFINE n == Len(ledger[Owner])
<1>3. /\ n \in Nat /\ DOMAIN ledger[Owner] = 1..n
      /\ DOMAIN ledger'[Owner] = 1..(n + 1)
      /\ ledger'[Owner][n + 1] = entry
      /\ \A i \in 1..n : ledger'[Owner][i] = ledger[Owner][i]
  BY <1>1, <1>2
<1>4. n + 1 \notin RowsOf(t, type)
  BY <1>3 DEF RowsOf
<1>5. RowsOf(t, type)' = RowsOf(t, type)
         \union (IF entry.reason = t /\ entry.type = type THEN {n + 1} ELSE {})
  BY <1>3 DEF RowsOf
<1> QED BY <1>4, <1>5


-----------------------------------------------------------------------------
(* The tasks.                                                              *)

ChargingTypeOK ==
    charging \in [Handlers -> {NoTask} \union [task : TaskIds, input : Kinds]]

\* A row that is a copy of the row of t costs what the task costs.
CopyOf(t, row) == task[t] # NoTask /\ row.cost = task[t].cost

CostKept ==
    /\ \A h \in Handlers :
          handler[h].step = "save" => CopyOf(handler[h].task, handler[h].row)
    /\ \A w \in Workers :
          worker[w].step \in RowSteps => CopyOf(worker[w].task, worker[w].row)
    /\ \A w \in Workers : worker[w].step = "refund" => worker[w].row.cost

\* Tasks stay, and cost what they cost.
SameTasks ==
    \A x \in TaskIds : /\ task'[x] = NoTask <=> task[x] = NoTask
                       /\ task[x] # NoTask => task'[x].cost = task[x].cost

\* Saving a copy keeps the tasks and what they cost.
LEMMA SaveOfCopy ==
    ASSUME TypeOK, NEW t \in TaskIds, NEW row \in TaskRow, CopyOf(t, row),
           task' = [task EXCEPT ![t] = row] \/ task' = task
    PROVE  SameTasks
<1>1. CASE task' = task
  BY <1>1 DEF SameTasks
<1>2. CASE task' = [task EXCEPT ![t] = row]
  BY <1>2, NoTaskAssumption DEF SameTasks, CopyOf, TypeOK
<1> QED BY <1>1, <1>2

\* What copies say of the cost they go on saying while tasks are the same.
LEMMA CostGoesOn ==
    ASSUME TypeOK, CostKept, SameTasks,
           \A h \in Handlers :
              \/ handler'[h] = handler[h]
              \/ handler'[h].step = "save" =>
                    /\ handler'[h].task \in TaskIds
                    /\ CopyOf(handler'[h].task, handler'[h].row),
           \A w \in Workers :
              \/ worker'[w] = worker[w]
              \/ /\ worker'[w].step \in RowSteps =>
                       /\ worker'[w].task \in TaskIds
                       /\ CopyOf(worker'[w].task, worker'[w].row)
                 /\ worker'[w].step = "refund" => worker'[w].row.cost
    PROVE  CostKept'
<1>1. ASSUME NEW h \in Handlers, handler'[h].step = "save"
      PROVE  /\ task'[handler'[h].task] # NoTask
             /\ handler'[h].row.cost = task'[handler'[h].task].cost
  <2>1. handler'[h].task \in TaskIds /\ CopyOf(handler'[h].task, handler'[h].row)
    BY <1>1, HandlerHoldsRow DEF CostKept, TypeOK
  <2> QED BY <2>1 DEF CopyOf, SameTasks
<1>2. ASSUME NEW w \in Workers, worker'[w].step \in RowSteps
      PROVE  /\ task'[worker'[w].task] # NoTask
             /\ worker'[w].row.cost = task'[worker'[w].task].cost
  <2>1. worker'[w].task \in TaskIds /\ CopyOf(worker'[w].task, worker'[w].row)
    BY <1>2, WorkerHoldsRow DEF CostKept, TypeOK, RowSteps
  <2> QED BY <2>1 DEF CopyOf, SameTasks
<1>3. \A w \in Workers : worker'[w].step = "refund" => worker'[w].row.cost
  BY DEF CostKept
<1> QED BY <1>1, <1>2, <1>3 DEF CostKept, CopyOf


\* An execution that costs what its task costs goes on doing so.
LEMMA ExecutionKeepsCost ==
    ASSUME TypeOK, CostKept, NEW w \in Workers,
           Pop(w) \/ ContinueWorker(w)
    PROVE  SameTasks /\ CostKept'
<1> DEFINE q == worker[w]
<1>1. q.step \in RowSteps =>
         /\ q \in [step : RowSteps, task : TaskIds, row : TaskRow]
         /\ q.task \in TaskIds /\ q.row \in TaskRow /\ CopyOf(q.task, q.row)
  BY WorkerHoldsRow DEF RowSteps, TypeOK, CostKept
<1>2. \A v \in Workers : v # w => worker'[v] = worker[v]
  BY DEF Pop, ContinueWorker, ReadTask, StartTask, Submit, SaveRemote, Succeed,
         Fail, Complete, Requeue, LastFailure, Refund, GiveUp,
         WorkerTo, TypeOK
<1>3. UNCHANGED handler
  BY DEF Pop, ContinueWorker, ReadTask, StartTask, Submit, SaveRemote, Succeed,
         Fail, Complete, Requeue, LastFailure, Refund, GiveUp
<1>g. ASSUME \/ task' = task
             \/ q.step \in RowSteps /\ \E row \in TaskRow :
                   row.cost = q.row.cost /\ Saved(q.task, row),
             worker'[w].step \in RowSteps =>
                worker'[w].task \in TaskIds /\ CopyOf(worker'[w].task, worker'[w].row),
             worker'[w].step = "refund" => worker'[w].row.cost
      PROVE  SameTasks /\ CostKept'
  <2>1. SameTasks
    <3>1. CASE task' = task
      BY <3>1 DEF SameTasks
    <3>2. CASE q.step \in RowSteps /\ \E row \in TaskRow :
                  row.cost = q.row.cost /\ Saved(q.task, row)
      <4>1. PICK row \in TaskRow : row.cost = q.row.cost /\ Saved(q.task, row)
        BY <3>2
      <4>2. PICK t \in TaskIds : t = q.task
        BY <1>1, <3>2
      <4>3. CopyOf(t, row)
        BY <1>1, <3>2, <4>1, <4>2 DEF CopyOf
      <4> QED BY <4>1, <4>2, <4>3, SaveOfCopy DEF Saved
    <3> QED BY <1>g, <3>1, <3>2
  <2> QED BY <1>2, <1>3, <1>g, <2>1, CostGoesOn
<1>4. CASE Pop(w)
  <2>1. task' = task /\ worker'[w] = [step |-> "read", task |-> Head(queue)]
    BY <1>4 DEF Pop, WorkerTo, TypeOK
  <2>2. worker'[w].step = "read"
    BY <2>1
  <2> QED BY <1>g, <2>1, <2>2 DEF RowSteps
<1>5. CASE ReadTask(w)
  <2> DEFINE started == [step |-> "start", task |-> q.task,
                         row |-> [task[q.task] EXCEPT !.status = "processing"]]
  <2>1. /\ q.step = "read" /\ task' = task
        /\ \/ worker'[w] = Idle
           \/ task[q.task] # NoTask /\ worker'[w] = started
    BY <1>5 DEF ReadTask, WorkerTo, TypeOK
  <2>2. q.task \in TaskIds
    BY <2>1, WorkerHoldsTask DEF TypeOK
  <2>3. CASE worker'[w] = Idle
    <3>1. worker'[w].step = "idle"
      BY <2>3 DEF Idle
    <3> QED BY <1>g, <2>1, <3>1 DEF RowSteps
  <2>4. CASE task[q.task] # NoTask /\ worker'[w] = started
    <3>1. task[q.task] \in TaskRow
      BY <2>2, <2>4 DEF TypeOK
    <3>2. /\ worker'[w].step = "start" /\ worker'[w].task = q.task
          /\ worker'[w].row = [task[q.task] EXCEPT !.status = "processing"]
      BY <2>1, <2>4
    <3>3. worker'[w].row.cost = task[q.task].cost
      BY <3>1, <3>2 DEF TaskRow
    <3>4. CopyOf(worker'[w].task, worker'[w].row)
      BY <2>4, <3>2, <3>3 DEF CopyOf
    <3> QED BY <1>g, <2>1, <2>2, <3>2, <3>4
  <2> QED BY <2>1, <2>3, <2>4
<1>6. CASE StartTask(w) \/ SaveRemote(w) \/ Complete(w) \/ GiveUp(w)
  <2>1. /\ q.step \in RowSteps /\ Saved(q.task, q.row)
        /\ \E s \in {"execute", "poll"} :
              worker'[w] = Idle \/ worker'[w] = [q EXCEPT !.step = s]
    BY <1>6 DEF StartTask, SaveRemote, Complete, GiveUp, RowSteps, WorkerTo, TypeOK
  <2>2. \/ worker'[w] = Idle
        \/ /\ worker'[w].task = q.task /\ worker'[w].row = q.row
           /\ worker'[w].step \in {"execute", "poll"}
    BY <1>1, <2>1
  <2>3. Idle.step = "idle" /\ "idle" \notin RowSteps
    BY DEF Idle, RowSteps
  <2> QED BY <1>1, <1>g, <2>1, <2>2, <2>3
<1>7. CASE Submit(w) \/ Succeed(w) \/ Fail(w)
  <2>1. /\ q.step \in RowSteps /\ task' = task
        /\ \/ worker'[w] = [q EXCEPT !.step = "poll"]
           \/ worker'[w] = [q EXCEPT !.step = "save_remote",
                                     !.row.remote = submits[q.task] + 1]
           \/ worker'[w] = [q EXCEPT !.step = "done", !.row.status = "completed",
                                     !.row.result = TRUE]
           \/ worker'[w] = [q EXCEPT !.step = "error"]
    BY <1>7 DEF Submit, Succeed, Fail, RowSteps, WorkerTo, TypeOK
  <2>2. /\ worker'[w].task = q.task
        /\ worker'[w].step \in {"poll", "save_remote", "done", "error"}
        /\ \/ worker'[w].row = q.row
           \/ worker'[w].row = [q.row EXCEPT !.remote = submits[q.task] + 1]
           \/ worker'[w].row = [q.row EXCEPT !.status = "completed", !.result = TRUE]
    BY <1>1, <2>1
  <2>3. worker'[w].row.cost = q.row.cost
    BY <1>1, <2>1, <2>2 DEF TaskRow
  <2>4. CopyOf(worker'[w].task, worker'[w].row)
    BY <1>1, <2>1, <2>2, <2>3 DEF CopyOf
  <2> QED BY <1>1, <1>g, <2>1, <2>2, <2>4
<1>8. CASE q.step = "error" /\ Requeue(w)
  <2> DEFINE row == [q.row EXCEPT !.retries = @ + 1, !.status = "pending_execution"]
  <2>1. /\ q.step \in RowSteps /\ RetriesLeft(q.row) /\ Saved(q.task, row)
        /\ worker'[w] = [step |-> "requeue", task |-> q.task]
    BY <1>8 DEF Requeue, RowSteps, WorkerTo, TypeOK
  <2>2. row \in TaskRow
    BY <1>1, <2>1, RowAssignments DEF Statuses
  <2>3. row.cost = q.row.cost
    BY <1>1, <2>1 DEF TaskRow
  <2>4. worker'[w].step = "requeue"
    BY <2>1
  <2> HIDE DEF row
  <2> QED BY <1>g, <2>1, <2>2, <2>3, <2>4 DEF RowSteps
<1>9. CASE q.step = "requeue" /\ Requeue(w)
  <2>1. task' = task /\ worker'[w] = Idle
    BY <1>9 DEF Requeue, WorkerTo, TypeOK
  <2>2. worker'[w].step = "idle"
    BY <2>1 DEF Idle
  <2> QED BY <1>g, <2>1, <2>2 DEF RowSteps
<1>10. CASE LastFailure(w)
  <2> DEFINE s == IF q.row.cost THEN "refund" ELSE "give_up"
  <2>1. /\ q.step \in RowSteps /\ task' = task
        /\ worker'[w] = [q EXCEPT !.step = s, !.row.status = "failed"]
    BY <1>10 DEF LastFailure, RowSteps, WorkerTo, TypeOK
  <2>2. s = "refund" => q.row.cost
    OBVIOUS
  <2> HIDE DEF s
  <2>3. /\ worker'[w].step = s /\ worker'[w].task = q.task
        /\ worker'[w].row = [q.row EXCEPT !.status = "failed"]
    BY <1>1, <2>1
  <2>4. worker'[w].row.cost = q.row.cost
    BY <1>1, <2>1, <2>3 DEF TaskRow
  <2>5. CopyOf(worker'[w].task, worker'[w].row)
    BY <1>1, <2>1, <2>3, <2>4 DEF CopyOf
  <2> QED BY <1>1, <1>g, <2>1, <2>2, <2>3, <2>4, <2>5
<1>11. CASE Refund(w)
  <2>1. /\ q.step \in RowSteps /\ task' = task
        /\ worker'[w] = [q EXCEPT !.step = "give_up"]
    BY <1>11 DEF Refund, RowSteps, WorkerTo, TypeOK
  <2>2. worker'[w].step = "give_up" /\ worker'[w].task = q.task /\ worker'[w].row = q.row
    BY <1>1, <2>1
  <2> QED BY <1>1, <1>g, <2>1, <2>2
<1> QED
  BY <1>4, <1>5, <1>6, <1>7, <1>8, <1>9, <1>10, <1>11 DEF ContinueWorker, Requeue

\* So does a request, unless it creates a task.
LEMMA RequestKeepsCost ==
    ASSUME TypeOK, CostKept, NEW h \in Handlers,
           ContinueHandler(h) \/ \E t \in TaskIds : BeginHandler(h, t)
    PROVE  SameTasks /\ CostKept'
<1> DEFINE q == handler[h]
<1>1. q.step = "save" =>
         q.task \in TaskIds /\ q.row \in TaskRow /\ CopyOf(q.task, q.row)
  BY HandlerHoldsRow DEF TypeOK, CostKept
<1>2. Idle.step = "idle"
  BY DEF Idle
<1>3. CASE HandlerPush(h)
  <2>1. UNCHANGED <<task, worker>> /\ handler' = [handler EXCEPT ![h] = Idle]
    BY <1>3 DEF HandlerPush, HandlerTo
  <2>2. SameTasks
    BY <2>1 DEF SameTasks
  <2>3. \A g \in Handlers : handler'[g] = handler[g] \/ handler'[g].step = "idle"
    BY <1>2, <2>1 DEF TypeOK
  <2> QED BY <2>1, <2>2, <2>3, CostGoesOn
<1>4. CASE HandlerSave(h)
  <2>0. PICK t : t = q.task
    OBVIOUS
  <2>1. /\ q.step = "save" /\ task' = [task EXCEPT ![t] = q.row] /\ worker' = worker
        /\ handler' = [handler EXCEPT ![h] =
              IF q.push THEN [step |-> "push", task |-> t] ELSE Idle]
    BY <1>4, <2>0 DEF HandlerSave, HandlerTo
  <2>2. PICK row \in TaskRow : row = q.row
    BY <1>1, <2>1
  <2>3. SameTasks
    BY <1>1, <2>0, <2>1, <2>2, SaveOfCopy
  <2>4. \A g \in Handlers : handler'[g] = handler[g] \/ handler'[g].step # "save"
    BY <1>2, <2>1 DEF TypeOK
  <2> QED BY <2>1, <2>3, <2>4, CostGoesOn
<1>5. ASSUME NEW t \in TaskIds, BeginHandler(h, t) PROVE SameTasks /\ CostKept'
  <2>1. PICK row, push : /\ task[t] # NoTask /\ ReadForSave(h, t, row, push)
                         /\ row.cost = task[t].cost
    <3>1. task[t] # NoTask => task[t] \in TaskRow
      BY DEF TypeOK
    <3>2. CASE ApproveTask(h, t)
      <4>1. PICK row : row = [task[t] EXCEPT !.status = "pending_execution"]
        OBVIOUS
      <4>2. task[t] # NoTask /\ ReadForSave(h, t, row, TRUE)
        BY <3>2, <4>1 DEF ApproveTask, ReadForSave, HandlerTo
      <4>3. row.cost = task[t].cost
        BY <3>1, <4>1, <4>2 DEF TaskRow
      <4> QED BY <4>2, <4>3
    <3>3. CASE \E input \in Kinds : UpdateTask(h, t, input)
      <4>1. PICK input \in Kinds : UpdateTask(h, t, input)
        BY <3>3
      <4>2. PICK row : row = [task[t] EXCEPT !.input = input]
        OBVIOUS
      <4>3. task[t] # NoTask /\ ReadForSave(h, t, row, FALSE)
        BY <4>1, <4>2 DEF UpdateTask, ReadForSave, HandlerTo
      <4>4. row.cost = task[t].cost
        BY <3>1, <4>2, <4>3 DEF TaskRow
      <4> QED BY <4>3, <4>4
    <3>4. CASE RetryTask(h, t)
      <4>1. PICK row : row = [task[t] EXCEPT !.status = "pending_execution",
                                             !.retries = 0, !.result = FALSE]
        OBVIOUS
      <4>2. task[t] # NoTask /\ ReadForSave(h, t, row, TRUE)
        BY <3>4, <4>1 DEF RetryTask, ReadForSave, HandlerTo
      <4>3. row.cost = task[t].cost
        BY <3>1, <4>1, <4>2 DEF TaskRow
      <4> QED BY <4>2, <4>3
    <3>5. CASE CancelTask(h, t)
      <4>1. PICK row : row = [task[t] EXCEPT !.status = "cancelled"]
        OBVIOUS
      <4>2. task[t] # NoTask /\ ReadForSave(h, t, row, FALSE)
        BY <3>5, <4>1 DEF CancelTask, ReadForSave, HandlerTo
      <4>3. row.cost = task[t].cost
        BY <3>1, <4>1, <4>2 DEF TaskRow
      <4> QED BY <4>2, <4>3
    <3> QED BY <1>5, <3>2, <3>3, <3>4, <3>5, CreationAssumption DEF BeginHandler
  <2>2. /\ UNCHANGED <<task, worker>>
        /\ handler' = [handler EXCEPT ![h] =
              [step |-> "save", task |-> t, row |-> row, push |-> push]]
    BY <2>1 DEF ReadForSave, HandlerTo
  <2>3. SameTasks
    BY <2>2 DEF SameTasks
  <2>4. /\ \A g \in Handlers : g # h => handler'[g] = handler[g]
        /\ handler'[h].task = t /\ handler'[h].row = row
    BY <2>2 DEF TypeOK
  <2>5. CopyOf(handler'[h].task, handler'[h].row)
    BY <2>1, <2>4 DEF CopyOf
  <2>6. \A g \in Handlers :
           \/ handler'[g] = handler[g]
           \/ handler'[g].step = "save" =>
                 /\ handler'[g].task \in TaskIds
                 /\ CopyOf(handler'[g].task, handler'[g].row)
    BY <2>4, <2>5
  <2> QED BY <2>2, <2>3, <2>6, CostGoesOn
<1> QED BY <1>3, <1>4, <1>5 DEF ContinueHandler


-----------------------------------------------------------------------------
(* What every step does to the tasks.                                      *)

\* Charges takes the steps of Tasks, and creates tasks.
TasksStep ==
    \/ UNCHANGED vars
    \/ \E h \in Handlers :
          \/ \E t \in TaskIds :
                \/ BeginHandler(h, t)
                \/ \E input \in Kinds, cost \in BOOLEAN : CreateTask(h, t, input, cost)
          \/ ContinueHandler(h)
    \/ \E w \in Workers : Pop(w) \/ ContinueWorker(w)

\* Every step of Charges changes the variables of Tasks like that.
LEMMA StepsOfTasks ==
    ASSUME ChargingTypeOK, [ChargesNext]_allVars
    PROVE  TasksStep
<1>1. CASE UNCHANGED allVars
  BY <1>1 DEF allVars, TasksStep
<1>2. ASSUME NEW h \in Handlers, BeginRequest(h) \/ GoOnWithRequest(h)
      PROVE  TasksStep
  <2>1. CASE BeginRequest(h)
    BY <2>1 DEF BeginRequest, BeginCharge, CreateForFree, TasksStep
  <2>2. CASE CommitCharge(h)
    <3>1. /\ charging[h] # NoTask /\ charging[h] \in [task : TaskIds, input : Kinds]
          /\ \/ CreateTask(h, charging[h].task, charging[h].input, TRUE)
             \/ UNCHANGED vars
      BY <2>2 DEF CommitCharge, ChargingTypeOK
    <3>2. PICK t \in TaskIds, input \in Kinds :
             t = charging[h].task /\ input = charging[h].input
      BY <3>1
    <3>3. CreateTask(h, t, input, TRUE) \/ UNCHANGED vars
      BY <3>1, <3>2 DEF CreateTask, HandlerTo
    <3> QED BY <3>3 DEF TasksStep
  <2>3. CASE DropCopy(h) \/ (Free(h) /\ ContinueHandler(h))
    BY <2>3 DEF DropCopy, TasksStep
  <2> QED BY <1>2, <2>1, <2>2, <2>3 DEF GoOnWithRequest
<1>3. ASSUME NEW w \in Workers, PopTask(w) \/ GoOnWithTask(w)
      PROVE  TasksStep
  <2>1. CASE CommitRefund(w)
    <3>1. Refund(w)
      BY <2>1 DEF CommitRefund, Refund
    <3> QED BY <3>1 DEF ContinueWorker, TasksStep
  <2>2. CASE PopTask(w) \/ BeginRefund(w) \/ DropCopy(w) \/ ContinueWorker(w)
    BY <2>2 DEF PopTask, BeginRefund, DropCopy, TasksStep
  <2> QED BY <1>3, <2>1, <2>2 DEF GoOnWithTask
<1>4. ASSUME NEW r \in Others, BeginOther(r) \/ CommitOther(r) \/ DropCopy(r)
      PROVE  TasksStep
  BY <1>4 DEF BeginOther, CommitOther, DropCopy, TasksStep
<1> QED BY <1>1, <1>2, <1>3, <1>4 DEF ChargesNext

\* So the types of Tasks are kept.
LEMMA TasksStepType ==
    ASSUME TypeOK, TasksStep
    PROVE  TypeOK'
<1>1. CASE UNCHANGED vars
  BY <1>1 DEF vars, TypeOK
<1> QED
  BY <1>1, BeginHandlerType, ContinueHandlerType, WorkerType
  DEF TasksStep

-----------------------------------------------------------------------------
(* The rows of a task.                                                     *)

Owed(t) == task[t] # NoTask /\ task[t].cost

\* A task that costs something has one row that charges it, others none.
Paid ==
    \A t \in TaskIds :
       IF Owed(t) THEN \E i : RowsOf(t, "user_consume") = {i}
                  ELSE RowsOf(t, "user_consume") = {}

\* Every refund has its row, and only of tasks that cost something.
RefundRows ==
    \A t \in TaskIds :
       /\ IsFiniteSet(RowsOf(t, "user_refund"))
       /\ Cardinality(RowsOf(t, "user_refund")) = refunds[t]
       /\ refunds[t] > 0 => Owed(t)

\* What those hold who have read the owner and will write: a charge names a
\* task that is not there yet and that nobody else is about to create, a
\* refund the task that has failed, and an administrator no task.
InFlight ==
    /\ \A h \in Handlers :
          charging[h] # NoTask => /\ task[charging[h].task] = NoTask
                                  /\ req[h].step = "deduct"
                                  /\ req[h].type = "user_consume"
                                  /\ req[h].reason = charging[h].task
    /\ \A g, h \in Handlers :
          charging[g] # NoTask /\ charging[h] # NoTask
             /\ charging[g].task = charging[h].task => g = h
    /\ \A r \in Others :
          req[r].step \in {"deduct", "adjust"} => req[r].type = "admin_adjustment"
    /\ \A w \in Workers :
          /\ req[w].step # "deduct"
          /\ req[w].step = "adjust" => /\ worker[w].step = "refund"
                                       /\ req[w].type = "user_refund"
                                       /\ req[w].reason = worker[w].task

\* A write adds the row of its request when it goes in, and no other.
LEMMA WriteRows ==
    ASSUME Purse!TypeOK, NEW g \in Goroutines,
           Purse!DeductWrite(g) \/ Purse!AdjustWrite(g), NEW t, NEW type
    PROVE  IF /\ Purse!RowMatches(req[g].snap, account[Owner])
              /\ req[g].reason = t /\ req[g].type = type
           THEN \E i : i \notin RowsOf(t, type) /\ RowsOf(t, type)' = RowsOf(t, type) \union {i}
           ELSE RowsOf(t, type)' = RowsOf(t, type)
<1>1. CASE Purse!RowMatches(req[g].snap, account[Owner])
  <2>1. PICK entry \in Purse!Entry :
           /\ entry.reason = req[g].reason /\ entry.type = req[g].type
           /\ ledger' = [ledger EXCEPT ![Owner] = @ \o <<entry>>]
    BY <1>1, PurseWrite
  <2> QED BY <1>1, <2>1, RowsGrow
<1>2. CASE ~ Purse!RowMatches(req[g].snap, account[Owner])
  <2>1. ledger' = ledger
    BY <1>2, PurseWrite
  <2> QED BY <1>2, <2>1 DEF RowsOf
<1> QED BY <1>1, <1>2

\* Steps that write no row of a task and keep the tasks.
LEMMA RowsStay ==
    ASSUME Paid, RefundRows, SameTasks, refunds' = refunds,
           \A t \in TaskIds : \A type \in {"user_consume", "user_refund"} :
              RowsOf(t, type)' = RowsOf(t, type)
    PROVE  Paid' /\ RefundRows'
<1>1. \A t \in TaskIds : Owed(t)' <=> Owed(t)
  BY DEF SameTasks, Owed
<1>2. Paid'
  BY <1>1 DEF Paid
<1>3. RefundRows'
  BY <1>1 DEF RefundRows
<1> QED BY <1>2, <1>3

\* And that leave the charges alone.
LEMMA FlightsStay ==
    ASSUME TypeOK, ChargingTypeOK, InFlight, SameTasks, charging' = charging,
           \A h \in Handlers : charging[h] # NoTask => req'[h] = req[h],
           \A r \in Others :
              \/ req'[r] = req[r]
              \/ req'[r].step \in {"deduct", "adjust"} => req'[r].type = "admin_adjustment",
           \A w \in Workers :
              \/ req'[w] = req[w] /\ (worker'[w] = worker[w] \/ req[w].step # "adjust")
              \/ /\ req'[w].step # "deduct"
                 /\ req'[w].step = "adjust" => /\ worker'[w].step = "refund"
                                               /\ req'[w].type = "user_refund"
                                               /\ req'[w].reason = worker'[w].task
    PROVE  InFlight'
<1>1. \A h \in Handlers :
         charging'[h] # NoTask => /\ task'[charging'[h].task] = NoTask
                                  /\ req'[h].step = "deduct"
                                  /\ req'[h].type = "user_consume"
                                  /\ req'[h].reason = charging'[h].task
  BY DEF InFlight, SameTasks, ChargingTypeOK
<1>2. \A r \in Others :
         req'[r].step \in {"deduct", "adjust"} => req'[r].type = "admin_adjustment"
  BY DEF InFlight
<1>3. \A w \in Workers :
         /\ req'[w].step # "deduct"
         /\ req'[w].step = "adjust" => /\ worker'[w].step = "refund"
                                       /\ req'[w].type = "user_refund"
                                       /\ req'[w].reason = worker'[w].task
  BY DEF InFlight
<1>4. \A g, h \in Handlers :
         charging'[g] # NoTask /\ charging'[h] # NoTask
            /\ charging'[g].task = charging'[h].task => g = h
  BY DEF InFlight
<1> QED BY <1>1, <1>2, <1>3, <1>4 DEF InFlight

-----------------------------------------------------------------------------
(* The invariant, one action after the other.                              *)

Books ==
    Purse!TypeOK /\ ChargingTypeOK /\ CostKept /\ InFlight /\ Paid /\ RefundRows

ChargesInv == TypeOK /\ Books

\* A new task disturbs no copy.
LEMMA CreationKeepsCost ==
    ASSUME TypeOK, CostKept, NEW h \in Handlers, NEW t \in TaskIds,
           NEW input \in Kinds, NEW cost \in BOOLEAN, CreateTask(h, t, input, cost)
    PROVE  /\ task[t] = NoTask /\ task'[t] # NoTask /\ task'[t].cost = cost
           /\ \A x \in TaskIds : x # t => task'[x] = task[x]
           /\ UNCHANGED <<worker, refunds>>
           /\ CostKept'
<1> DEFINE row == [status |-> IF AutoAudit THEN "pending_execution"
                              ELSE "pending_audit",
                   retries |-> 0, input |-> input, remote |-> 0,
                   result |-> FALSE, cost |-> cost]
<1>1. /\ task[t] = NoTask /\ task' = [task EXCEPT ![t] = row]
      /\ handler' = [handler EXCEPT ![h] =
            IF AutoAudit THEN [step |-> "push", task |-> t] ELSE Idle]
      /\ UNCHANGED <<worker, refunds>>
  BY DEF CreateTask, HandlerTo, history
<1>2. row \in TaskRow /\ row.cost = cost
  <2>1. 0 \in 0..MaxRetries
    BY MaxRetriesAssumption
  <2> QED BY <2>1 DEF TaskRow, Statuses
<1> HIDE DEF row
<1>3. /\ task'[t] = row /\ row # NoTask
      /\ \A x \in TaskIds : x # t => task'[x] = task[x]
  BY <1>1, <1>2, NoTaskAssumption DEF TypeOK
<1>4. ASSUME NEW x \in TaskIds, NEW copy, CopyOf(x, copy)
      PROVE  task'[x] # NoTask /\ copy.cost = task'[x].cost
  BY <1>1, <1>3, <1>4 DEF CopyOf
<1>5. \A g \in Handlers :
         handler'[g] = handler[g] \/ handler'[g].step # "save"
  BY <1>1 DEF TypeOK, Idle
<1>6. ASSUME NEW g \in Handlers, handler'[g].step = "save"
      PROVE  /\ task'[handler'[g].task] # NoTask
             /\ handler'[g].row.cost = task'[handler'[g].task].cost
  <2>1. handler[g] \in HandlerState /\ handler'[g] = handler[g]
    BY <1>5, <1>6 DEF TypeOK
  <2>2. PICK x \in TaskIds, copy \in TaskRow :
            x = handler[g].task /\ copy = handler[g].row
    BY <1>6, <2>1, HandlerHoldsRow
  <2> QED BY <1>4, <1>6, <2>1, <2>2 DEF CostKept
<1>7. ASSUME NEW w \in Workers, worker[w].step \in RowSteps
      PROVE  /\ task'[worker[w].task] # NoTask
             /\ worker[w].row.cost = task'[worker[w].task].cost
  <2>1. worker[w] \in WorkerState
    BY DEF TypeOK
  <2>2. PICK x \in TaskIds, copy \in TaskRow :
            x = worker[w].task /\ copy = worker[w].row
    BY <1>7, <2>1, WorkerHoldsRow DEF RowSteps
  <2> QED BY <1>4, <1>7, <2>2 DEF CostKept
<1>8. CostKept'
  BY <1>1, <1>6, <1>7 DEF CostKept, CopyOf
<1> QED BY <1>1, <1>2, <1>3, <1>8

\* A charge that has read the owner names a task nobody else will create.
LEMMA ChargeBegins ==
    ASSUME ChargesInv, NEW h \in Handlers, NEW t \in TaskIds, NEW input \in Kinds,
           BeginCharge(h, t, input)
    PROVE  Books'
<1>1. /\ Purse!BeginDeduct(h, Owner, Price, "user_consume", t)
      /\ charging' = [charging EXCEPT ![h] = [task |-> t, input |-> input]]
      /\ Unused(t) /\ UNCHANGED vars
  BY DEF BeginCharge
<1>2. h \in Goroutines /\ t \in Named /\ "user_consume" \in Purse!DeductTypes
  BY DEF Goroutines, Named, Purse!DeductTypes
<1>3. /\ Purse!TypeOK' /\ ledger' = ledger
      /\ \A f \in Goroutines : f # h => req'[f] = req[f]
  BY <1>1, <1>2, PurseRead DEF ChargesInv, Books
<1>4. /\ req'[h].step = "deduct" /\ req'[h].type = "user_consume"
      /\ req'[h].reason = t
  BY <1>1 DEF Purse!BeginDeduct, Purse!Goto, ChargesInv, Books, Purse!TypeOK
<1>5. ChargingTypeOK' /\ charging'[h] = [task |-> t, input |-> input]
      /\ \A g \in Handlers : g # h => charging'[g] = charging[g]
  BY <1>1 DEF ChargesInv, Books, ChargingTypeOK
<1>6. SameTasks /\ CostKept'
  BY <1>1 DEF vars, SameTasks, ChargesInv, Books, CostKept, CopyOf
<1>7. Paid' /\ RefundRows'
  BY <1>1, <1>3, <1>6, RowsStay DEF RowsOf, vars, ChargesInv, Books
<1>8. \A g \in Handlers :
         charging'[g] # NoTask => /\ task'[charging'[g].task] = NoTask
                                  /\ req'[g].step = "deduct"
                                  /\ req'[g].type = "user_consume"
                                  /\ req'[g].reason = charging'[g].task
  BY <1>1, <1>3, <1>4, <1>5 DEF ChargesInv, Books, InFlight, Unused, vars, Goroutines
<1>9. \A f, g \in Handlers :
         charging'[f] # NoTask /\ charging'[g] # NoTask
            /\ charging'[f].task = charging'[g].task => f = g
  BY <1>1, <1>5 DEF ChargesInv, Books, InFlight, Unused
<1>10. \A r \in Others :
          req'[r].step \in {"deduct", "adjust"} => req'[r].type = "admin_adjustment"
  BY <1>3, GoroutinesAssumption DEF ChargesInv, Books, InFlight, Goroutines
<1>11. \A w \in Workers :
          /\ req'[w].step # "deduct"
          /\ req'[w].step = "adjust" => /\ worker'[w].step = "refund"
                                        /\ req'[w].type = "user_refund"
                                        /\ req'[w].reason = worker'[w].task
  BY <1>1, <1>3, GoroutinesAssumption DEF ChargesInv, Books, InFlight, Goroutines, vars
<1>12. InFlight'
  BY <1>8, <1>9, <1>10, <1>11 DEF InFlight
<1> QED BY <1>3, <1>5, <1>6, <1>7, <1>12 DEF Books

\* The task and the row that charges it come together, or neither comes.
LEMMA ChargeCommits ==
    ASSUME ChargesInv, NEW h \in Handlers, CommitCharge(h)
    PROVE  Books'
<1> USE DEF ChargesInv, Books
<1>1. /\ charging[h] # NoTask
      /\ Purse!DeductWrite(h)
      /\ charging' = [charging EXCEPT ![h] = NoTask]
  BY DEF CommitCharge
<1>2. PICK t \in TaskIds, input \in Kinds :
         t = charging[h].task /\ input = charging[h].input
  BY <1>1 DEF ChargingTypeOK
<1>3. h \in Goroutines /\ h \notin Workers /\ h \notin Others
  BY GoroutinesAssumption DEF Goroutines
<1>4. /\ task[t] = NoTask /\ req[h].type = "user_consume" /\ req[h].reason = t
      /\ \A g \in Handlers : g # h /\ charging[g] # NoTask => charging[g].task # t
  BY <1>1, <1>2 DEF InFlight
<1>5. /\ Purse!TypeOK'
      /\ \A f \in Goroutines : f # h => req'[f] = req[f]
  BY <1>1, <1>3, PurseWrite
<1>6. /\ ChargingTypeOK' /\ charging'[h] = NoTask
      /\ \A g \in Handlers : g # h => charging'[g] = charging[g]
  BY <1>1 DEF ChargingTypeOK
<1>7. CASE ~ Purse!RowMatches(req[h].snap, account[Owner])
  <2>1. UNCHANGED vars
    BY <1>7 DEF CommitCharge
  <2>2. SameTasks /\ CostKept'
    BY <2>1 DEF vars, SameTasks, CostKept, CopyOf
  <2>3. \A x \in TaskIds : \A type \in {"user_consume", "user_refund"} :
           RowsOf(x, type)' = RowsOf(x, type)
    BY <1>1, <1>3, <1>7, WriteRows
  <2>4. Paid' /\ RefundRows'
    BY <2>1, <2>2, <2>3, RowsStay DEF vars
  <2>5. InFlight'
    BY <1>3, <1>5, <1>6, <2>1 DEF vars, InFlight, Goroutines
  <2> QED BY <1>5, <1>6, <2>2, <2>4, <2>5
<1>8. CASE Purse!RowMatches(req[h].snap, account[Owner])
  <2>1. CreateTask(h, t, input, TRUE)
    BY <1>2, <1>8 DEF CommitCharge
  <2>2. /\ task'[t] # NoTask /\ task'[t].cost = TRUE
        /\ \A x \in TaskIds : x # t => task'[x] = task[x]
        /\ UNCHANGED <<worker, refunds>>
        /\ CostKept'
    BY <2>1, CreationKeepsCost
  <2>3. /\ \E i : i \notin RowsOf(t, "user_consume")
                  /\ RowsOf(t, "user_consume")' = RowsOf(t, "user_consume") \union {i}
        /\ \A x \in TaskIds :
              /\ x # t => RowsOf(x, "user_consume")' = RowsOf(x, "user_consume")
              /\ RowsOf(x, "user_refund")' = RowsOf(x, "user_refund")
    BY <1>1, <1>3, <1>4, <1>8, WriteRows
  <2>4. /\ ~ Owed(t) /\ Owed(t)'
        /\ \A x \in TaskIds : x # t => (Owed(x)' <=> Owed(x))
    BY <1>4, <2>2 DEF Owed
  <2>5. \E i : RowsOf(t, "user_consume")' = {i}
    <3>1. RowsOf(t, "user_consume") = {}
      BY <2>4 DEF Paid
    <3> QED BY <2>3, <3>1
  <2>6. Paid'
    BY <2>3, <2>4, <2>5 DEF Paid
  <2>7. RefundRows'
    BY <2>2, <2>3, <2>4 DEF RefundRows
  <2>8. InFlight'
    <3>1. \A g \in Handlers :
             charging'[g] # NoTask => /\ task'[charging'[g].task] = NoTask
                                      /\ req'[g].step = "deduct"
                                      /\ req'[g].type = "user_consume"
                                      /\ req'[g].reason = charging'[g].task
      BY <1>4, <1>5, <1>6, <2>2 DEF InFlight, Goroutines, ChargingTypeOK
    <3>2. \A f, g \in Handlers :
             charging'[f] # NoTask /\ charging'[g] # NoTask
                /\ charging'[f].task = charging'[g].task => f = g
      BY <1>6 DEF InFlight
    <3>3. \A r \in Others :
             req'[r].step \in {"deduct", "adjust"} => req'[r].type = "admin_adjustment"
      BY <1>3, <1>5 DEF InFlight, Goroutines
    <3>4. \A w \in Workers :
             /\ req'[w].step # "deduct"
             /\ req'[w].step = "adjust" => /\ worker'[w].step = "refund"
                                           /\ req'[w].type = "user_refund"
                                           /\ req'[w].reason = worker'[w].task
      BY <1>3, <1>5, <2>2 DEF InFlight, Goroutines
    <3> QED BY <3>1, <3>2, <3>3, <3>4 DEF InFlight
  <2> QED BY <1>5, <1>6, <2>2, <2>6, <2>7, <2>8
<1> QED BY <1>7, <1>8

\* A task of a model without a price needs no row.
LEMMA FreeCreation ==
    ASSUME ChargesInv, NEW h \in Handlers, NEW t \in TaskIds, NEW input \in Kinds,
           CreateForFree(h, t, input)
    PROVE  Books'
<1> USE DEF ChargesInv, Books
<1>1. /\ CreateTask(h, t, input, FALSE) /\ Unused(t)
      /\ UNCHANGED <<account, ledger, cache, req, charging>>
  BY DEF CreateForFree, chargeVars
<1>2. /\ task[t] = NoTask /\ task'[t] # NoTask /\ task'[t].cost = FALSE
      /\ \A x \in TaskIds : x # t => task'[x] = task[x]
      /\ UNCHANGED <<worker, refunds>>
      /\ CostKept'
  BY <1>1, CreationKeepsCost
<1>3. \A x \in TaskIds : Owed(x)' <=> Owed(x)
  BY <1>2 DEF Owed
<1>4. \A x, type : RowsOf(x, type)' = RowsOf(x, type)
  BY <1>1 DEF RowsOf
<1>5. Paid'
  BY <1>3, <1>4 DEF Paid
<1>6. RefundRows'
  BY <1>2, <1>3, <1>4 DEF RefundRows
<1>7. InFlight'
  BY <1>1, <1>2 DEF InFlight, Unused, ChargingTypeOK
<1>8. Purse!TypeOK' /\ ChargingTypeOK'
  BY <1>1 DEF Purse!TypeOK, ChargingTypeOK
<1> QED BY <1>2, <1>5, <1>6, <1>7, <1>8

\* An administrator's goroutine, or one that drops the cached copy.
LEMMA PurseKeeps ==
    ASSUME ChargesInv,
           \/ \E g \in Goroutines : DropCopy(g)
           \/ \E r \in Others : BeginOther(r) \/ CommitOther(r)
    PROVE  Books'
<1> USE DEF ChargesInv, Books
<1>1. UNCHANGED vars /\ charging' = charging
  BY DEF DropCopy, BeginOther, CommitOther
<1>2. SameTasks /\ CostKept' /\ ChargingTypeOK'
  BY <1>1 DEF vars, SameTasks, CostKept, CopyOf, ChargingTypeOK
<1>g. ASSUME NEW g \in Goroutines, Purse!TypeOK',
             \A f \in Goroutines : f # g => req'[f] = req[f],
             \/ req'[g].step \in {"idle", "invalidate"} /\ ~ Free(g)
                   /\ (g \in Handlers => charging[g] = NoTask)
             \/ g \in Others /\ req'[g].type = "admin_adjustment",
             \A x \in TaskIds : \A type \in {"user_consume", "user_refund"} :
                RowsOf(x, type)' = RowsOf(x, type)
      PROVE  Books'
  <2>1. Paid' /\ RefundRows'
    BY <1>1, <1>2, <1>g, RowsStay DEF vars
  <2>2. \A h \in Handlers : charging[h] # NoTask => req'[h] = req[h]
    BY <1>g, GoroutinesAssumption DEF Goroutines
  <2>3. \A r \in Others :
           \/ req'[r] = req[r]
           \/ req'[r].step \in {"deduct", "adjust"} => req'[r].type = "admin_adjustment"
    BY <1>g DEF Goroutines
  <2>4. \A w \in Workers :
           \/ req'[w] = req[w]
           \/ req'[w].step \notin {"deduct", "adjust"}
    BY <1>g, GoroutinesAssumption DEF Goroutines
  <2>5. InFlight'
    BY <1>1, <1>2, <2>2, <2>3, <2>4, FlightsStay DEF vars
  <2> QED BY <1>2, <1>g, <2>1, <2>5
<1>3. ASSUME NEW g \in Goroutines, DropCopy(g) PROVE Books'
  <2>1. Purse!Invalidate(g) /\ req[g].step = "invalidate"
    BY <1>3 DEF DropCopy, Purse!Invalidate
  <2>2. /\ Purse!TypeOK' /\ ledger' = ledger /\ req'[g].step = "idle"
        /\ \A f \in Goroutines : f # g => req'[f] = req[f]
    BY <2>1, PurseDrop
  <2>3. ~ Free(g) /\ (g \in Handlers => charging[g] = NoTask)
    BY <2>1, IdleIsIdle DEF Free, InFlight
  <2>4. \A x, type : RowsOf(x, type)' = RowsOf(x, type)
    BY <2>2 DEF RowsOf
  <2> QED BY <1>g, <2>2, <2>3, <2>4
<1>4. ASSUME NEW r \in Others, BeginOther(r) PROVE Books'
  <2>1. PICK type :
           /\ type = "admin_adjustment"
           /\ \/ Purse!BeginDeduct(r, Owner, Price, type, Manual)
              \/ Purse!BeginAdjust(r, Owner, Price, type, Manual)
    BY <1>4 DEF BeginOther
  <2>2. /\ r \in Goroutines /\ Manual \in Named
        /\ type \in Purse!DeductTypes /\ type \in Purse!AdjustTypes
    BY <2>1 DEF Goroutines, Named, Purse!DeductTypes, Purse!AdjustTypes
  <2>3. /\ Purse!TypeOK' /\ ledger' = ledger
        /\ \A f \in Goroutines : f # r => req'[f] = req[f]
    BY <2>1, <2>2, PurseRead
  <2>4. req'[r].type = "admin_adjustment"
    BY <2>1 DEF Purse!BeginDeduct, Purse!BeginAdjust, Purse!Goto, Purse!TypeOK
  <2>5. \A x, y : RowsOf(x, y)' = RowsOf(x, y)
    BY <2>3 DEF RowsOf
  <2> QED BY <1>g, <2>2, <2>3, <2>4, <2>5
<1>5. ASSUME NEW r \in Others, CommitOther(r) PROVE Books'
  <2>1. Purse!DeductWrite(r) \/ Purse!AdjustWrite(r)
    BY <1>5 DEF CommitOther
  <2>2. r \in Goroutines /\ r \notin Handlers
    BY GoroutinesAssumption DEF Goroutines
  <2>3. /\ Purse!TypeOK'
        /\ req[r].step \in {"deduct", "adjust"}
        /\ req'[r].step \in {"idle", "invalidate"}
        /\ \A f \in Goroutines : f # r => req'[f] = req[f]
    BY <2>1, <2>2, PurseWrite
  <2>4. req[r].type = "admin_adjustment" /\ ~ Free(r)
    BY <2>3, IdleIsIdle DEF InFlight, Free
  <2>5. \A x \in TaskIds : \A type \in {"user_consume", "user_refund"} :
           RowsOf(x, type)' = RowsOf(x, type)
    BY <2>1, <2>2, <2>4, WriteRows
  <2> QED BY <1>g, <2>2, <2>3, <2>4, <2>5
<1> QED BY <1>3, <1>4, <1>5

\* A step of an execution or of a request that leaves the purse alone.
LEMMA TaskStepKeeps ==
    ASSUME ChargesInv, UNCHANGED <<chargeVars, charging>>,
           \/ \E w \in Workers :
                 /\ Free(w)
                 /\ Pop(w) \/ (worker[w].step # "refund" /\ ContinueWorker(w))
           \/ \E h \in Handlers :
                 ContinueHandler(h) \/ \E t \in TaskIds : BeginHandler(h, t)
    PROVE  Books'
<1> USE DEF ChargesInv, Books
<1>1. UNCHANGED <<account, ledger, cache, req, charging>>
  BY DEF chargeVars
<1>2. SameTasks /\ CostKept'
  BY ExecutionKeepsCost, RequestKeepsCost
<1>3. refunds' = refunds
  BY CreationAssumption
  DEF Pop, ContinueWorker, ReadTask, StartTask, Submit, SaveRemote, Succeed, Fail,
      Complete, Requeue, LastFailure, Refund, GiveUp, ContinueHandler, HandlerSave,
      HandlerPush, BeginHandler, ApproveTask, UpdateTask, RetryTask, CancelTask,
      ReadForSave, history
<1>4. \A x, type : RowsOf(x, type)' = RowsOf(x, type)
  BY <1>1 DEF RowsOf
<1>5. Paid' /\ RefundRows'
  BY <1>2, <1>3, <1>4, RowsStay
<1>6. \A v \in Workers : worker'[v] = worker[v] \/ req[v].step # "adjust"
  <2>1. ASSUME NEW w \in Workers, Free(w), Pop(w) \/ ContinueWorker(w)
        PROVE  \A v \in Workers : worker'[v] = worker[v] \/ req[v].step # "adjust"
    <3>1. req[w].step = "idle"
      BY <2>1, IdleIsIdle DEF Free
    <3>2. \A v \in Workers : v # w => worker'[v] = worker[v]
      BY <2>1 DEF Pop, ContinueWorker, ReadTask, StartTask, Submit, SaveRemote,
         Succeed, Fail, Complete, Requeue, LastFailure, Refund, GiveUp, WorkerTo,
         TypeOK
    <3> QED BY <3>1, <3>2
  <2>2. ASSUME NEW h \in Handlers,
               ContinueHandler(h) \/ \E t \in TaskIds : BeginHandler(h, t)
        PROVE  worker' = worker
    BY <2>2, CreationAssumption
    DEF ContinueHandler, HandlerSave, HandlerPush, BeginHandler, ApproveTask,
        UpdateTask, RetryTask, CancelTask, ReadForSave
  <2> QED BY <2>1, <2>2
<1>7. InFlight'
  BY <1>1, <1>2, <1>6, FlightsStay
<1>8. Purse!TypeOK' /\ ChargingTypeOK'
  BY <1>1 DEF Purse!TypeOK, ChargingTypeOK
<1> QED BY <1>2, <1>5, <1>7, <1>8

\* A refund names the task of its execution.
LEMMA RefundBegins ==
    ASSUME ChargesInv, NEW w \in Workers, BeginRefund(w)
    PROVE  Books'
<1> USE DEF ChargesInv, Books
<1>1. PICK t \in TaskIds : t = worker[w].task
  BY WorkerHoldsRow DEF BeginRefund, TypeOK
<1>2. /\ Purse!BeginAdjust(w, Owner, Price, "user_refund", t)
      /\ worker[w].step = "refund" /\ UNCHANGED vars /\ charging' = charging
  BY <1>1 DEF BeginRefund
<1>3. w \in Goroutines /\ t \in Named /\ "user_refund" \in Purse!AdjustTypes
  BY DEF Goroutines, Named, Purse!AdjustTypes
<1>4. /\ Purse!TypeOK' /\ ledger' = ledger
      /\ \A f \in Goroutines : f # w => req'[f] = req[f]
  BY <1>2, <1>3, PurseRead
<1>5. req'[w].step = "adjust" /\ req'[w].type = "user_refund" /\ req'[w].reason = t
  BY <1>2 DEF Purse!BeginAdjust, Purse!Goto, Purse!TypeOK
<1>6. SameTasks /\ CostKept' /\ ChargingTypeOK'
  BY <1>2 DEF vars, SameTasks, CostKept, CopyOf, ChargingTypeOK
<1>7. \A x, type : RowsOf(x, type)' = RowsOf(x, type)
  BY <1>4 DEF RowsOf
<1>8. Paid' /\ RefundRows'
  BY <1>2, <1>6, <1>7, RowsStay DEF vars
<1>9. InFlight'
  <2>1. \A h \in Handlers : req'[h] = req[h]
    BY <1>4, GoroutinesAssumption DEF Goroutines
  <2>2. \A r \in Others : req'[r] = req[r]
    BY <1>4, GoroutinesAssumption DEF Goroutines
  <2>3. \A v \in Workers :
           \/ req'[v] = req[v] /\ worker'[v] = worker[v]
           \/ /\ req'[v].step # "deduct"
              /\ req'[v].step = "adjust" => /\ worker'[v].step = "refund"
                                            /\ req'[v].type = "user_refund"
                                            /\ req'[v].reason = worker'[v].task
    BY <1>1, <1>2, <1>4, <1>5 DEF Goroutines, vars
  <2> QED BY <1>2, <1>6, <2>1, <2>2, <2>3, FlightsStay
<1> QED BY <1>4, <1>6, <1>8, <1>9

\* It is counted when its row goes in, and the task was paid for.
LEMMA RefundCommits ==
    ASSUME ChargesInv, NEW w \in Workers, CommitRefund(w)
    PROVE  Books'
<1> USE DEF ChargesInv, Books
<1>1. /\ worker[w].step = "refund" /\ req[w].step = "adjust"
      /\ Purse!AdjustWrite(w) /\ UNCHANGED <<task, charging>>
      /\ WorkerTo(w, [worker[w] EXCEPT !.step = "give_up"])
  BY DEF CommitRefund
<1>2. /\ worker[w].task \in TaskIds /\ Owed(worker[w].task)
  BY <1>1, WorkerHoldsRow DEF TypeOK, CostKept, RowSteps, CopyOf, Owed
<1>3. PICK t \in TaskIds : t = worker[w].task
  BY <1>2
<1>4. Owed(t) /\ req[w].type = "user_refund" /\ req[w].reason = t
  BY <1>1, <1>2, <1>3 DEF InFlight, Owed
<1>5. w \in Goroutines /\ w \notin Handlers /\ w \notin Others
  BY GoroutinesAssumption DEF Goroutines
<1>6. /\ Purse!TypeOK' /\ req'[w].step \in {"idle", "invalidate"}
      /\ \A f \in Goroutines : f # w => req'[f] = req[f]
  BY <1>1, <1>5, PurseWrite
<1>7. Refund(w) /\ ContinueWorker(w)
  BY <1>1 DEF CommitRefund, Refund, ContinueWorker
<1>8. SameTasks /\ CostKept'
  BY <1>7, ExecutionKeepsCost
<1>9. ChargingTypeOK'
  BY <1>1 DEF ChargingTypeOK
<1>10. InFlight'
  <2>1. \A h \in Handlers : req'[h] = req[h]
    BY <1>5, <1>6 DEF Goroutines
  <2>2. \A r \in Others : req'[r] = req[r]
    BY <1>5, <1>6 DEF Goroutines
  <2>3. \A v \in Workers :
           \/ req'[v] = req[v] /\ worker'[v] = worker[v]
           \/ req'[v].step \notin {"deduct", "adjust"}
    BY <1>1, <1>6 DEF Goroutines, WorkerTo, TypeOK
  <2> QED BY <1>1, <1>8, <2>1, <2>2, <2>3, FlightsStay
<1>11. CASE ~ Purse!RowMatches(req[w].snap, account[Owner])
  <2>1. refunds' = refunds
    BY <1>11 DEF CommitRefund
  <2>2. \A x \in TaskIds : \A type \in {"user_consume", "user_refund"} :
           RowsOf(x, type)' = RowsOf(x, type)
    BY <1>1, <1>5, <1>11, WriteRows
  <2>3. Paid' /\ RefundRows'
    BY <1>8, <2>1, <2>2, RowsStay
  <2> QED BY <1>6, <1>8, <1>9, <1>10, <2>3
<1>12. CASE Purse!RowMatches(req[w].snap, account[Owner])
  <2>1. refunds' = [refunds EXCEPT ![t] = @ + 1]
    BY <1>3, <1>12 DEF CommitRefund
  <2>2. /\ \E i : i \notin RowsOf(t, "user_refund")
                  /\ RowsOf(t, "user_refund")' = RowsOf(t, "user_refund") \union {i}
        /\ \A x \in TaskIds :
              /\ x # t => RowsOf(x, "user_refund")' = RowsOf(x, "user_refund")
              /\ RowsOf(x, "user_consume")' = RowsOf(x, "user_consume")
    BY <1>1, <1>4, <1>5, <1>12, WriteRows
  <2>3. \A x \in TaskIds : Owed(x)' <=> Owed(x)
    BY <1>1 DEF Owed
  <2>4. Paid'
    BY <2>2, <2>3 DEF Paid
  <2>5. /\ refunds'[t] = refunds[t] + 1 /\ refunds[t] \in Nat
        /\ \A x \in TaskIds : x # t => refunds'[x] = refunds[x]
    BY <2>1 DEF TypeOK
  <2>6. /\ IsFiniteSet(RowsOf(t, "user_refund")')
        /\ Cardinality(RowsOf(t, "user_refund")') = refunds[t] + 1
    <3>1. /\ IsFiniteSet(RowsOf(t, "user_refund"))
          /\ Cardinality(RowsOf(t, "user_refund")) = refunds[t]
      BY DEF RefundRows
    <3> QED BY <2>2, <3>1, FS_AddElement
  <2>7. RefundRows'
    BY <1>4, <2>2, <2>3, <2>5, <2>6 DEF RefundRows
  <2> QED BY <1>6, <1>8, <1>9, <1>10, <2>4, <2>7
<1> QED BY <1>11, <1>12

\* Every step keeps the invariant.
LEMMA ChargesStep ==
    ASSUME ChargesInv, [ChargesNext]_allVars
    PROVE  ChargesInv'
<1>1. TypeOK'
  BY StepsOfTasks, TasksStepType DEF ChargesInv, Books
<1>2. CASE UNCHANGED allVars
  <2>1. UNCHANGED vars /\ UNCHANGED <<account, ledger, cache, req, charging>>
    BY <1>2 DEF allVars, chargeVars
  <2>2. Purse!TypeOK' /\ ChargingTypeOK'
    BY <2>1 DEF ChargesInv, Books, Purse!TypeOK, ChargingTypeOK
  <2>3. CostKept' /\ InFlight'
    BY <2>1 DEF vars, ChargesInv, Books, CostKept, CopyOf, InFlight
  <2>4. SameTasks /\ refunds' = refunds
    BY <2>1 DEF vars, SameTasks
  <2>5. \A x, type : RowsOf(x, type)' = RowsOf(x, type)
    BY <2>1 DEF RowsOf
  <2>6. Paid' /\ RefundRows'
    BY <2>4, <2>5, RowsStay DEF ChargesInv, Books
  <2> QED BY <1>1, <2>2, <2>3, <2>6 DEF ChargesInv, Books
<1>3. ASSUME NEW h \in Handlers, BeginRequest(h) \/ GoOnWithRequest(h)
      PROVE  Books'
  <2>1. CASE BeginRequest(h)
    BY <2>1, ChargeBegins, FreeCreation, TaskStepKeeps DEF BeginRequest
  <2>2. CASE GoOnWithRequest(h)
    BY <2>2, ChargeCommits, PurseKeeps, TaskStepKeeps DEF GoOnWithRequest, Goroutines
  <2> QED BY <1>3, <2>1, <2>2
<1>4. ASSUME NEW w \in Workers, PopTask(w) \/ GoOnWithTask(w)
      PROVE  Books'
  BY <1>4, RefundBegins, RefundCommits, PurseKeeps, TaskStepKeeps
  DEF PopTask, GoOnWithTask, Goroutines
<1>5. ASSUME NEW r \in Others, BeginOther(r) \/ CommitOther(r) \/ DropCopy(r)
      PROVE  Books'
  BY <1>5, PurseKeeps DEF Goroutines
<1>6. CASE ChargesNext
  <2>1. Books'
    BY <1>3, <1>4, <1>5, <1>6 DEF ChargesNext
  <2> QED BY <1>1, <2>1 DEF ChargesInv
<1> QED BY <1>2, <1>6

\* It holds before the first step.
LEMMA ChargesStart ==
    ASSUME ChargesInit
    PROVE  ChargesInv
<1>1. /\ \A t \in TaskIds : task[t] = NoTask /\ refunds[t] = 0
      /\ \A h \in Handlers : handler[h] = Idle /\ charging[h] = NoTask
      /\ \A w \in Workers : worker[w] = Idle
      /\ ledger = [u \in {Owner} |-> <<>>]
      /\ \A g \in Goroutines : req[g] = Idle
  BY IdleIsIdle DEF ChargesInit, Init, Purse!WalletInit, Goroutines
<1>2. Idle.step = "idle"
  BY DEF Idle
<1>3. \A t, type : RowsOf(t, type) = {}
  BY <1>1 DEF RowsOf
<1>4. TypeOK
  BY DEF ChargesInit, Init, TypeOK, HandlerState, WorkerState
<1>5. Purse!TypeOK
  <2>1. Purse!NewRow \in Purse!Row /\ Purse!Idle \in Purse!Request
    BY DEF Purse!NewRow, Purse!Row, Purse!Request
  <2> QED BY <2>1 DEF ChargesInit, Purse!WalletInit, Purse!TypeOK
<1>6. ChargingTypeOK
  BY DEF ChargesInit, ChargingTypeOK
<1>7. CostKept
  BY <1>1, <1>2 DEF CostKept, RowSteps
<1>8. InFlight
  BY <1>1, <1>2 DEF InFlight, Goroutines
<1>9. Paid
  BY <1>1, <1>3 DEF Paid, Owed
<1>10. RefundRows
  BY <1>1, <1>3, FS_EmptySet DEF RefundRows
<1> QED BY <1>4, <1>5, <1>6, <1>7, <1>8, <1>9, <1>10 DEF ChargesInv, Books

\* In every state.
THEOREM ChargesInvariant == ChargesSpec => []ChargesInv
<1>1. ChargesInit => ChargesInv
  BY ChargesStart
<1>2. ChargesInv /\ [ChargesNext]_allVars => ChargesInv'
  BY ChargesStep
<1> QED BY <1>1, <1>2, PTL DEF ChargesSpec

\* How many rows charge a task.
LEMMA PaidOnce ==
    ASSUME Paid, NEW t \in TaskIds
    PROVE  Cardinality(RowsOf(t, "user_consume")) = IF Owed(t) THEN 1 ELSE 0
BY FS_EmptySet, FS_Singleton DEF Paid

\* A task that costs something is there exactly when one row charges it,
\* with any number of requests, executions and administrators at once
\* (task_service.go:66-129).
THEOREM ChargesPaid == ChargesSpec => []PaidExactlyOnce
<1>1. ChargesInv => PaidExactlyOnce
  BY PaidOnce DEF ChargesInv, Books, PaidExactlyOnce, Owed
<1> QED BY <1>1, ChargesInvariant, PTL

\* The runs stay counted as in Tasks.
LEMMA ChargesCountRuns ==
    ChargesSpec => [](\A t \in TaskIds : RunsCounted(t))
<1> DEFINE Tallied == \A t \in TaskIds : RunsCounted(t)
<1>1. ChargesInit => Tallied
  <2> SUFFICES ASSUME Init, NEW t \in TaskIds PROVE RunsCounted(t)
    BY DEF ChargesInit
  <2>1. Waiting(t) = {} /\ Pushing(t) = {} /\ Running(t) = {} /\ Unpaid(t) = {}
    BY DEF Init, Waiting, Pushing, Running, Unpaid, Idle
  <2>2. refunds[t] = 0 /\ runs[t] = 0
    BY DEF Init
  <2> QED BY <2>1, <2>2, FS_EmptySet DEF RunsCounted, Places
<1>2. ChargesInv /\ Tallied /\ [ChargesNext]_allVars => Tallied'
  <2> SUFFICES ASSUME ChargesInv, Tallied, [ChargesNext]_allVars
               PROVE  Tallied'
    OBVIOUS
  <2>1. TypeOK /\ TasksStep
    BY StepsOfTasks DEF ChargesInv, Books
  <2>2. CASE UNCHANGED vars
    BY <2>2 DEF vars, RunsCounted, Places, Waiting, Pushing, Running, Unpaid
  <2> QED BY <2>1, <2>2, RequestRuns, ExecutionRuns DEF TasksStep
<1> HIDE DEF Tallied
<1>3. ChargesSpec => []Tallied
  BY <1>1, <1>2, ChargesInvariant, PTL DEF ChargesSpec
<1> QED BY <1>3 DEF Tallied

\* Only what was paid for is given back, and at most once for each request
\* let through to run the task, with any number of requests, executions and
\* administrators at once (task_service.go:105-129, 441-468).
THEOREM ChargesRefundsAreOfPaidRuns == ChargesSpec => []RefundsAreOfPaidRuns
<1>1. ChargesInv /\ (\A t \in TaskIds : RunsCounted(t)) => RefundsAreOfPaidRuns
  <2> SUFFICES ASSUME ChargesInv, NEW t \in TaskIds, RunsCounted(t)
               PROVE  /\ RowsOf(t, "user_refund") # {} => RowsOf(t, "user_consume") # {}
                      /\ Cardinality(RowsOf(t, "user_refund")) =< runs[t]
    BY DEF RefundsAreOfPaidRuns
  <2>1. /\ IsFiniteSet(RowsOf(t, "user_refund"))
        /\ Cardinality(RowsOf(t, "user_refund")) = refunds[t]
        /\ refunds[t] > 0 => Owed(t)
    BY DEF ChargesInv, Books, RefundRows
  <2>2. PICK w0 \in Nat, p0 \in Nat, u0 \in Nat, f \in Nat, k \in Nat :
           /\ w0 = Cardinality(Waiting(t)) /\ p0 = Cardinality(Pushing(t))
           /\ u0 = Cardinality(Unpaid(t)) /\ f = refunds[t] /\ k = runs[t]
    BY PlacesAreNumbers DEF ChargesInv
  <2>3. f + (w0 + p0) + u0 =< k
    BY <2>2 DEF RunsCounted, Places
  <2>4. f =< k
    BY <2>3
  <2>5. ASSUME RowsOf(t, "user_refund") # {} PROVE RowsOf(t, "user_consume") # {}
    <3>1. refunds[t] # 0
      BY <2>1, <2>5, FS_EmptySet
    <3>2. Owed(t)
      BY <2>1, <2>2, <3>1
    <3> QED BY <3>2 DEF ChargesInv, Books, Paid
  <2> QED BY <2>1, <2>2, <2>4, <2>5
<1> QED BY <1>1, ChargesInvariant, ChargesCountRuns, PTL

-----------------------------------------------------------------------------
(* The wallet under the charges.  What is proved of Wallet is proved of the *)
(* owner's too, once every step of Charges is seen to be one of its steps. *)

Proved == INSTANCE WalletProofs WITH
    Users      <- {Owner},
    Requests   <- Handlers \union Workers \union Others,
    Amounts    <- {Price},
    Limits     <- {0},
    Reasons    <- TaskIds \union {Manual},
    OrderIds   <- {},
    Operations <- {"deduct", "adjust"}

\* What Wallet assumes of its constants holds of the owner's.
LEMMA PurseAssumptions ==
    /\ Proved!AmountsAssumption /\ Proved!OperationsAssumption
    /\ Proved!LimitsAssumption /\ Proved!NoUserAssumption
<1>1. Proved!AmountsAssumption
  BY PriceAssumption DEF Proved!AmountsAssumption
<1>2. Proved!OperationsAssumption
  BY DEF Proved!OperationsAssumption
<1>3. Proved!LimitsAssumption
  BY DEF Proved!LimitsAssumption
<1>4. Proved!NoUserAssumption
  BY NoOwnerAssumption DEF Proved!NoUserAssumption, Proved!Row, Purse!Row
<1> QED BY <1>1, <1>2, <1>3, <1>4

\* The reads of the balance are the same operations ...
LEMMA SameReads ==
    ASSUME NEW g, NEW type, NEW reason
    PROVE  /\ Purse!BeginDeduct(g, Owner, Price, type, reason)
                 => Proved!BeginDeduct(g, Owner, Price, type, reason)
           /\ Purse!BeginAdjust(g, Owner, Price, type, reason)
                 => Proved!BeginAdjust(g, Owner, Price, type, reason)
BY DEF Purse!BeginDeduct, Proved!BeginDeduct, Purse!BeginAdjust, Proved!BeginAdjust,
       Purse!CanRead, Proved!CanRead, Purse!SufficientFunds, Proved!SufficientFunds,
       Purse!Goto, Proved!Goto, Purse!Idle, Proved!Idle

\* ... and so are the writes and what follows them.
LEMMA SameWrites ==
    ASSUME NEW g
    PROVE  /\ Purse!DeductWrite(g) => Proved!DeductWrite(g)
           /\ Purse!AdjustWrite(g) => Proved!AdjustWrite(g)
           /\ Purse!Invalidate(g) => Proved!Invalidate(g)
<1> USE DEF Purse!Goto, Proved!Goto, Purse!Idle, Proved!Idle
<1>1. Purse!DeductWrite(g) => Proved!DeductWrite(g)
  BY DEF Purse!DeductWrite, Proved!DeductWrite, Purse!VersionedWrite,
         Proved!VersionedWrite, Purse!RowMatches, Proved!RowMatches,
         Purse!DeductedRow, Proved!DeductedRow, Purse!RowOf, Proved!RowOf
<1>2. Purse!AdjustWrite(g) => Proved!AdjustWrite(g)
  BY DEF Purse!AdjustWrite, Proved!AdjustWrite, Purse!VersionedWrite,
         Proved!VersionedWrite, Purse!RowMatches, Proved!RowMatches,
         Purse!AdjustedRow, Proved!AdjustedRow, Purse!RowOf, Proved!RowOf
<1>3. Purse!Invalidate(g) => Proved!Invalidate(g)
  BY DEF Purse!Invalidate, Proved!Invalidate
<1> QED BY <1>1, <1>2, <1>3

\* Reads by any goroutine are steps of the wallet ...
LEMMA ReadOfWallet ==
    ASSUME NEW g \in Goroutines, NEW reason \in Named,
           \/ \E type \in Purse!DeductTypes :
                 Purse!BeginDeduct(g, Owner, Price, type, reason)
           \/ \E type \in Purse!AdjustTypes :
                 Purse!BeginAdjust(g, Owner, Price, type, reason)
    PROVE  Proved!WalletNext
<1>1. Proved!Begin(g, Owner)
  BY SameReads DEF Proved!Begin, Named, Proved!DeductTypes, Proved!AdjustTypes,
                   Purse!DeductTypes, Purse!AdjustTypes
<1> QED BY <1>1 DEF Proved!WalletNext, Goroutines

\* ... and so are writes.
LEMMA WriteOfWallet ==
    ASSUME NEW g \in Goroutines,
           Purse!DeductWrite(g) \/ Purse!AdjustWrite(g) \/ Purse!Invalidate(g)
    PROVE  Proved!WalletNext
<1>1. Proved!Continue(g)
  BY SameWrites DEF Proved!Continue
<1> QED BY <1>1 DEF Proved!WalletNext, Goroutines

\* A step of Charges is a step of the wallet or leaves it alone.
LEMMA StepsOfWallet ==
    ASSUME ChargesInv, [ChargesNext]_allVars
    PROVE  [Proved!WalletNext]_(Proved!walletVars)
<1>0. ASSUME UNCHANGED chargeVars PROVE UNCHANGED Proved!walletVars
  BY <1>0 DEF chargeVars, Proved!walletVars
<1>1. CASE UNCHANGED allVars
  BY <1>0, <1>1 DEF allVars
<1>2. ASSUME NEW h \in Handlers, BeginRequest(h) \/ GoOnWithRequest(h)
      PROVE  [Proved!WalletNext]_(Proved!walletVars)
  <2>1. ASSUME NEW t \in TaskIds, NEW input \in Kinds, BeginCharge(h, t, input)
        PROVE  Proved!WalletNext
    BY <2>1, ReadOfWallet DEF BeginCharge, Purse!DeductTypes, Goroutines, Named
  <2>2. CASE CommitCharge(h) \/ DropCopy(h)
    BY <2>2, WriteOfWallet DEF CommitCharge, DropCopy, Goroutines
  <2>3. ASSUME NEW t \in TaskIds, NEW input \in Kinds, CreateForFree(h, t, input)
        PROVE  UNCHANGED chargeVars
    BY <2>3 DEF CreateForFree
  <2> QED BY <1>0, <1>2, <2>1, <2>2, <2>3 DEF BeginRequest, GoOnWithRequest
<1>3. ASSUME NEW w \in Workers, PopTask(w) \/ GoOnWithTask(w)
      PROVE  [Proved!WalletNext]_(Proved!walletVars)
  <2>1. CASE BeginRefund(w)
    <3>1. worker[w].task \in TaskIds
      BY <2>1, WorkerHoldsRow DEF BeginRefund, ChargesInv, TypeOK, RowSteps
    <3> QED BY <2>1, <3>1, ReadOfWallet
            DEF BeginRefund, Purse!AdjustTypes, Goroutines, Named
  <2>2. CASE CommitRefund(w) \/ DropCopy(w)
    BY <2>2, WriteOfWallet DEF CommitRefund, DropCopy, Goroutines
  <2> QED BY <1>0, <1>3, <2>1, <2>2 DEF PopTask, GoOnWithTask
<1>4. ASSUME NEW r \in Others, BeginOther(r) \/ CommitOther(r) \/ DropCopy(r)
      PROVE  Proved!WalletNext
  <2>1. CASE BeginOther(r)
    BY <2>1, ReadOfWallet
    DEF BeginOther, Purse!AdjustTypes, Purse!DeductTypes, Goroutines, Named
  <2>2. CASE CommitOther(r) \/ DropCopy(r)
    BY <2>2, WriteOfWallet DEF CommitOther, DropCopy, Goroutines
  <2> QED BY <1>4, <2>1, <2>2
<1> QED BY <1>1, <1>2, <1>3, <1>4 DEF ChargesNext

\* Charges adds no behaviour to the owner's balance and transactions.
LEMMA ChargesImplementWallet == ChargesSpec => Proved!WalletSpec
<1>1. ChargesInit => Proved!WalletInit
  BY DEF ChargesInit, Purse!WalletInit, Proved!WalletInit, Purse!NewRow,
         Proved!NewRow, Purse!Idle, Proved!Idle
<1>2. ChargesInv /\ [ChargesNext]_allVars => [Proved!WalletNext]_(Proved!walletVars)
  BY StepsOfWallet
<1> QED BY <1>1, <1>2, ChargesInvariant, PTL DEF ChargesSpec, Proved!WalletSpec

\* The abstract ledger is the same whichever way it is reached.
LEMMA SameLedger == Proved!ImplementsLedger <=> Purse!ImplementsLedger
<1>1. Proved!Ledger!Init <=> Purse!Ledger!Init
  BY DEF Proved!Ledger!Init, Purse!Ledger!Init
<1>2. /\ Proved!Ledger!vars = Purse!Ledger!vars
      /\ Proved!Ledger!vars' = Purse!Ledger!vars'
  BY DEF Proved!Ledger!vars, Purse!Ledger!vars
<1>3. ASSUME NEW u PROVE Purse!Ledger!Balance(u) = Proved!Ledger!Balance(u)
  BY DEF Proved!Ledger!Balance, Purse!Ledger!Balance
<1>4. ASSUME NEW u, NEW a, NEW t, NEW r
      PROVE  Purse!Ledger!Record(u, a, t, r) <=> Proved!Ledger!Record(u, a, t, r)
  BY DEF Proved!Ledger!Record, Purse!Ledger!Record, Proved!Ledger!Balance,
         Purse!Ledger!Balance
<1>5. ASSUME NEW u, NEW a, NEW t, NEW r
      PROVE  /\ Purse!Ledger!Debit(u, a, t, r) <=> Proved!Ledger!Debit(u, a, t, r)
             /\ Purse!Ledger!Credit(u, a, t, r) <=> Proved!Ledger!Credit(u, a, t, r)
  <2>1. Purse!Ledger!Debit(u, a, t, r) <=> Proved!Ledger!Debit(u, a, t, r)
    BY <1>3, <1>4 DEF Proved!Ledger!Debit, Purse!Ledger!Debit
  <2>2. Purse!Ledger!Credit(u, a, t, r) <=> Proved!Ledger!Credit(u, a, t, r)
    BY <1>4 DEF Proved!Ledger!Credit, Purse!Ledger!Credit
  <2> QED BY <2>1, <2>2
<1>6. ASSUME NEW u, NEW newLimit
      PROVE  Purse!Ledger!SetLimit(u, newLimit) <=> Proved!Ledger!SetLimit(u, newLimit)
  BY DEF Proved!Ledger!SetLimit, Purse!Ledger!SetLimit
<1>7. ASSUME NEW u PROVE Purse!Ledger!Close(u) <=> Proved!Ledger!Close(u)
  BY DEF Proved!Ledger!Close, Purse!Ledger!Close
<1>8. Purse!Types = Proved!Types /\ Purse!RowReasons = Proved!RowReasons
  BY DEF Purse!Types, Proved!Types, Purse!RowReasons, Proved!RowReasons,
         Purse!DeductTypes, Proved!DeductTypes, Purse!AdjustTypes,
         Proved!AdjustTypes, Purse!TopupTypes, Proved!TopupTypes
<1>9. Purse!Ledger!Next <=> Proved!Ledger!Next
  BY <1>5, <1>6, <1>7, <1>8 DEF Proved!Ledger!Next, Purse!Ledger!Next
<1>10. [Proved!Ledger!Next]_(Proved!Ledger!vars) <=> [Purse!Ledger!Next]_(Purse!Ledger!vars)
  BY <1>2, <1>9
<1> QED BY <1>1, <1>10, PTL
        DEF Proved!ImplementsLedger, Purse!ImplementsLedger, Proved!Ledger!Spec,
            Purse!Ledger!Spec

\* Any number of requests, executions and administrators use the wallet as
\* the ledger whose operations are atomic.
THEOREM ChargesRefineLedger == ChargesSpec => ChargesImplementLedger
<1>1. Proved!WalletSpec => Proved!ImplementsLedger
  BY Proved!WalletImplementsLedger, PurseAssumptions
<1> QED BY <1>1, ChargesImplementWallet, SameLedger, PTL DEF ChargesImplementLedger

\* The owner's transactions account for the balance and for total_consumed,
\* whatever charges, refunds and adjustments overlap.
THEOREM ChargesLedger ==
    ChargesSpec => [](Purse!LedgerComplete /\ Purse!ConsumedAgrees)
<1>1. Proved!WalletSpec => []Proved!LedgerComplete
  BY Proved!WalletLedger, PurseAssumptions
<1>2. Proved!WalletSpec => []Proved!ConsumedAgrees
  BY Proved!WalletConsumed, PurseAssumptions
<1>3. Proved!LedgerComplete => Purse!LedgerComplete
  BY DEF Proved!LedgerComplete, Purse!LedgerComplete, Proved!Joined, Purse!Joined,
         Proved!EndOf, Purse!EndOf
<1>4. Proved!ConsumedAgrees => Purse!ConsumedAgrees
  BY DEF Proved!ConsumedAgrees, Purse!ConsumedAgrees, Proved!ConsumedBy,
         Purse!ConsumedBy, Proved!Consumption, Purse!Consumption
<1> QED BY <1>1, <1>2, <1>3, <1>4, ChargesImplementWallet, PTL

\* No charge takes the owner below the credit, although the funds were
\* checked against a row read earlier (user_service.go:65-69).
THEOREM ChargesNoOverdraft == ChargesSpec => Purse!NoOverdraft
<1>1. Proved!WalletSpec => Proved!NoOverdraft
  BY Proved!WalletNoOverdraft, PurseAssumptions
<1>2. Proved!NoOverdraft => Purse!NoOverdraft
  BY DEF Proved!NoOverdraft, Purse!NoOverdraft, Proved!walletVars, Purse!walletVars
<1> QED BY <1>1, <1>2, ChargesImplementWallet, PTL

-----------------------------------------------------------------------------
(* The tasks under the charges, whose creation Charges takes apart.        *)

\* The requests about tasks are the same operations ...
LEMMA SameRequests ==
    ASSUME NEW h \in Handlers, NEW t \in TaskIds
    PROVE  /\ BeginHandler(h, t) => AsTasks!BeginHandler(h, t)
           /\ \A input \in Kinds, cost \in BOOLEAN :
                 CreateTask(h, t, input, cost) => AsTasks!BeginHandler(h, t)
<1> USE DEF HandlerTo, AsTasks!HandlerTo, history, AsTasks!history, Idle, AsTasks!Idle
<1>1. ASSUME NEW input, NEW cost, CreateTask(h, t, input, cost)
      PROVE  AsTasks!CreateTask(h, t, input, cost)
  BY <1>1 DEF CreateTask, AsTasks!CreateTask
<1>2. ASSUME NEW row, NEW push, ReadForSave(h, t, row, push)
      PROVE  AsTasks!ReadForSave(h, t, row, push)
  BY <1>2 DEF ReadForSave, AsTasks!ReadForSave
<1>3. ApproveTask(h, t) => AsTasks!ApproveTask(h, t)
  BY <1>2 DEF ApproveTask, AsTasks!ApproveTask
<1>4. ASSUME NEW input, UpdateTask(h, t, input) PROVE AsTasks!UpdateTask(h, t, input)
  BY <1>2, <1>4 DEF UpdateTask, AsTasks!UpdateTask
<1>5. RetryTask(h, t) => AsTasks!RetryTask(h, t)
  BY <1>2 DEF RetryTask, AsTasks!RetryTask
<1>6. CancelTask(h, t) => AsTasks!CancelTask(h, t)
  BY <1>2 DEF CancelTask, AsTasks!CancelTask
<1>7. BeginHandler(h, t) => AsTasks!BeginHandler(h, t)
  BY <1>1, <1>3, <1>4, <1>5, <1>6 DEF BeginHandler, AsTasks!BeginHandler
<1>8. \A input \in Kinds, cost \in BOOLEAN :
         CreateTask(h, t, input, cost) => AsTasks!BeginHandler(h, t)
  BY <1>1 DEF AsTasks!BeginHandler
<1> QED BY <1>7, <1>8

LEMMA SameContinue ==
    ASSUME NEW h \in Handlers, ContinueHandler(h)
    PROVE  AsTasks!ContinueHandler(h)
BY DEF ContinueHandler, AsTasks!ContinueHandler, HandlerSave, AsTasks!HandlerSave,
       HandlerPush, AsTasks!HandlerPush, HandlerTo, AsTasks!HandlerTo, history,
       AsTasks!history, Idle, AsTasks!Idle

\* ... and so are the steps of an execution.
LEMMA SameExecution ==
    ASSUME NEW w \in Workers
    PROVE  /\ Pop(w) => AsTasks!Pop(w)
           /\ ContinueWorker(w) => AsTasks!ContinueWorker(w)
<1> USE DEF WorkerTo, AsTasks!WorkerTo, history, AsTasks!history, Idle, AsTasks!Idle
<1>1. Pop(w) => AsTasks!Pop(w)
  BY DEF Pop, AsTasks!Pop
<1>2. ASSUME NEW t, NEW row PROVE Saved(t, row) <=> AsTasks!Saved(t, row)
  BY DEF Saved, AsTasks!Saved
<1>3. ASSUME NEW row PROVE /\ Submits(row) <=> AsTasks!Submits(row)
                           /\ StoredJob(row) <=> AsTasks!StoredJob(row)
                           /\ RetriesLeft(row) <=> AsTasks!RetriesLeft(row)
  BY DEF Submits, AsTasks!Submits, StoredJob, AsTasks!StoredJob, RetriesLeft,
         AsTasks!RetriesLeft
<1>4. /\ ReadTask(w) => AsTasks!ReadTask(w)
      /\ StartTask(w) => AsTasks!StartTask(w)
      /\ SaveRemote(w) => AsTasks!SaveRemote(w)
      /\ Complete(w) => AsTasks!Complete(w)
      /\ GiveUp(w) => AsTasks!GiveUp(w)
  BY <1>2 DEF ReadTask, AsTasks!ReadTask, StartTask, AsTasks!StartTask, SaveRemote,
              AsTasks!SaveRemote, Complete, AsTasks!Complete, GiveUp, AsTasks!GiveUp
<1>5. /\ Submit(w) => AsTasks!Submit(w)
      /\ Succeed(w) => AsTasks!Succeed(w)
      /\ Fail(w) => AsTasks!Fail(w)
  BY <1>3 DEF Submit, AsTasks!Submit, Succeed, AsTasks!Succeed, Fail, AsTasks!Fail
<1>6. /\ Requeue(w) => AsTasks!Requeue(w)
      /\ LastFailure(w) => AsTasks!LastFailure(w)
  BY <1>2, <1>3 DEF Requeue, AsTasks!Requeue, LastFailure, AsTasks!LastFailure
<1>7. Refund(w) => AsTasks!Refund(w)
  BY DEF Refund, AsTasks!Refund
<1>8. ContinueWorker(w) => AsTasks!ContinueWorker(w)
  BY <1>4, <1>5, <1>6, <1>7 DEF ContinueWorker, AsTasks!ContinueWorker
<1> QED BY <1>1, <1>8

\* So every step of Charges is one of Tasks, or leaves the tasks alone.
LEMMA ChargesStepsOfTasks ==
    ASSUME ChargingTypeOK, [ChargesNext]_allVars
    PROVE  [AsTasks!Next]_(AsTasks!vars)
<1>1. TasksStep
  BY StepsOfTasks
<1>2. CASE UNCHANGED vars
  BY <1>2 DEF vars, AsTasks!vars
<1>3. ASSUME NEW h \in Handlers, NEW t \in TaskIds,
             \/ BeginHandler(h, t)
             \/ \E input \in Kinds, cost \in BOOLEAN : CreateTask(h, t, input, cost)
      PROVE  AsTasks!Next
  <2>1. AsTasks!BeginHandler(h, t)
    BY <1>3, SameRequests
  <2> QED BY <2>1 DEF AsTasks!Next
<1>4. ASSUME NEW h \in Handlers, ContinueHandler(h) PROVE AsTasks!Next
  <2>1. AsTasks!ContinueHandler(h)
    BY <1>4, SameContinue
  <2> QED BY <2>1 DEF AsTasks!Next
<1>5. ASSUME NEW w \in Workers, Pop(w) \/ ContinueWorker(w) PROVE AsTasks!Next
  <2>1. AsTasks!Pop(w) \/ AsTasks!ContinueWorker(w)
    BY <1>5, SameExecution
  <2> QED BY <2>1 DEF AsTasks!Next
<1> QED BY <1>1, <1>2, <1>3, <1>4, <1>5 DEF TasksStep

\* For the tasks, charges and refunds in several racing steps are the single
\* steps Tasks has for them.
THEOREM ChargesRefineTasks == ChargesSpec => ChargesImplementTasks
<1>1. ChargesInit => AsTasks!Init
  BY DEF ChargesInit, Init, AsTasks!Init, Idle, AsTasks!Idle
<1>2. ChargesInv /\ [ChargesNext]_allVars => [AsTasks!Next]_(AsTasks!vars)
  BY ChargesStepsOfTasks DEF ChargesInv, Books
<1> QED BY <1>1, <1>2, ChargesInvariant, PTL
        DEF ChargesSpec, ChargesImplementTasks, AsTasks!Spec

\* Whatever races the refund or the debit, no row and no copy counts more
\* retries than the task has failed, and money goes back only after every
\* retry (task_service.go:438-468).
LEMMA ChargesRefundStep ==
    ASSUME TypeOK, TypeOK', RetriesAreFailures, TasksStep
    PROVE  RefundStep
<1>1. CASE UNCHANGED vars
  BY <1>1, RefundsOfStep
<1> QED BY <1>1, HandlerRefunds, WorkerRefunds DEF TasksStep

THEOREM ChargesRefundAfterRetries ==
    ChargesSpec => [](RetriesAreFailures /\ RefundOnlyAfterRetries)
<1> DEFINE Late == RetriesAreFailures /\ RefundOnlyAfterRetries
<1>1. ChargesInit => Late
  BY DEF ChargesInit, Init, RetriesAreFailures, RefundOnlyAfterRetries, Idle
<1>2. ChargesInv /\ ChargesInv' /\ Late /\ [ChargesNext]_allVars => Late'
  <2> SUFFICES ASSUME ChargesInv, ChargesInv', Late, [ChargesNext]_allVars
               PROVE  Late'
    OBVIOUS
  <2>1. TypeOK /\ TypeOK' /\ RefundStep
    BY StepsOfTasks, ChargesRefundStep DEF ChargesInv, Books
  <2>2. RetriesAreFailures'
    BY <2>1 DEF RefundStep
  <2> QED BY <2>1, <2>2, RefundsStayLate
<1> HIDE DEF Late
<1>3. ChargesSpec => []Late
  BY <1>1, <1>2, ChargesInvariant, PTL DEF ChargesSpec
<1> QED BY <1>3 DEF Late

\* A task that was paid for and waits is queued or on its way to or from the
\* queue, whatever races its charge, as long as pushes and saves succeed and
\* no input is updated (task_service.go:66-146, 351-381).
THEOREM ChargesWaitingIsScheduled ==
    ~ Failures /\ "update" \notin Operations => (ChargesSpec => []WaitingIsScheduled)
<1> SUFFICES ASSUME ~ Failures, "update" \notin Operations
             PROVE  ChargesSpec => []WaitingIsScheduled
  OBVIOUS
<1> DEFINE Inv == NoneWaits /\ WaitingIsScheduled
<1>1. ChargesInit => Inv
  BY DEF ChargesInit, Init, NoneWaits, WaitingIsScheduled, StatusIn, Idle, RowSteps
<1>2. ChargesInv /\ Inv /\ [ChargesNext]_allVars => Inv'
  <2> SUFFICES ASSUME ChargesInv, Inv, [ChargesNext]_allVars
               PROVE  Inv'
    OBVIOUS
  <2>1. TypeOK /\ TasksStep
    BY StepsOfTasks DEF ChargesInv, Books
  <2>2. CASE UNCHANGED vars
    BY <2>2 DEF vars, NoneWaits, WaitingIsScheduled, StatusIn, Scheduled
  <2> QED BY <2>1, <2>2, RequestSchedules, ExecutionSchedules DEF TasksStep
<1>3. Inv => WaitingIsScheduled
  OBVIOUS
<1> HIDE DEF Inv
<1> QED BY <1>1, <1>2, <1>3, ChargesInvariant, PTL DEF ChargesSpec

=============================================================================
