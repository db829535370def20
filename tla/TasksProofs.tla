---------------------------- MODULE TasksProofs ----------------------------
(* Theorems about Tasks, for any number of tasks, requests and executions.  *)
EXTENDS Tasks, FiniteSetTheorems, TLAPS

-----------------------------------------------------------------------------
(* What a goroutine holds, by the step it is at.                           *)

RowSteps == {"start", "execute", "save_remote", "poll", "done", "error",
             "refund", "give_up"}

\* An execution that has read its task holds a row of it.
LEMMA WorkerHoldsRow ==
    ASSUME NEW q \in WorkerState, q.step \notin {"idle", "read", "requeue"}
    PROVE  /\ q \in [step : RowSteps, task : TaskIds, row : TaskRow]
           /\ q.step \in RowSteps /\ q.task \in TaskIds /\ q.row \in TaskRow
BY DEF WorkerState, Idle, RowSteps

\* One that has not, or has let go of it, still names its task.
LEMMA WorkerHoldsTask ==
    ASSUME NEW q \in WorkerState, q.step \in {"read", "requeue"}
    PROVE  q.task \in TaskIds
BY DEF WorkerState, Idle

\* It goes on to a later step with the same row.
LEMMA WorkerGoesOn ==
    ASSUME NEW q \in [step : RowSteps, task : TaskIds, row : TaskRow],
           NEW s \in RowSteps, NEW row \in TaskRow
    PROVE  /\ [q EXCEPT !.step = s, !.row = row] \in WorkerState
           /\ [q EXCEPT !.step = s, !.row = row].step = s
           /\ [q EXCEPT !.step = s, !.row = row].task = q.task
           /\ [q EXCEPT !.step = s, !.row = row].row = row
           /\ [q EXCEPT !.step = s] \in WorkerState
           /\ [q EXCEPT !.step = s].step = s
           /\ [q EXCEPT !.step = s].task = q.task
           /\ [q EXCEPT !.step = s].row = q.row
BY DEF WorkerState, RowSteps

\* A request about to save holds a row of its task.
LEMMA HandlerHoldsRow ==
    ASSUME NEW q \in HandlerState, q.step = "save"
    PROVE  q.task \in TaskIds /\ q.row \in TaskRow /\ q.push \in BOOLEAN
BY DEF HandlerState, Idle

\* One about to push holds the id.
LEMMA HandlerHoldsTask ==
    ASSUME NEW q \in HandlerState, q.step = "push"
    PROVE  q.task \in TaskIds
BY DEF HandlerState, Idle

\* The assignments to a copy keep it a row.
LEMMA RowAssignments ==
    ASSUME NEW row \in TaskRow, NEW status \in Statuses
    PROVE  /\ [row EXCEPT !.status = status] \in TaskRow
           /\ [row EXCEPT !.status = status, !.result = TRUE] \in TaskRow
           /\ [row EXCEPT !.status = status, !.retries = 0, !.result = FALSE]
                 \in TaskRow
           /\ RetriesLeft(row) =>
                 [row EXCEPT !.retries = @ + 1, !.status = status] \in TaskRow
<1>1. 0 \in 0..MaxRetries
  BY MaxRetriesAssumption
<1>2. row.retries \in 0..MaxRetries
  BY DEF TaskRow
<1>3. RetriesLeft(row) => row.retries + 1 \in 0..MaxRetries
  BY <1>2, MaxRetriesAssumption DEF RetriesLeft
<1> QED
  BY <1>1, <1>2, <1>3 DEF TaskRow

-----------------------------------------------------------------------------
(* Types.                                                                  *)

\* A counter of tasks counts on.
LEMMA Counting ==
    ASSUME NEW f \in [TaskIds -> Nat], NEW t \in TaskIds
    PROVE  [f EXCEPT ![t] = @ + 1] \in [TaskIds -> Nat]
<1>1. f[t] + 1 \in Nat
  OBVIOUS
<1> QED
  BY <1>1

\* A request that has begun leaves the types alone.
LEMMA BeginHandlerType ==
    ASSUME TypeOK, NEW h \in Handlers, NEW t \in TaskIds,
           \/ BeginHandler(h, t)
           \/ \E input \in Kinds, cost \in BOOLEAN : CreateTask(h, t, input, cost)
    PROVE  TypeOK'
<1>1. ASSUME NEW row \in TaskRow, NEW push \in BOOLEAN,
             ReadForSave(h, t, row, push), runs' \in [TaskIds -> Nat]
      PROVE  TypeOK'
  <2>1. [step |-> "save", task |-> t, row |-> row, push |-> push] \in HandlerState
    BY DEF HandlerState
  <2> QED
    BY <1>1, <2>1 DEF TypeOK, ReadForSave, HandlerTo
<1>2. task[t] # NoTask => task[t] \in TaskRow
  BY DEF TypeOK
<1>3. ASSUME NEW input \in Kinds, NEW cost \in BOOLEAN, CreateTask(h, t, input, cost)
      PROVE  TypeOK'
  <2>1. 0 \in 0..MaxRetries
    BY MaxRetriesAssumption
  <2>2. [status |-> IF AutoAudit THEN "pending_execution" ELSE "pending_audit",
         retries |-> 0, input |-> input, remote |-> 0, result |-> FALSE,
         cost |-> cost] \in TaskRow
    BY <2>1 DEF TaskRow, Statuses
  <2>3. /\ Idle \in HandlerState
        /\ [step |-> "push", task |-> t] \in HandlerState
    BY DEF HandlerState
  <2>4. runs' \in [TaskIds -> Nat]
    BY <1>3, Counting DEF CreateTask, TypeOK
  <2> QED
    BY <1>3, <2>2, <2>3, <2>4 DEF TypeOK, CreateTask, HandlerTo
<1>4. CASE ApproveTask(h, t)
  <2>1. [task[t] EXCEPT !.status = "pending_execution"] \in TaskRow
    BY <1>2, <1>4, RowAssignments DEF ApproveTask, Statuses
  <2>2. runs' \in [TaskIds -> Nat]
    BY <1>4, Counting DEF ApproveTask, ReadForSave, TypeOK
  <2> QED
    BY <1>1, <1>4, <2>1, <2>2 DEF ApproveTask
<1>5. ASSUME NEW input \in Kinds, UpdateTask(h, t, input)
      PROVE  TypeOK'
  <2>1. [task[t] EXCEPT !.input = input] \in TaskRow
    BY <1>2, <1>5 DEF UpdateTask, TaskRow
  <2> QED
    BY <1>1, <1>5, <2>1 DEF UpdateTask, ReadForSave, TypeOK
<1>6. CASE RetryTask(h, t)
  <2>1. [task[t] EXCEPT !.status = "pending_execution", !.retries = 0,
                        !.result = FALSE] \in TaskRow
    BY <1>2, <1>6, RowAssignments DEF RetryTask, Statuses
  <2>2. runs' \in [TaskIds -> Nat]
    BY <1>6, Counting DEF RetryTask, ReadForSave, TypeOK
  <2> QED
    BY <1>1, <1>6, <2>1, <2>2 DEF RetryTask
<1>7. CASE CancelTask(h, t)
  <2>1. [task[t] EXCEPT !.status = "cancelled"] \in TaskRow
    BY <1>2, <1>7, RowAssignments DEF CancelTask, Statuses
  <2> QED
    BY <1>1, <1>7, <2>1 DEF CancelTask, ReadForSave, TypeOK
<1> QED
  BY <1>3, <1>4, <1>5, <1>6, <1>7 DEF BeginHandler

\* Nor does one that goes on or fails.
LEMMA ContinueHandlerType ==
    ASSUME TypeOK, NEW h \in Handlers, ContinueHandler(h) \/ HandlerFails(h)
    PROVE  TypeOK'
<1>1. handler[h] \in HandlerState
  BY DEF TypeOK
<1>2. CASE HandlerSave(h)
  <2>1. /\ handler[h].task \in TaskIds
        /\ handler[h].row \in TaskRow
        /\ handler[h].push \in BOOLEAN
    BY <1>1, <1>2, HandlerHoldsRow DEF HandlerSave
  <2>2. /\ Idle \in HandlerState
        /\ [step |-> "push", task |-> handler[h].task] \in HandlerState
    BY <2>1 DEF HandlerState
  <2> QED
    BY <1>2, <2>1, <2>2 DEF TypeOK, HandlerSave, HandlerTo, history
<1>3. CASE HandlerPush(h)
  <2>1. handler[h].task \in TaskIds
    BY <1>1, <1>3, HandlerHoldsTask DEF HandlerPush
  <2>2. Append(queue, handler[h].task) \in Seq(TaskIds)
    BY <2>1 DEF TypeOK
  <2>3. Idle \in HandlerState
    BY DEF HandlerState
  <2> QED
    BY <1>3, <2>2, <2>3 DEF TypeOK, HandlerPush, HandlerTo, history
<1>4. CASE HandlerFails(h)
  <2>1. Idle \in HandlerState
    BY DEF HandlerState
  <2> QED
    BY <1>4, <2>1 DEF TypeOK, HandlerFails, HandlerTo, history
<1> QED
  BY <1>2, <1>3, <1>4 DEF ContinueHandler

\* A save of an execution's copy, done or dropped, keeps the table.
LEMMA SavedType ==
    ASSUME TypeOK, NEW t \in TaskIds, NEW row \in TaskRow, Saved(t, row)
    PROVE  task' \in [TaskIds -> TaskRow \union {NoTask}]
BY DEF TypeOK, Saved

\* Every step of an execution leaves the types alone.
LEMMA WorkerType ==
    ASSUME TypeOK, NEW w \in Workers, Pop(w) \/ ContinueWorker(w)
    PROVE  TypeOK'
<1> DEFINE q == worker[w]
<1>1. q \in WorkerState /\ Idle \in WorkerState
  BY DEF TypeOK, WorkerState
<1>2. q.step \in RowSteps =>
         /\ q \in [step : RowSteps, task : TaskIds, row : TaskRow]
         /\ q.task \in TaskIds /\ q.row \in TaskRow
  BY <1>1, WorkerHoldsRow DEF RowSteps
<1>3. CASE Pop(w)
  <2>1. Head(queue) \in TaskIds /\ Tail(queue) \in Seq(TaskIds)
    BY <1>3 DEF Pop, TypeOK
  <2>2. [step |-> "read", task |-> Head(queue)] \in WorkerState
    BY <2>1 DEF WorkerState
  <2> QED
    BY <1>3, <2>1, <2>2 DEF Pop, WorkerTo, TypeOK, history
<1>4. CASE ReadTask(w)
  <2>1. q.task \in TaskIds
    BY <1>1, <1>4, WorkerHoldsTask DEF ReadTask
  <2>2. task[q.task] # NoTask => task[q.task] \in TaskRow
    BY <2>1 DEF TypeOK
  <2>3. task[q.task] # NoTask =>
           [task[q.task] EXCEPT !.status = "processing"] \in TaskRow
    BY <2>2, RowAssignments DEF Statuses
  <2>4. task[q.task] # NoTask =>
           [step |-> "start", task |-> q.task,
            row |-> [task[q.task] EXCEPT !.status = "processing"]] \in WorkerState
    BY <2>1, <2>3 DEF WorkerState
  <2> QED
    BY <1>1, <1>4, <2>4 DEF ReadTask, WorkerTo, TypeOK, history
<1>5. CASE StartTask(w)
  <2>1. [q EXCEPT !.step = "execute"] \in WorkerState
    BY <1>2, <1>5, WorkerGoesOn DEF StartTask, RowSteps
  <2>2. task' \in [TaskIds -> TaskRow \union {NoTask}]
    BY <1>2, <1>5, SavedType DEF StartTask, RowSteps
  <2> QED
    BY <1>5, <2>1, <2>2 DEF StartTask, WorkerTo, TypeOK, history
<1>6. CASE Submit(w)
  <2>0. /\ q \in [step : RowSteps, task : TaskIds, row : TaskRow]
        /\ q.task \in TaskIds /\ q.row \in TaskRow
        /\ "poll" \in RowSteps /\ "save_remote" \in RowSteps
    BY <1>2, <1>6 DEF Submit, RowSteps
  <2>1. submits' \in [TaskIds -> Nat]
    <3>1. [submits EXCEPT ![q.task] = @ + 1] \in [TaskIds -> Nat]
      BY <2>0, Counting DEF TypeOK
    <3> QED
      BY <1>6, <3>1 DEF Submit, TypeOK
  <2>2. [q EXCEPT !.step = "poll"] \in WorkerState
    BY <2>0, WorkerGoesOn
  <2>3. submits[q.task] + 1 \in Nat
    BY <2>0 DEF TypeOK
  <2>4. [q.row EXCEPT !.remote = submits[q.task] + 1] \in TaskRow
    BY <2>0, <2>3 DEF TaskRow
  <2>5. [q EXCEPT !.step = "save_remote", !.row.remote = submits[q.task] + 1]
           \in WorkerState
    <3>1. [q EXCEPT !.step = "save_remote",
                    !.row = [q.row EXCEPT !.remote = submits[q.task] + 1]]
             \in WorkerState
      BY <2>0, <2>4, WorkerGoesOn
    <3>2. [q EXCEPT !.step = "save_remote", !.row.remote = submits[q.task] + 1]
           = [q EXCEPT !.step = "save_remote",
                       !.row = [q.row EXCEPT !.remote = submits[q.task] + 1]]
      BY <2>0
    <3> QED
      BY <3>1, <3>2
  <2> QED
    BY <1>6, <2>1, <2>2, <2>5 DEF Submit, WorkerTo, TypeOK
<1>7. CASE SaveRemote(w)
  <2>1. [q EXCEPT !.step = "poll"] \in WorkerState
    BY <1>2, <1>7, WorkerGoesOn DEF SaveRemote, RowSteps
  <2>2. task' \in [TaskIds -> TaskRow \union {NoTask}]
    BY <1>2, <1>7, SavedType DEF SaveRemote, RowSteps
  <2> QED
    BY <1>7, <2>1, <2>2 DEF SaveRemote, WorkerTo, TypeOK, history
<1>8. CASE Succeed(w)
  <2>1. [q.row EXCEPT !.status = "completed", !.result = TRUE] \in TaskRow
    BY <1>2, <1>8, RowAssignments DEF Succeed, RowSteps, Statuses
  <2>2. [q EXCEPT !.step = "done",
                  !.row = [q.row EXCEPT !.status = "completed", !.result = TRUE]]
           \in WorkerState
    BY <1>2, <1>8, <2>1, WorkerGoesOn DEF Succeed, RowSteps
  <2>3. [q EXCEPT !.step = "done", !.row.status = "completed", !.row.result = TRUE]
         = [q EXCEPT !.step = "done",
                     !.row = [q.row EXCEPT !.status = "completed", !.result = TRUE]]
    BY <1>2, <1>8 DEF Succeed, RowSteps
  <2>4. worker' = [worker EXCEPT ![w] =
           [q EXCEPT !.step = "done", !.row.status = "completed",
                     !.row.result = TRUE]]
    BY <1>8 DEF Succeed, WorkerTo
  <2> QED
    BY <1>8, <2>2, <2>3, <2>4 DEF Succeed, TypeOK, history
<1>9. CASE Fail(w)
  <2>1. q.step \in RowSteps
    BY <1>9 DEF Fail, RowSteps
  <2>2. [q EXCEPT !.step = "error"] \in WorkerState
    BY <1>2, <2>1, WorkerGoesOn DEF RowSteps
  <2>3. q.row.remote \in Nat
    BY <1>2, <2>1 DEF TaskRow
  <2>4. failures' \in [TaskIds -> Nat] /\ submits' \in [TaskIds -> Nat]
    <3>1. /\ [failures EXCEPT ![q.task] = @ + 1] \in [TaskIds -> Nat]
          /\ [submits EXCEPT ![q.task] = @ + 1] \in [TaskIds -> Nat]
      BY <1>2, <2>1, Counting DEF TypeOK
    <3> QED
      BY <1>9, <3>1 DEF Fail, TypeOK
  <2>5. dead' \in [TaskIds -> SUBSET Nat]
    <3>1. dead[q.task] \union {q.row.remote} \in SUBSET Nat
      BY <1>2, <2>1, <2>3 DEF TypeOK
    <3>2. [dead EXCEPT ![q.task] = @ \union {q.row.remote}]
             \in [TaskIds -> SUBSET Nat]
      BY <3>1 DEF TypeOK
    <3> QED
      BY <1>9, <3>2 DEF Fail, TypeOK
  <2> QED
    BY <1>9, <2>2, <2>4, <2>5 DEF Fail, WorkerTo, TypeOK
<1>10. CASE Complete(w)
  <2>1. task' \in [TaskIds -> TaskRow \union {NoTask}]
    BY <1>2, <1>10, SavedType DEF Complete, RowSteps
  <2> QED
    BY <1>1, <1>10, <2>1 DEF Complete, WorkerTo, TypeOK, history
<1>11. CASE Requeue(w)
  <2>1. CASE q.step = "error"
    <3>1. RetriesLeft(q.row)
      BY <1>11, <2>1 DEF Requeue
    <3>2. [q.row EXCEPT !.retries = @ + 1, !.status = "pending_execution"]
             \in TaskRow
      BY <1>2, <2>1, <3>1, RowAssignments DEF RowSteps, Statuses
    <3>3. task' \in [TaskIds -> TaskRow \union {NoTask}]
      BY <1>2, <1>11, <2>1, <3>2, SavedType DEF Requeue, RowSteps
    <3>4. [step |-> "requeue", task |-> q.task] \in WorkerState
      BY <1>2, <2>1 DEF WorkerState, RowSteps
    <3> QED
      BY <1>11, <2>1, <3>3, <3>4 DEF Requeue, WorkerTo, TypeOK, history
  <2>2. CASE q.step = "requeue"
    <3>1. q.task \in TaskIds
      BY <1>1, <2>2, WorkerHoldsTask
    <3>2. Append(queue, q.task) \in Seq(TaskIds)
      BY <3>1 DEF TypeOK
    <3>3. queue' = Append(queue, q.task) \/ queue' = queue
      BY <1>11, <2>2 DEF Requeue
    <3> QED
      BY <1>1, <1>11, <2>2, <3>2, <3>3 DEF Requeue, WorkerTo, TypeOK, history
  <2> QED
    BY <1>11, <2>1, <2>2 DEF Requeue
<1>12. CASE LastFailure(w)
  <2> DEFINE s == IF q.row.cost THEN "refund" ELSE "give_up"
             row == [q.row EXCEPT !.status = "failed"]
  <2>1. q.step \in RowSteps /\ s \in RowSteps
    BY <1>12 DEF LastFailure, RowSteps
  <2>2. row \in TaskRow
    BY <1>2, <2>1, RowAssignments DEF Statuses
  <2>3. [q EXCEPT !.step = s, !.row = row] \in WorkerState
    BY <1>2, <2>1, <2>2, WorkerGoesOn
  <2>4. [q EXCEPT !.step = s, !.row.status = "failed"]
         = [q EXCEPT !.step = s, !.row = row]
    BY <1>2, <2>1
  <2>5. worker' = [worker EXCEPT ![w] =
           [q EXCEPT !.step = s, !.row.status = "failed"]]
    BY <1>12 DEF LastFailure, WorkerTo
  <2> HIDE DEF row, s
  <2> QED
    BY <1>12, <2>3, <2>4, <2>5 DEF LastFailure, TypeOK, history
<1>13. CASE Refund(w)
  <2>1. [q EXCEPT !.step = "give_up"] \in WorkerState
    BY <1>2, <1>13, WorkerGoesOn DEF Refund, RowSteps
  <2>2. refunds' \in [TaskIds -> Nat]
    BY <1>2, <1>13 DEF Refund, TypeOK, RowSteps
  <2> QED
    BY <1>13, <2>1, <2>2 DEF Refund, WorkerTo, TypeOK
<1>14. CASE GiveUp(w)
  <2>1. task' \in [TaskIds -> TaskRow \union {NoTask}]
    BY <1>2, <1>14, SavedType DEF GiveUp, RowSteps
  <2> QED
    BY <1>1, <1>14, <2>1 DEF GiveUp, WorkerTo, TypeOK, history
<1> QED
  BY <1>3, <1>4, <1>5, <1>6, <1>7, <1>8, <1>9, <1>10, <1>11, <1>12, <1>13, <1>14
  DEF ContinueWorker

\* Whatever the operations, the executions and the failures, every variable
\* stays in its set; no row is ever retried more than MaxRetries times.
THEOREM TasksTypeOK == Spec => []TypeOK
<1>1. Init => TypeOK
  BY DEF Init, TypeOK, HandlerState, WorkerState
<1>2. TypeOK /\ [Next]_vars => TypeOK'
  <2> SUFFICES ASSUME TypeOK, [Next]_vars PROVE TypeOK'
    OBVIOUS
  <2>1. CASE UNCHANGED vars
    BY <2>1 DEF vars, TypeOK
  <2>2. CASE Next
    BY <2>2, BeginHandlerType, ContinueHandlerType, WorkerType DEF Next
  <2> QED
    BY <2>1, <2>2
<1> QED
  BY <1>1, <1>2, PTL DEF Spec

-----------------------------------------------------------------------------
(* No refund before the last retry.  By itself RefundOnlyAfterRetries says  *)
(* nothing of the copies that are saved over a row, so the induction is on  *)
(* RetriesAreFailures: no copy, wherever it is, counts more retries than    *)
(* the task has had failures.                                               *)

\* RetriesAreFailures for one execution.
Counted(q, f) ==
    /\ q.step \notin {"idle", "read", "requeue"} => q.row.retries =< f[q.task]
    /\ q.step = "error" => q.row.retries < f[q.task]
    /\ q.step = "refund" => f[q.task] > MaxRetries

\* The retry count of a row is a number.
LEMMA RetriesType ==
    ASSUME NEW row \in TaskRow
    PROVE  row.retries \in Nat /\ row.retries =< MaxRetries
BY MaxRetriesAssumption DEF TaskRow

\* Another failure, of whatever task, disturbs no count.
LEMMA CountedMonotone ==
    ASSUME NEW q \in WorkerState,
           NEW f \in [TaskIds -> Nat], NEW g \in [TaskIds -> Nat],
           \A t \in TaskIds : f[t] =< g[t],
           Counted(q, f)
    PROVE  Counted(q, g)
<1>1. CASE q.step \in {"idle", "read", "requeue"}
  BY <1>1 DEF Counted
<1>2. CASE q.step \notin {"idle", "read", "requeue"}
  <2>1. q.task \in TaskIds /\ q.row.retries \in Nat
    BY <1>2, WorkerHoldsRow, RetriesType
  <2>2. f[q.task] \in Nat /\ g[q.task] \in Nat /\ f[q.task] =< g[q.task]
    BY <2>1
  <2> QED
    BY <1>2, <2>1, <2>2, MaxRetriesAssumption DEF Counted
<1> QED
  BY <1>1, <1>2

\* So the other executions stay counted when one of them moves on.
LEMMA OthersCounted ==
    ASSUME TypeOK, TypeOK', RetriesAreFailures, NEW w \in Workers,
           \A t \in TaskIds : failures[t] =< failures'[t],
           \A v \in Workers \ {w} : worker'[v] = worker[v],
           Counted(worker'[w], failures')
    PROVE  \A v \in Workers : Counted(worker'[v], failures')
<1> SUFFICES ASSUME NEW v \in Workers, v # w
             PROVE  Counted(worker'[v], failures')
  OBVIOUS
<1>1. worker[v] \in WorkerState /\ Counted(worker[v], failures)
  BY DEF TypeOK, RetriesAreFailures, Counted
<1>2. failures \in [TaskIds -> Nat] /\ failures' \in [TaskIds -> Nat]
  BY DEF TypeOK
<1>3. Counted(worker[v], failures')
  BY <1>1, <1>2, CountedMonotone
<1> QED
  BY <1>3

\* The committed rows stay counted when a counted copy is saved.
LEMMA SavedCounted ==
    ASSUME TypeOK, RetriesAreFailures, NEW t \in TaskIds, NEW row \in TaskRow,
           row.retries =< failures[t], Saved(t, row), failures' = failures
    PROVE  \A x \in TaskIds : task'[x] # NoTask => task'[x].retries =< failures'[x]
BY DEF TypeOK, RetriesAreFailures, Saved

\* A step pays back only for a task that has failed more than MaxRetries times,
\* and leaves every copy counted.
RefundStep ==
    /\ RetriesAreFailures'
    /\ \A t \in TaskIds :
          /\ failures[t] =< failures'[t]
          /\ refunds'[t] = refunds[t] \/ failures'[t] > MaxRetries

\* Requests start from committed rows, and save what they hold.
LEMMA HandlerRefunds ==
    ASSUME TypeOK, TypeOK', RetriesAreFailures, NEW h \in Handlers,
           \/ \E t \in TaskIds :
                 \/ BeginHandler(h, t)
                 \/ \E input \in Kinds, cost \in BOOLEAN : CreateTask(h, t, input, cost)
           \/ ContinueHandler(h)
           \/ HandlerFails(h)
    PROVE  RefundStep
<1>1. failures' = failures /\ refunds' = refunds /\ worker' = worker
  BY DEF BeginHandler, CreateTask, ApproveTask, UpdateTask, RetryTask, CancelTask,
         ReadForSave, ContinueHandler, HandlerSave, HandlerPush, HandlerFails, history
<1>2. ASSUME \A x \in TaskIds : task'[x] # NoTask => task'[x].retries =< failures[x],
             \A g \in Handlers \ {h} : handler'[g] = handler[g],
             handler'[h].step = "save" =>
                handler'[h].row.retries =< failures[handler'[h].task]
      PROVE  RefundStep
  <2>1. \A x \in TaskIds : failures[x] =< failures[x]
    BY DEF TypeOK
  <2> QED
    BY <1>1, <1>2, <2>1 DEF RefundStep, RetriesAreFailures
<1>3. \A x \in TaskIds : task[x] # NoTask =>
         /\ task[x] \in TaskRow
         /\ task[x].retries =< failures[x]
         /\ 0 =< failures[x]
  BY DEF TypeOK, RetriesAreFailures
<1>4. ASSUME NEW t \in TaskIds,
             \/ BeginHandler(h, t)
             \/ \E input \in Kinds, cost \in BOOLEAN : CreateTask(h, t, input, cost)
      PROVE  RefundStep
  <2>1. ASSUME NEW row, NEW push, ReadForSave(h, t, row, push),
               row.retries =< failures[t]
        PROVE  RefundStep
    BY <1>2, <1>3, <2>1 DEF ReadForSave, HandlerTo, TypeOK
  <2>2. ASSUME NEW input \in Kinds, NEW cost \in BOOLEAN,
               CreateTask(h, t, input, cost)
        PROVE  RefundStep
    <3>1. 0 =< failures[t]
      BY DEF TypeOK
    <3>2. task'[t].retries = 0
      BY <2>2 DEF CreateTask, TypeOK
    <3>3. \A x \in TaskIds \ {t} : task'[x] = task[x]
      BY <2>2 DEF CreateTask, TypeOK
    <3>4. \A x \in TaskIds : task'[x] # NoTask => task'[x].retries =< failures[x]
      BY <1>3, <3>1, <3>2, <3>3
    <3>5. \A g \in Handlers \ {h} : handler'[g] = handler[g]
      BY <2>2 DEF CreateTask, HandlerTo, TypeOK
    <3>6. handler'[h].step # "save"
      BY <2>2 DEF CreateTask, HandlerTo, TypeOK, Idle
    <3> QED
      BY <1>2, <3>4, <3>5, <3>6
  <2>3. CASE ApproveTask(h, t)
    <3>1. [task[t] EXCEPT !.status = "pending_execution"].retries =< failures[t]
      BY <1>3, <2>3 DEF ApproveTask, TaskRow
    <3> QED
      BY <2>1, <2>3, <3>1 DEF ApproveTask
  <2>4. ASSUME NEW input \in Kinds, UpdateTask(h, t, input)
        PROVE  RefundStep
    <3>1. [task[t] EXCEPT !.input = input].retries =< failures[t]
      BY <1>3, <2>4 DEF UpdateTask, TaskRow
    <3> QED
      BY <2>1, <2>4, <3>1 DEF UpdateTask
  <2>5. CASE RetryTask(h, t)
    <3>1. [task[t] EXCEPT !.status = "pending_execution", !.retries = 0,
                          !.result = FALSE].retries =< failures[t]
      BY <1>3, <2>5 DEF RetryTask, TaskRow
    <3> QED
      BY <2>1, <2>5, <3>1 DEF RetryTask
  <2>6. CASE CancelTask(h, t)
    <3>1. [task[t] EXCEPT !.status = "cancelled"].retries =< failures[t]
      BY <1>3, <2>6 DEF CancelTask, TaskRow
    <3> QED
      BY <2>1, <2>6, <3>1 DEF CancelTask
  <2> QED
    BY <1>4, <2>2, <2>3, <2>4, <2>5, <2>6 DEF BeginHandler
<1>5. CASE HandlerSave(h)
  <2>1. /\ handler[h].task \in TaskIds
        /\ handler[h].row.retries =< failures[handler[h].task]
    BY <1>5, HandlerHoldsRow DEF HandlerSave, TypeOK, RetriesAreFailures
  <2>2. \A x \in TaskIds : task'[x] # NoTask => task'[x].retries =< failures[x]
    BY <1>3, <1>5, <2>1 DEF HandlerSave, TypeOK
  <2>3. /\ \A g \in Handlers \ {h} : handler'[g] = handler[g]
        /\ handler'[h].step # "save"
    BY <1>5 DEF HandlerSave, HandlerTo, TypeOK, Idle
  <2> QED
    BY <1>2, <2>2, <2>3
<1>6. CASE HandlerPush(h) \/ HandlerFails(h)
  <2>1. /\ \A g \in Handlers \ {h} : handler'[g] = handler[g]
        /\ handler'[h].step # "save"
        /\ task' = task
    BY <1>6 DEF HandlerPush, HandlerFails, HandlerTo, TypeOK, Idle
  <2> QED
    BY <1>2, <1>3, <2>1
<1> QED
  BY <1>4, <1>5, <1>6 DEF ContinueHandler

\* Executions add a failure before they add a retry.
LEMMA WorkerRefunds ==
    ASSUME TypeOK, TypeOK', RetriesAreFailures, NEW w \in Workers, Pop(w) \/ ContinueWorker(w)
    PROVE  RefundStep
<1> DEFINE q == worker[w]
<1>1. q \in WorkerState /\ Counted(q, failures)
  BY DEF TypeOK, RetriesAreFailures, Counted
<1>2. q.step \in RowSteps =>
         /\ q \in [step : RowSteps, task : TaskIds, row : TaskRow]
         /\ q.task \in TaskIds /\ q.row \in TaskRow
         /\ q.row.retries \in Nat /\ failures[q.task] \in Nat
         /\ q.row.retries =< failures[q.task]
  BY <1>1, WorkerHoldsRow, RetriesType DEF RowSteps, TypeOK, Counted
<1>3. \A v \in Workers \ {w} : worker'[v] = worker[v]
  BY DEF Pop, ContinueWorker, ReadTask, StartTask, Submit, SaveRemote, Succeed,
         Fail, Complete, Requeue, LastFailure, Refund, GiveUp, WorkerTo, TypeOK
<1>4. handler' = handler
  BY DEF Pop, ContinueWorker, ReadTask, StartTask, Submit, SaveRemote, Succeed,
         Fail, Complete, Requeue, LastFailure, Refund, GiveUp, history
<1>5. \A t \in TaskIds :
         failures[t] \in Nat /\ failures'[t] \in Nat /\ failures[t] =< failures[t]
  BY DEF TypeOK
\* The steps that count no failure and refund nothing.
<1>6. ASSUME failures' = failures, refunds' = refunds, Counted(worker'[w], failures),
             \/ task' = task
             \/ \E t \in TaskIds, row \in TaskRow :
                   Saved(t, row) /\ row.retries =< failures[t]
      PROVE  RefundStep
  <2>1. \A v \in Workers : Counted(worker'[v], failures')
    BY <1>3, <1>5, <1>6, OthersCounted
  <2>2. \A x \in TaskIds : task'[x] # NoTask => task'[x].retries =< failures'[x]
    <3>1. CASE task' = task
      BY <1>6, <3>1 DEF RetriesAreFailures
    <3> QED
      BY <1>6, <3>1, SavedCounted
  <2> QED
    BY <1>4, <1>5, <1>6, <2>1, <2>2
    DEF RefundStep, RetriesAreFailures, Counted
<1>7. Counted(Idle, failures)
  BY DEF Counted, Idle
<1>8. CASE Pop(w)
  <2>1. worker'[w] = [step |-> "read", task |-> Head(queue)]
    BY <1>8 DEF Pop, WorkerTo, TypeOK
  <2>2. Counted(worker'[w], failures)
    BY <2>1 DEF Counted
  <2> QED
    BY <1>6, <1>8, <2>2 DEF Pop, history
<1>9. CASE ReadTask(w)
  <2>1. q.task \in TaskIds
    BY <1>1, <1>9, WorkerHoldsTask DEF ReadTask
  <2>2. task[q.task] # NoTask =>
           /\ task[q.task] \in TaskRow
           /\ task[q.task].retries =< failures[q.task]
    BY <2>1 DEF TypeOK, RetriesAreFailures
  <2>3. task[q.task] # NoTask =>
           [task[q.task] EXCEPT !.status = "processing"].retries
              =< failures[q.task]
    BY <2>2 DEF TaskRow
  <2>4. \/ worker'[w] = Idle
        \/ /\ task[q.task] # NoTask
           /\ worker'[w] = [step |-> "start", task |-> q.task,
                            row |-> [task[q.task] EXCEPT !.status = "processing"]]
    BY <1>9 DEF ReadTask, WorkerTo, TypeOK
  <2>5. CASE worker'[w] = Idle
    BY <1>6, <1>7, <1>9, <2>5 DEF ReadTask, history
  <2>6. CASE /\ task[q.task] # NoTask
             /\ worker'[w] = [step |-> "start", task |-> q.task,
                              row |-> [task[q.task] EXCEPT !.status = "processing"]]
    <3>1. /\ worker'[w].step = "start" /\ worker'[w].task = q.task
          /\ worker'[w].row = [task[q.task] EXCEPT !.status = "processing"]
      BY <2>6
    <3>2. worker'[w].row.retries =< failures[q.task]
      BY <2>3, <2>6, <3>1
    <3>3. Counted(worker'[w], failures)
      BY <3>1, <3>2 DEF Counted
    <3> QED
      BY <1>6, <1>9, <3>3 DEF ReadTask, history
  <2> QED
    BY <2>4, <2>5, <2>6
<1>10. CASE StartTask(w) \/ SaveRemote(w) \/ Complete(w) \/ GiveUp(w)
  <2>1. q.step \in RowSteps /\ Saved(q.task, q.row)
    BY <1>10 DEF StartTask, SaveRemote, Complete, GiveUp, RowSteps
  <2>2. \E s \in {"execute", "poll"} :
           worker'[w] = Idle \/ worker'[w] = [q EXCEPT !.step = s]
    BY <1>10 DEF StartTask, SaveRemote, Complete, GiveUp, WorkerTo, TypeOK
  <2>3. Counted(worker'[w], failures)
    BY <1>2, <1>7, <2>1, <2>2 DEF Counted
  <2>4. failures' = failures /\ refunds' = refunds
    BY <1>10 DEF StartTask, SaveRemote, Complete, GiveUp, history
  <2> QED
    BY <1>2, <1>6, <2>1, <2>3, <2>4
<1>11. CASE Submit(w)
  <2>1. q.step \in RowSteps
    BY <1>11 DEF Submit, RowSteps
  <2>2. \/ worker'[w] = [q EXCEPT !.step = "poll"]
        \/ worker'[w] = [q EXCEPT !.step = "save_remote",
                                  !.row.remote = submits[q.task] + 1]
    BY <1>11 DEF Submit, WorkerTo, TypeOK
  <2>3. /\ [q EXCEPT !.step = "poll"].step = "poll"
        /\ [q EXCEPT !.step = "poll"].task = q.task
        /\ [q EXCEPT !.step = "poll"].row = q.row
    BY <1>2, <2>1
  <2>4. [q.row EXCEPT !.remote = submits[q.task] + 1].retries = q.row.retries
    BY <1>2, <2>1 DEF TaskRow
  <2>5. /\ [q EXCEPT !.step = "save_remote",
                     !.row.remote = submits[q.task] + 1].step = "save_remote"
        /\ [q EXCEPT !.step = "save_remote",
                     !.row.remote = submits[q.task] + 1].task = q.task
        /\ [q EXCEPT !.step = "save_remote",
                     !.row.remote = submits[q.task] + 1].row
           = [q.row EXCEPT !.remote = submits[q.task] + 1]
    BY <1>2, <2>1
  <2>6. Counted(worker'[w], failures)
    BY <1>2, <2>1, <2>2, <2>3, <2>4, <2>5 DEF Counted
  <2> QED
    BY <1>6, <1>11, <2>6 DEF Submit
<1>12. CASE Succeed(w)
  <2>1. q.step \in RowSteps
    BY <1>12 DEF Succeed, RowSteps
  <2>2. worker'[w] = [q EXCEPT !.step = "done", !.row.status = "completed",
                               !.row.result = TRUE]
    BY <1>12 DEF Succeed, WorkerTo, TypeOK
  <2>3. /\ worker'[w].step = "done" /\ worker'[w].task = q.task
        /\ worker'[w].row = [q.row EXCEPT !.status = "completed", !.result = TRUE]
    BY <1>2, <2>1, <2>2
  <2>4. [q.row EXCEPT !.status = "completed", !.result = TRUE].retries
        = q.row.retries
    BY <1>2, <2>1 DEF TaskRow
  <2>5. Counted(worker'[w], failures)
    BY <1>2, <2>1, <2>3, <2>4 DEF Counted
  <2> QED
    BY <1>6, <1>12, <2>5 DEF Succeed, history
\* The failure is counted here.
<1>13. CASE Fail(w)
  <2>1. q.step \in RowSteps
    BY <1>13 DEF Fail, RowSteps
  <2>2. failures' = [failures EXCEPT ![q.task] = @ + 1]
    BY <1>13 DEF Fail
  <2>3. \A t \in TaskIds : failures[t] =< failures'[t]
    BY <1>2, <1>5, <2>1, <2>2 DEF TypeOK
  <2>4. failures'[q.task] = failures[q.task] + 1
    BY <1>2, <2>1, <2>2 DEF TypeOK
  <2>5. worker'[w] = [q EXCEPT !.step = "error"]
    BY <1>13 DEF Fail, WorkerTo, TypeOK
  <2>6. /\ worker'[w].step = "error" /\ worker'[w].task = q.task
        /\ worker'[w].row = q.row
    BY <1>2, <2>1, <2>5
  <2>7. q.row.retries < failures'[q.task]
    BY <1>2, <2>1, <2>4
  <2>8. Counted(worker'[w], failures')
    BY <1>2, <2>1, <2>6, <2>7, <2>4 DEF Counted
  <2>9. \A v \in Workers : Counted(worker'[v], failures')
    BY <1>3, <2>3, <2>8, OthersCounted
  <2>10. \A t \in TaskIds : task[t] # NoTask => task[t].retries \in Nat
    BY RetriesType DEF TypeOK
  <2>11. \A x \in TaskIds : task'[x] # NoTask => task'[x].retries =< failures'[x]
    BY <1>5, <1>13, <2>3, <2>10 DEF Fail, RetriesAreFailures
  <2>12. ASSUME NEW h \in Handlers, handler'[h].step = "save"
         PROVE  handler'[h].row.retries =< failures'[handler'[h].task]
    <3>1. handler[h] \in HandlerState /\ handler[h].step = "save"
      BY <1>4, <2>12 DEF TypeOK
    <3>2. handler[h].task \in TaskIds /\ handler[h].row.retries \in Nat
      BY <3>1, HandlerHoldsRow, RetriesType
    <3>3. handler[h].row.retries =< failures[handler[h].task]
      BY <3>1 DEF RetriesAreFailures
    <3> QED
      BY <1>4, <1>5, <2>3, <3>2, <3>3
  <2>13. \A t \in TaskIds : refunds'[t] = refunds[t] \/ failures'[t] > MaxRetries
    BY <1>13 DEF Fail
  <2> QED
    BY <2>3, <2>9, <2>11, <2>12, <2>13 DEF RefundStep, RetriesAreFailures, Counted
\* A retry is counted only by an execution that has just failed.
<1>14. CASE Requeue(w)
  <2>1. CASE q.step = "error"
    <3>1. q.row.retries < failures[q.task] /\ q.step \in RowSteps
      BY <1>1, <2>1 DEF Counted, RowSteps
    <3>2. RetriesLeft(q.row)
      BY <1>14, <2>1 DEF Requeue
    <3> DEFINE row == [q.row EXCEPT !.retries = @ + 1,
                                    !.status = "pending_execution"]
    <3>3. row \in TaskRow
      BY <1>2, <3>1, <3>2, RowAssignments DEF Statuses
    <3>4. row.retries = q.row.retries + 1
      BY <1>2, <3>1 DEF TaskRow
    <3>5. row.retries =< failures[q.task]
      BY <1>2, <3>1, <3>4
    <3>6. Saved(q.task, row) /\ worker'[w] = [step |-> "requeue", task |-> q.task]
      BY <1>14, <2>1 DEF Requeue, WorkerTo, TypeOK
    <3>7. Counted(worker'[w], failures)
      BY <3>6 DEF Counted
    <3>8. failures' = failures /\ refunds' = refunds
      BY <1>14 DEF Requeue, history
    <3> HIDE DEF row
    <3> QED
      BY <1>2, <1>6, <3>1, <3>3, <3>5, <3>6, <3>7, <3>8
  <2>2. CASE q.step = "requeue"
    <3>1. /\ failures' = failures /\ refunds' = refunds /\ task' = task
          /\ worker'[w] = Idle
      BY <1>14, <2>2 DEF Requeue, WorkerTo, TypeOK, history
    <3> QED
      BY <1>6, <1>7, <3>1
  <2> QED
    BY <1>14, <2>1, <2>2 DEF Requeue
\* No retry left: one failure more than MaxRetries.
<1>15. CASE LastFailure(w)
  <2>1. /\ q.row.retries < failures[q.task] /\ q.step \in RowSteps
        /\ ~ (q.row.retries < MaxRetries)
    BY <1>1, <1>15 DEF LastFailure, Counted, RowSteps, RetriesLeft
  <2>2. failures[q.task] > MaxRetries
    BY <1>2, <2>1, MaxRetriesAssumption
  <2> DEFINE s == IF q.row.cost THEN "refund" ELSE "give_up"
  <2>3. worker'[w] = [q EXCEPT !.step = s, !.row.status = "failed"]
    BY <1>15 DEF LastFailure, WorkerTo, TypeOK
  <2>4. s \in {"refund", "give_up"}
    OBVIOUS
  <2> HIDE DEF s
  <2>5. /\ worker'[w].step = s /\ worker'[w].task = q.task
        /\ worker'[w].row = [q.row EXCEPT !.status = "failed"]
    BY <1>2, <2>1, <2>3
  <2>6. [q.row EXCEPT !.status = "failed"].retries = q.row.retries
    BY <1>2, <2>1 DEF TaskRow
  <2>7. Counted(worker'[w], failures)
    BY <1>2, <2>1, <2>2, <2>4, <2>5, <2>6 DEF Counted
  <2> QED
    BY <1>6, <1>15, <2>7 DEF LastFailure, history
<1>16. CASE Refund(w)
  <2>1. /\ failures[q.task] > MaxRetries /\ q.step \in RowSteps
    BY <1>1, <1>16 DEF Refund, Counted, RowSteps
  <2>2. /\ failures' = failures /\ task' = task
        /\ worker'[w] = [q EXCEPT !.step = "give_up"]
    BY <1>16 DEF Refund, WorkerTo, TypeOK
  <2>3. /\ worker'[w].step = "give_up" /\ worker'[w].task = q.task
        /\ worker'[w].row = q.row
    BY <1>2, <2>1, <2>2
  <2>4. Counted(worker'[w], failures')
    BY <1>2, <2>1, <2>2, <2>3 DEF Counted
  <2>5. \A v \in Workers : Counted(worker'[v], failures')
    BY <1>3, <1>5, <2>2, <2>4, OthersCounted
  <2>6. \A t \in TaskIds \ {q.task} : refunds'[t] = refunds[t]
    BY <1>16 DEF Refund, TypeOK
  <2>7. \A t \in TaskIds : refunds'[t] = refunds[t] \/ failures'[t] > MaxRetries
    BY <2>1, <2>2, <2>6
  <2> QED
    BY <1>4, <1>5, <2>2, <2>5, <2>7 DEF RefundStep, RetriesAreFailures, Counted
<1> QED
  BY <1>8, <1>9, <1>10, <1>11, <1>12, <1>13, <1>14, <1>15, <1>16 DEF ContinueWorker

\* So every step does.
LEMMA RefundsOfStep ==
    ASSUME TypeOK, TypeOK', RetriesAreFailures, [Next]_vars
    PROVE  RefundStep
<1>1. CASE UNCHANGED vars
  BY <1>1 DEF vars, RefundStep, RetriesAreFailures, TypeOK
<1>2. CASE Next
  BY <1>2, HandlerRefunds, WorkerRefunds DEF Next
<1> QED
  BY <1>1, <1>2

\* A refund stays after the last retry, because failures only grow.
LEMMA RefundsStayLate ==
    ASSUME TypeOK, TypeOK', RefundOnlyAfterRetries, RefundStep
    PROVE  RefundOnlyAfterRetries'
<1> SUFFICES ASSUME NEW t \in TaskIds, refunds'[t] > 0
             PROVE  failures'[t] > MaxRetries
  BY DEF RefundOnlyAfterRetries
<1>1. CASE refunds'[t] = refunds[t]
  <2>1. failures[t] > MaxRetries /\ failures[t] =< failures'[t]
    BY <1>1 DEF RefundOnlyAfterRetries, RefundStep
  <2>2. failures[t] \in Nat /\ failures'[t] \in Nat
    BY DEF TypeOK
  <2> QED
    BY <2>1, <2>2, MaxRetriesAssumption
<1> QED
  BY <1>1 DEF RefundStep

\* Whatever copies are saved over each other and whatever fails, no row and
\* no copy counts more retries than the task has failed
\* (task_service.go:441-451).
THEOREM TasksRetries == Spec => []RetriesAreFailures
<1>1. Init => RetriesAreFailures
  BY DEF Init, RetriesAreFailures, Idle
<1>2. TypeOK /\ RetriesAreFailures /\ TypeOK' /\ [Next]_vars => RetriesAreFailures'
  BY RefundsOfStep DEF RefundStep
<1> QED
  BY <1>1, <1>2, TasksTypeOK, PTL DEF Spec

\* And money goes back only to a task that has used up its retries
\* (task_service.go:453-467).
THEOREM TasksRefunds == Spec => []RefundOnlyAfterRetries
<1>1. Init => RefundOnlyAfterRetries
  BY DEF Init, RefundOnlyAfterRetries
<1>2. TypeOK /\ TypeOK' /\ RetriesAreFailures /\ RefundOnlyAfterRetries /\ [Next]_vars
         => RefundOnlyAfterRetries'
  BY RefundsOfStep, RefundsStayLate
<1> QED
  BY <1>1, <1>2, TasksTypeOK, TasksRetries, PTL DEF Spec

-----------------------------------------------------------------------------
(* Runs.  A request that is let through and will queue the task is the     *)
(* first place of a run; the run goes on to the queue, to a goroutine and, *)
(* by way of retries, back.  The three sets are counted together, because  *)
(* none of them is bounded by itself while a run moves on.                 *)

Positions(ids, t) == {i \in DOMAIN ids : ids[i] = t}

\* The requests that will queue the task.
Pushing(t) ==
    {h \in Handlers :
       /\ handler[h].step = "push" \/ (handler[h].step = "save" /\ handler[h].push)
       /\ handler[h].task = t}

\* The goroutines of the task that may still pay it back.
Unpaid(t) == {w \in Running(t) : worker[w].step # "give_up"}

Places(t) == Cardinality(Waiting(t)) + Cardinality(Pushing(t))

RunsCounted(t) ==
    /\ IsFiniteSet(Pushing(t))
    /\ IsFiniteSet(Running(t))
    /\ Places(t) + Cardinality(Running(t)) =< runs[t]
    /\ refunds[t] + Places(t) + Cardinality(Unpaid(t)) =< runs[t]

\* The places of an id in the list can be counted.
LEMMA PositionsFinite ==
    ASSUME NEW ids \in Seq(TaskIds), NEW t
    PROVE  IsFiniteSet(Positions(ids, t)) /\ Cardinality(Positions(ids, t)) \in Nat
<1>1. IsFiniteSet(1..Len(ids)) /\ Positions(ids, t) \in SUBSET (1..Len(ids))
  BY FS_Interval DEF Positions
<1>2. IsFiniteSet(Positions(ids, t))
  BY <1>1, FS_Subset
<1> QED BY <1>2, FS_CardinalityType

\* A push adds one for its task.
LEMMA PositionsAppend ==
    ASSUME NEW ids \in Seq(TaskIds), NEW id \in TaskIds, NEW t
    PROVE  Cardinality(Positions(Append(ids, id), t)) =
              Cardinality(Positions(ids, t)) + (IF id = t THEN 1 ELSE 0)
<1>1. /\ DOMAIN ids = 1..Len(ids) /\ Len(ids) \in Nat
      /\ DOMAIN Append(ids, id) = 1..(Len(ids) + 1)
      /\ Append(ids, id)[Len(ids) + 1] = id
      /\ \A i \in 1..Len(ids) : Append(ids, id)[i] = ids[i]
  OBVIOUS
<1>2. CASE id = t
  <2>1. Positions(Append(ids, id), t) = Positions(ids, t) \union {Len(ids) + 1}
    BY <1>1, <1>2 DEF Positions
  <2>2. Len(ids) + 1 \notin Positions(ids, t)
    BY <1>1 DEF Positions
  <2> QED BY <1>2, <2>1, <2>2, PositionsFinite, FS_AddElement
<1>3. CASE id # t
  <2>1. Positions(Append(ids, id), t) = Positions(ids, t)
    BY <1>1, <1>3 DEF Positions
  <2> QED BY <1>3, <2>1, PositionsFinite
<1> QED BY <1>2, <1>3

\* A pop takes one from its task.
LEMMA PositionsTail ==
    ASSUME NEW ids \in Seq(TaskIds), ids # <<>>, NEW t
    PROVE  Cardinality(Positions(ids, t)) =
              Cardinality(Positions(Tail(ids), t)) + (IF Head(ids) = t THEN 1 ELSE 0)
<1> DEFINE later == {i \in Positions(ids, t) : i # 1}
           back == [i \in later |-> i - 1]
<1>1. /\ DOMAIN ids = 1..Len(ids) /\ Len(ids) \in Nat \ {0} /\ Head(ids) = ids[1]
      /\ DOMAIN Tail(ids) = 1..(Len(ids) - 1)
      /\ \A i \in 1..(Len(ids) - 1) : Tail(ids)[i] = ids[i + 1]
  OBVIOUS
<1>2. IsFiniteSet(Positions(ids, t)) /\ Cardinality(Positions(ids, t)) \in Nat
  BY PositionsFinite
<1>3. later = Positions(ids, t) \ {1}
  OBVIOUS
<1>4. IsFiniteSet(later)
  BY <1>2, <1>3, FS_RemoveElement
<1>5. back \in [later -> Positions(Tail(ids), t)]
  <2>1. ASSUME NEW i \in later PROVE i - 1 \in Positions(Tail(ids), t)
    <3>1. i \in 1..Len(ids) /\ i # 1 /\ ids[i] = t
      BY <1>1 DEF Positions
    <3>2. i - 1 \in 1..(Len(ids) - 1) /\ (i - 1) + 1 = i
      BY <1>1, <3>1
    <3> QED BY <1>1, <3>1, <3>2 DEF Positions
  <2> QED BY <2>1
<1>6. \A i, k \in later : back[i] = back[k] => i = k
  <2>1. \A i \in later : i \in Int
    BY <1>1 DEF Positions
  <2> QED BY <2>1
<1>7. \A k \in Positions(Tail(ids), t) : \E i \in later : back[i] = k
  <2> SUFFICES ASSUME NEW k \in Positions(Tail(ids), t) PROVE k + 1 \in later /\ (k + 1) - 1 = k
    OBVIOUS
  <2>1. k \in 1..(Len(ids) - 1) /\ Tail(ids)[k] = t
    BY <1>1 DEF Positions
  <2> QED BY <1>1, <2>1 DEF Positions
<1>8. ExistsBijection(later, Positions(Tail(ids), t))
  <2>1. back \in Bijection(later, Positions(Tail(ids), t))
    BY <1>5, <1>6, <1>7 DEF Bijection, Injection, Surjection, IsInjective
  <2> QED BY <2>1 DEF ExistsBijection
<1>9. Cardinality(Positions(Tail(ids), t)) = Cardinality(later)
  BY <1>4, <1>8, FS_Bijection
<1>10. 1 \in Positions(ids, t) <=> Head(ids) = t
  BY <1>1 DEF Positions
<1> HIDE DEF later
<1>11. Cardinality(later) = IF 1 \in Positions(ids, t) THEN Cardinality(Positions(ids, t)) - 1
                                                     ELSE Cardinality(Positions(ids, t))
  BY <1>2, <1>3, FS_RemoveElement
<1> QED BY <1>2, <1>9, <1>10, <1>11

\* What is counted is a number.
LEMMA PlacesAreNumbers ==
    ASSUME TypeOK, NEW t \in TaskIds, RunsCounted(t)
    PROVE  /\ Cardinality(Waiting(t)) \in Nat /\ Cardinality(Pushing(t)) \in Nat
           /\ Cardinality(Running(t)) \in Nat /\ Cardinality(Unpaid(t)) \in Nat
           /\ IsFiniteSet(Unpaid(t)) /\ runs[t] \in Nat /\ refunds[t] \in Nat
<1>1. Waiting(t) = Positions(queue, t)
  BY DEF Waiting, Positions
<1>2. Unpaid(t) \in SUBSET Running(t)
  BY DEF Unpaid
<1>3. IsFiniteSet(Unpaid(t))
  BY <1>2, FS_Subset DEF RunsCounted
<1> QED BY <1>1, <1>3, PositionsFinite, FS_CardinalityType DEF RunsCounted, TypeOK

\* Fewer goroutines and requests with a task use up nothing.
LEMMA FewerPlaces ==
    ASSUME TypeOK, NEW t \in TaskIds, RunsCounted(t), queue' = queue,
           refunds'[t] = refunds[t], runs'[t] = runs[t],
           Pushing(t)' \subseteq Pushing(t), Running(t)' \subseteq Running(t),
           Unpaid(t)' \subseteq Unpaid(t)
    PROVE  RunsCounted(t)'
<1>1. PICK p, r, u : p = Pushing(t)' /\ r = Running(t)' /\ u = Unpaid(t)'
  OBVIOUS
<1>2. /\ IsFiniteSet(p) /\ Cardinality(p) =< Cardinality(Pushing(t))
      /\ IsFiniteSet(r) /\ Cardinality(r) =< Cardinality(Running(t))
      /\ IsFiniteSet(u) /\ Cardinality(u) =< Cardinality(Unpaid(t))
  BY <1>1, PlacesAreNumbers, FS_Subset DEF RunsCounted
<1>3. Cardinality(p) \in Nat /\ Cardinality(r) \in Nat /\ Cardinality(u) \in Nat
  BY <1>2, FS_CardinalityType
<1>4. Waiting(t)' = Waiting(t)
  BY DEF Waiting
<1>5. /\ Cardinality(Waiting(t)) + Cardinality(p) + Cardinality(r) =< runs[t]
      /\ refunds[t] + (Cardinality(Waiting(t)) + Cardinality(p)) + Cardinality(u) =< runs[t]
  BY <1>2, <1>3, PlacesAreNumbers DEF RunsCounted, Places
<1> QED BY <1>1, <1>2, <1>4, <1>5 DEF RunsCounted, Places

\* An id that is queued was at a request or a goroutine before.
LEMMA PushedPlaces ==
    ASSUME TypeOK, NEW id \in TaskIds, queue' = Append(queue, id), UNCHANGED <<refunds, runs>>,
           NEW t \in TaskIds, RunsCounted(t),
           Pushing(t)' \subseteq Pushing(t), Running(t)' \subseteq Running(t),
           Unpaid(t)' \subseteq Unpaid(t),
           id = t => \/ \E h \in Pushing(t) : Pushing(t)' = Pushing(t) \ {h}
                     \/ \E w \in Unpaid(t) : /\ Running(t)' = Running(t) \ {w}
                                             /\ Unpaid(t)' = Unpaid(t) \ {w}
    PROVE  RunsCounted(t)'
<1>1. PICK p, r, u : p = Pushing(t)' /\ r = Running(t)' /\ u = Unpaid(t)'
  OBVIOUS
<1>2. /\ IsFiniteSet(p) /\ Cardinality(p) =< Cardinality(Pushing(t))
      /\ IsFiniteSet(r) /\ Cardinality(r) =< Cardinality(Running(t))
      /\ IsFiniteSet(u) /\ Cardinality(u) =< Cardinality(Unpaid(t))
  BY <1>1, PlacesAreNumbers, FS_Subset DEF RunsCounted
<1>3. Cardinality(p) \in Nat /\ Cardinality(r) \in Nat /\ Cardinality(u) \in Nat
  BY <1>2, FS_CardinalityType
<1>4. Cardinality(Waiting(t)') = Cardinality(Waiting(t)) + (IF id = t THEN 1 ELSE 0)
  <2>1. queue \in Seq(TaskIds) /\ queue' = Append(queue, id)
    BY DEF TypeOK
  <2>2. Waiting(t)' = Positions(Append(queue, id), t) /\ Waiting(t) = Positions(queue, t)
    BY <2>1 DEF Waiting, Positions
  <2> QED BY <2>1, <2>2, PositionsAppend
<1>5. id = t => \/ Cardinality(p) = Cardinality(Pushing(t)) - 1
                \/ /\ Cardinality(r) = Cardinality(Running(t)) - 1
                   /\ Cardinality(u) = Cardinality(Unpaid(t)) - 1
  <2>1. ASSUME NEW h \in Pushing(t), Pushing(t)' = Pushing(t) \ {h}
        PROVE  Cardinality(p) = Cardinality(Pushing(t)) - 1
    BY <1>1, <2>1, FS_RemoveElement DEF RunsCounted
  <2>2. ASSUME NEW w \in Unpaid(t), Running(t)' = Running(t) \ {w},
               Unpaid(t)' = Unpaid(t) \ {w}
        PROVE  /\ Cardinality(r) = Cardinality(Running(t)) - 1
               /\ Cardinality(u) = Cardinality(Unpaid(t)) - 1
    <3>1. w \in Running(t) /\ IsFiniteSet(Running(t)) /\ IsFiniteSet(Unpaid(t))
      BY PlacesAreNumbers DEF RunsCounted, Unpaid
    <3> QED BY <1>1, <2>2, <3>1, FS_RemoveElement
  <2> QED BY <2>1, <2>2
<1>6. PICK n : n = Cardinality(Waiting(t)')
  OBVIOUS
<1>7. /\ n + Cardinality(p) + Cardinality(r) =< runs[t]
      /\ refunds[t] + (n + Cardinality(p)) + Cardinality(u) =< runs[t]
  <2>1. PICK w0 \in Nat, p0 \in Nat, r0 \in Nat, u0 \in Nat, f \in Nat, k \in Nat :
           /\ w0 = Cardinality(Waiting(t)) /\ p0 = Cardinality(Pushing(t))
           /\ r0 = Cardinality(Running(t)) /\ u0 = Cardinality(Unpaid(t))
           /\ f = refunds[t] /\ k = runs[t]
    BY PlacesAreNumbers
  <2>2. /\ w0 + p0 + r0 =< k
        /\ f + (w0 + p0) + u0 =< k
    BY <2>1 DEF RunsCounted, Places
  <2>3. PICK p2 \in Nat, r2 \in Nat, u2 \in Nat :
           p2 = Cardinality(p) /\ r2 = Cardinality(r) /\ u2 = Cardinality(u)
    BY <1>3
  <2>4. p2 =< p0 /\ r2 =< r0 /\ u2 =< u0
    BY <1>2, <2>1, <2>3
  <2>5. \/ id # t /\ n = w0
        \/ n = w0 + 1 /\ p2 = p0 - 1
        \/ n = w0 + 1 /\ r2 = r0 - 1 /\ u2 = u0 - 1
    BY <1>4, <1>5, <1>6, <2>1, <2>3
  <2>6. n + p2 + r2 =< k /\ f + (n + p2) + u2 =< k
    BY <2>2, <2>4, <2>5
  <2> QED BY <2>1, <2>3, <2>6
<1>8. Cardinality(Waiting(t))' = n
  BY <1>6
<1> QED BY <1>1, <1>2, <1>7, <1>8 DEF RunsCounted, Places

\* Where a goroutine goes on with its task, or lets go of it, no other task
\* gets a place, and who is giving up does not pay again.
LEMMA ExecutionStays ==
    ASSUME TypeOK, NEW w \in Workers, NEW state, worker' = [worker EXCEPT ![w] = state],
           \/ state = Idle
           \/ /\ worker[w] # Idle /\ state.task = worker[w].task
              /\ worker[w].step = "give_up" => state.step = "give_up",
           NEW t \in TaskIds
    PROVE  Running(t)' \subseteq Running(t) /\ Unpaid(t)' \subseteq Unpaid(t)
<1>1. worker'[w] = state /\ \A v \in Workers : v # w => worker'[v] = worker[v]
  BY DEF TypeOK
<1>2. Running(t)' \subseteq Running(t)
  BY <1>1 DEF Running
<1> QED BY <1>1, <1>2 DEF Unpaid, Running

\* A request of its own kind: the same for who saves and pushes.
LEMMA RequestStays ==
    ASSUME TypeOK, NEW h \in Handlers, NEW state, handler' = [handler EXCEPT ![h] = state],
           \/ state = Idle
           \/ state.step = "save" /\ ~ state.push
           \/ /\ handler[h].step = "save" /\ handler[h].push
              /\ state.task = handler[h].task,
           NEW t \in TaskIds
    PROVE  Pushing(t)' \subseteq Pushing(t)
<1>1. handler'[h] = state /\ \A g \in Handlers : g # h => handler'[g] = handler[g]
  BY DEF TypeOK
<1> QED BY <1>1 DEF Pushing, Idle

\* Who is let through makes room for one run, and takes it.
LEMMA LetThroughCounts ==
    ASSUME TypeOK, NEW h \in Handlers, handler[h] = Idle, NEW id \in TaskIds, NEW state,
           handler' = [handler EXCEPT ![h] = state], state.task = id,
           state.step = "push" \/ (state.step = "save" /\ state.push),
           runs' = [runs EXCEPT ![id] = @ + 1], UNCHANGED <<queue, worker, refunds>>,
           NEW t \in TaskIds, RunsCounted(t)
    PROVE  RunsCounted(t)'
<1>1. handler'[h] = state /\ \A g \in Handlers : g # h => handler'[g] = handler[g]
  BY DEF TypeOK
<1>2. h \notin Pushing(t)
  BY DEF Pushing, Idle
<1>3. Waiting(t)' = Waiting(t) /\ Running(t)' = Running(t) /\ Unpaid(t)' = Unpaid(t)
  BY DEF Waiting, Running, Unpaid
<1>4. CASE id # t
  <2>1. Pushing(t)' \subseteq Pushing(t)
    BY <1>1, <1>4 DEF Pushing
  <2>2. runs'[t] = runs[t]
    BY <1>4 DEF TypeOK
  <2> QED BY <1>3, <2>1, <2>2, FewerPlaces
<1>5. CASE id = t
  <2>1. Pushing(t)' = Pushing(t) \union {h}
    BY <1>1, <1>5 DEF Pushing
  <2>2. PICK p : p = Pushing(t)'
    OBVIOUS
  <2>3. IsFiniteSet(p) /\ Cardinality(p) = Cardinality(Pushing(t)) + 1
    BY <1>2, <2>1, <2>2, FS_AddElement DEF RunsCounted
  <2>4. runs'[t] = runs[t] + 1
    BY <1>5 DEF TypeOK
  <2>5. PICK w0 \in Nat, p0 \in Nat, r0 \in Nat, u0 \in Nat, f \in Nat, k \in Nat :
           /\ w0 = Cardinality(Waiting(t)) /\ p0 = Cardinality(Pushing(t))
           /\ r0 = Cardinality(Running(t)) /\ u0 = Cardinality(Unpaid(t))
           /\ f = refunds[t] /\ k = runs[t]
    BY PlacesAreNumbers
  <2>6. w0 + p0 + r0 =< k /\ f + (w0 + p0) + u0 =< k
    BY <2>5 DEF RunsCounted, Places
  <2>7. w0 + (p0 + 1) + r0 =< k + 1 /\ f + (w0 + (p0 + 1)) + u0 =< k + 1
    BY <2>6
  <2>8. /\ Cardinality(Waiting(t)) + Cardinality(p) + Cardinality(Running(t)) =< runs'[t]
        /\ refunds[t] + (Cardinality(Waiting(t)) + Cardinality(p)) + Cardinality(Unpaid(t))
              =< runs'[t]
    BY <2>3, <2>4, <2>5, <2>7
  <2> QED BY <1>3, <2>2, <2>3, <2>8 DEF RunsCounted, Places
<1> QED BY <1>4, <1>5

\* Requests push only what they were let through for.
LEMMA RequestRuns ==
    ASSUME TypeOK, NEW h \in Handlers,
           \/ \E id \in TaskIds :
                 \/ BeginHandler(h, id)
                 \/ \E input \in Kinds, cost \in BOOLEAN : CreateTask(h, id, input, cost)
           \/ ContinueHandler(h)
           \/ HandlerFails(h),
           NEW t \in TaskIds, RunsCounted(t)
    PROVE  RunsCounted(t)'
<1>1. ASSUME NEW state, handler' = [handler EXCEPT ![h] = state],
             \/ state = Idle
             \/ state.step = "save" /\ ~ state.push
             \/ /\ handler[h].step = "save" /\ handler[h].push
                /\ state.task = handler[h].task,
             UNCHANGED <<queue, worker, refunds, runs>>
      PROVE  RunsCounted(t)'
  <2>1. Pushing(t)' \subseteq Pushing(t)
    BY <1>1, RequestStays
  <2>2. Running(t)' = Running(t) /\ Unpaid(t)' = Unpaid(t)
    BY <1>1 DEF Running, Unpaid
  <2> QED BY <1>1, <2>1, <2>2, FewerPlaces
<1>2. ASSUME NEW id \in TaskIds, NEW row, NEW push \in BOOLEAN, ReadForSave(h, id, row, push)
      PROVE  RunsCounted(t)'
  <2> DEFINE state == [step |-> "save", task |-> id, row |-> row, push |-> push]
  <2>1. /\ handler' = [handler EXCEPT ![h] = state] /\ handler[h] = Idle
        /\ state.step = "save" /\ state.push = push /\ state.task = id
        /\ UNCHANGED <<queue, worker, refunds>>
    BY <1>2 DEF ReadForSave, HandlerTo
  <2> HIDE DEF state
  <2>2. CASE push
    BY <1>2, <2>1, <2>2, LetThroughCounts DEF ReadForSave
  <2>3. CASE ~ push
    BY <1>1, <1>2, <2>1, <2>3 DEF ReadForSave
  <2> QED BY <2>2, <2>3
<1>3. ASSUME NEW id \in TaskIds, NEW input \in Kinds, NEW cost \in BOOLEAN,
             CreateTask(h, id, input, cost)
      PROVE  RunsCounted(t)'
  <2>1. UNCHANGED <<queue, worker, refunds>> /\ handler[h] = Idle
    BY <1>3 DEF CreateTask
  <2>2. CASE AutoAudit
    <3> DEFINE state == [step |-> "push", task |-> id]
    <3>1. /\ handler' = [handler EXCEPT ![h] = state]
          /\ state.step = "push" /\ state.task = id /\ runs' = [runs EXCEPT ![id] = @ + 1]
      BY <1>3, <2>2 DEF CreateTask, HandlerTo
    <3> HIDE DEF state
    <3> QED BY <2>1, <3>1, LetThroughCounts
  <2>3. CASE ~ AutoAudit
    BY <1>1, <1>3, <2>1, <2>3 DEF CreateTask, HandlerTo
  <2> QED BY <2>2, <2>3
<1>4. ASSUME NEW id \in TaskIds, BeginHandler(h, id) PROVE RunsCounted(t)'
  BY <1>2, <1>3, <1>4 DEF BeginHandler, ApproveTask, UpdateTask, RetryTask, CancelTask
<1>5. CASE HandlerSave(h)
  <2>1. /\ handler[h].step = "save" /\ handler[h].push \in BOOLEAN
        /\ UNCHANGED <<queue, worker, refunds, runs>>
    BY <1>5, HandlerHoldsRow DEF HandlerSave, history, TypeOK
  <2>2. CASE handler[h].push
    <3>1. handler' = [handler EXCEPT ![h] = [step |-> "push", task |-> handler[h].task]]
      BY <1>5, <2>2 DEF HandlerSave, HandlerTo
    <3> QED BY <1>1, <2>1, <2>2, <3>1
  <2>3. CASE ~ handler[h].push
    BY <1>1, <1>5, <2>1, <2>3 DEF HandlerSave, HandlerTo
  <2> QED BY <2>2, <2>3
<1>6. CASE HandlerPush(h)
  <2> DEFINE id == handler[h].task
  <2>1. /\ handler[h].step = "push" /\ id \in TaskIds /\ queue' = Append(queue, id)
        /\ handler' = [handler EXCEPT ![h] = Idle] /\ UNCHANGED <<worker, refunds, runs>>
    BY <1>6, HandlerHoldsTask DEF HandlerPush, HandlerTo, history, TypeOK
  <2>2. Running(t)' = Running(t) /\ Unpaid(t)' = Unpaid(t)
    BY <2>1 DEF Running, Unpaid
  <2>3. Pushing(t)' \subseteq Pushing(t)
    BY <2>1, RequestStays
  <2>4. id = t => h \in Pushing(t) /\ Pushing(t)' = Pushing(t) \ {h}
    BY <2>1 DEF Pushing, Idle, TypeOK
  <2> QED BY <2>1, <2>2, <2>3, <2>4, PushedPlaces
<1>7. CASE HandlerFails(h)
  BY <1>1, <1>7 DEF HandlerFails, HandlerTo, history
<1> QED BY <1>3, <1>4, <1>5, <1>6, <1>7 DEF ContinueHandler

\* Goroutines take their run from the queue and bring it back, and one that
\* has paid only has its last save to do.
LEMMA ExecutionRuns ==
    ASSUME TypeOK, NEW w \in Workers, Pop(w) \/ ContinueWorker(w),
           NEW t \in TaskIds, RunsCounted(t)
    PROVE  RunsCounted(t)'
<1> DEFINE q == worker[w]
<1>1. q \in WorkerState /\ queue \in Seq(TaskIds)
  BY DEF TypeOK
<1>2. q.step \in RowSteps =>
         q \in [step : RowSteps, task : TaskIds, row : TaskRow] /\ q # Idle
  BY <1>1, WorkerHoldsRow DEF RowSteps, Idle
<1>3. Pushing(t)' = Pushing(t) /\ UNCHANGED runs
  BY DEF Pushing, Pop, ContinueWorker, ReadTask, StartTask, Submit, SaveRemote, Succeed,
         Fail, Complete, Requeue, LastFailure, Refund, GiveUp, history
\* A step that keeps the run where it is, or ends it.
<1>4. ASSUME NEW state, worker' = [worker EXCEPT ![w] = state],
             \/ state = Idle
             \/ /\ q # Idle /\ state.task = q.task
                /\ q.step = "give_up" => state.step = "give_up",
             UNCHANGED <<queue, refunds>>
      PROVE  RunsCounted(t)'
  BY <1>3, <1>4, ExecutionStays, FewerPlaces
<1>5. CASE Pop(w)
  <2> DEFINE id == Head(queue)
             state == [step |-> "read", task |-> id]
  <2>1. /\ q = Idle /\ queue # <<>> /\ queue' = Tail(queue) /\ UNCHANGED refunds
        /\ worker' = [worker EXCEPT ![w] = state]
    BY <1>5 DEF Pop, WorkerTo, history
  <2>2. worker'[w] = state /\ \A v \in Workers : v # w => worker'[v] = worker[v]
    BY <2>1 DEF TypeOK
  <2>3. w \notin Running(t)
    BY <2>1 DEF Running
  <2>4. /\ id = t => /\ Running(t)' = Running(t) \union {w}
                     /\ Unpaid(t)' = Unpaid(t) \union {w}
        /\ id # t => Running(t)' = Running(t) /\ Unpaid(t)' = Unpaid(t)
    BY <2>2, <2>3 DEF Running, Unpaid, Idle
  <2>5. PICK r, u : r = Running(t)' /\ u = Unpaid(t)'
    OBVIOUS
  <2>6. /\ IsFiniteSet(r)
        /\ Cardinality(r) = Cardinality(Running(t)) + (IF id = t THEN 1 ELSE 0)
        /\ Cardinality(u) = Cardinality(Unpaid(t)) + (IF id = t THEN 1 ELSE 0)
    <3>1. /\ IsFiniteSet(Running(t)) /\ IsFiniteSet(Unpaid(t)) /\ w \notin Unpaid(t)
          /\ Cardinality(Running(t)) \in Nat /\ Cardinality(Unpaid(t)) \in Nat
      BY <2>3, PlacesAreNumbers DEF RunsCounted, Unpaid
    <3>2. CASE id = t
      BY <2>3, <2>4, <2>5, <3>1, <3>2, FS_AddElement
    <3>3. CASE id # t
      BY <2>4, <2>5, <3>1, <3>3
    <3> QED BY <3>2, <3>3
  <2>7. PICK n \in Nat : n = Cardinality(Waiting(t)')
    <3>1. Waiting(t)' = Positions(Tail(queue), t) /\ Tail(queue) \in Seq(TaskIds)
      BY <1>1, <2>1 DEF Waiting, Positions
    <3> QED BY <3>1, PositionsFinite
  <2>8. Cardinality(Waiting(t)) = n + (IF id = t THEN 1 ELSE 0)
    <3>1. Waiting(t)' = Positions(Tail(queue), t) /\ Waiting(t) = Positions(queue, t)
      BY <2>1 DEF Waiting, Positions
    <3> QED BY <1>1, <2>1, <2>7, <3>1, PositionsTail
  <2>9. PICK w0 \in Nat, p0 \in Nat, r0 \in Nat, u0 \in Nat, f \in Nat, k \in Nat :
           /\ w0 = Cardinality(Waiting(t)) /\ p0 = Cardinality(Pushing(t))
           /\ r0 = Cardinality(Running(t)) /\ u0 = Cardinality(Unpaid(t))
           /\ f = refunds[t] /\ k = runs[t]
    BY PlacesAreNumbers
  <2>10. w0 + p0 + r0 =< k /\ f + (w0 + p0) + u0 =< k
    BY <2>9 DEF RunsCounted, Places
  <2>11. PICK one \in {0, 1} : one = IF id = t THEN 1 ELSE 0
    OBVIOUS
  <2>12. w0 = n + one
    BY <2>8, <2>9, <2>11
  <2>13. n + p0 + (r0 + one) =< k /\ f + (n + p0) + (u0 + one) =< k
    BY <2>10, <2>12
  <2>14. /\ n + Cardinality(Pushing(t)) + Cardinality(r) =< runs[t]
         /\ refunds[t] + (n + Cardinality(Pushing(t))) + Cardinality(u) =< runs[t]
    BY <2>6, <2>9, <2>11, <2>13
  <2>15. Cardinality(Waiting(t))' = n
    BY <2>7
  <2> QED BY <1>3, <2>1, <2>5, <2>6, <2>14, <2>15 DEF RunsCounted, Places
<1>6. CASE ReadTask(w)
  <2>1. q.step = "read" /\ UNCHANGED <<queue, refunds>>
    BY <1>6 DEF ReadTask, history
  <2>2. PICK state : /\ worker' = [worker EXCEPT ![w] = state]
                     /\ state = Idle \/ (state.step = "start" /\ state.task = q.task)
    BY <1>6 DEF ReadTask, WorkerTo
  <2>3. q # Idle /\ q.step # "give_up"
    BY <2>1 DEF Idle
  <2> QED BY <1>4, <2>1, <2>2, <2>3
<1>7. CASE \/ StartTask(w) \/ Submit(w) \/ SaveRemote(w) \/ Succeed(w) \/ Fail(w)
           \/ LastFailure(w)
  <2>1. q.step \in RowSteps /\ q.step # "give_up" /\ UNCHANGED <<queue, refunds>>
    BY <1>7 DEF StartTask, Submit, SaveRemote, Succeed, Fail, LastFailure, RowSteps, history
  <2>2. q \in [step : RowSteps, task : TaskIds, row : TaskRow]
    BY <1>2, <2>1
  <2>3. PICK state : worker' = [worker EXCEPT ![w] = state] /\ state.task = q.task
    <3>1. CASE StartTask(w) \/ SaveRemote(w) \/ Fail(w)
      <4>1. PICK s \in RowSteps : worker' = [worker EXCEPT ![w] = [q EXCEPT !.step = s]]
        BY <3>1 DEF StartTask, SaveRemote, Fail, WorkerTo, RowSteps
      <4>2. [q EXCEPT !.step = s].task = q.task
        BY <2>2
      <4> QED BY <4>1, <4>2
    <3>2. CASE Submit(w)
      <4>1. \/ worker' = [worker EXCEPT ![w] = [q EXCEPT !.step = "poll"]]
            \/ worker' = [worker EXCEPT ![w] = [q EXCEPT !.step = "save_remote",
                                                  !.row.remote = submits[q.task] + 1]]
        BY <3>2 DEF Submit, WorkerTo
      <4>2. /\ [q EXCEPT !.step = "poll"].task = q.task
            /\ [q EXCEPT !.step = "save_remote",
                         !.row.remote = submits[q.task] + 1].task = q.task
        BY <2>2
      <4> QED BY <4>1, <4>2
    <3>3. CASE Succeed(w)
      <4>1. worker' = [worker EXCEPT ![w] = [q EXCEPT !.step = "done",
                          !.row.status = "completed", !.row.result = TRUE]]
        BY <3>3 DEF Succeed, WorkerTo
      <4>2. [q EXCEPT !.step = "done", !.row.status = "completed",
                      !.row.result = TRUE].task = q.task
        BY <2>2
      <4> QED BY <4>1, <4>2
    <3>4. CASE LastFailure(w)
      <4>1. PICK s : worker' = [worker EXCEPT ![w] =
                                   [q EXCEPT !.step = s, !.row.status = "failed"]]
        BY <3>4 DEF LastFailure, WorkerTo
      <4>2. [q EXCEPT !.step = s, !.row.status = "failed"].task = q.task
        BY <2>2
      <4> QED BY <4>1, <4>2
    <3> QED BY <1>7, <3>1, <3>2, <3>3, <3>4
  <2> QED BY <1>2, <1>4, <2>1, <2>3
<1>8. CASE Complete(w) \/ GiveUp(w)
  BY <1>4, <1>8 DEF Complete, GiveUp, WorkerTo, history
<1>9. CASE Requeue(w) /\ q.step = "error"
  <2>1. worker' = [worker EXCEPT ![w] = [step |-> "requeue", task |-> q.task]]
        /\ UNCHANGED <<queue, refunds>>
    BY <1>9 DEF Requeue, WorkerTo, history
  <2> QED BY <1>2, <1>4, <1>9, <2>1 DEF RowSteps
<1>10. CASE Requeue(w) /\ q.step = "requeue"
  <2>1. /\ worker' = [worker EXCEPT ![w] = Idle] /\ UNCHANGED <<refunds, runs>>
        /\ queue' = Append(queue, q.task) \/ UNCHANGED queue
    BY <1>10 DEF Requeue, WorkerTo, history
  <2>2. CASE UNCHANGED queue
    BY <1>4, <2>1, <2>2
  <2>3. CASE queue' = Append(queue, q.task)
    <3>1. q.task \in TaskIds
      BY <1>1, <1>10, WorkerHoldsTask
    <3>2. Running(t)' \subseteq Running(t) /\ Unpaid(t)' \subseteq Unpaid(t)
      BY <2>1, ExecutionStays
    <3>3. worker'[w] = Idle /\ \A v \in Workers : v # w => worker'[v] = worker[v]
      BY <2>1 DEF TypeOK
    <3>4. q.task = t => /\ w \in Unpaid(t)
                        /\ Running(t)' = Running(t) \ {w}
                        /\ Unpaid(t)' = Unpaid(t) \ {w}
      BY <1>10, <3>3 DEF Running, Unpaid, Idle
    <3> QED BY <1>3, <2>1, <2>3, <3>1, <3>2, <3>4, PushedPlaces
  <2> QED BY <2>1, <2>2, <2>3
<1>11. CASE Refund(w)
  <2>1. /\ q.step = "refund" /\ q.step \in RowSteps /\ UNCHANGED queue
        /\ worker' = [worker EXCEPT ![w] = [q EXCEPT !.step = "give_up"]]
        /\ refunds' = [refunds EXCEPT ![q.task] = @ + 1] \/ UNCHANGED refunds
    BY <1>11 DEF Refund, WorkerTo, RowSteps
  <2>2. /\ [q EXCEPT !.step = "give_up"].step = "give_up"
        /\ [q EXCEPT !.step = "give_up"].task = q.task
    BY <1>2, <2>1
  <2>3. CASE refunds'[t] = refunds[t]
    BY <1>2, <1>3, <2>1, <2>2, <2>3, ExecutionStays, FewerPlaces
  <2>4. CASE q.task = t /\ refunds'[t] = refunds[t] + 1
    <3>1. worker'[w].step = "give_up" /\ worker'[w].task = t
          /\ \A v \in Workers : v # w => worker'[v] = worker[v]
      BY <2>1, <2>2, <2>4 DEF TypeOK
    <3>2. Running(t)' = Running(t)
      BY <1>2, <2>1, <2>4, <3>1 DEF Running, Idle
    <3>3. w \in Unpaid(t) /\ Unpaid(t)' = Unpaid(t) \ {w}
      BY <1>2, <2>1, <2>4, <3>1, <3>2 DEF Running, Unpaid
    <3>4. PICK u : u = Unpaid(t)'
      OBVIOUS
    <3>5. Cardinality(u) = Cardinality(Unpaid(t)) - 1
      BY <3>3, <3>4, PlacesAreNumbers, FS_RemoveElement
    <3>6. PICK w0 \in Nat, p0 \in Nat, r0 \in Nat, u0 \in Nat, f \in Nat, k \in Nat :
             /\ w0 = Cardinality(Waiting(t)) /\ p0 = Cardinality(Pushing(t))
             /\ r0 = Cardinality(Running(t)) /\ u0 = Cardinality(Unpaid(t))
             /\ f = refunds[t] /\ k = runs[t]
      BY PlacesAreNumbers
    <3>7. w0 + p0 + r0 =< k /\ f + (w0 + p0) + u0 =< k
      BY <3>6 DEF RunsCounted, Places
    <3>8. (f + 1) + (w0 + p0) + (u0 - 1) =< k
      BY <3>7
    <3>9. refunds'[t] + (Cardinality(Waiting(t)) + Cardinality(Pushing(t))) + Cardinality(u)
             =< runs[t]
      BY <2>4, <3>5, <3>6, <3>8
    <3>10. Waiting(t)' = Waiting(t)
      BY <2>1 DEF Waiting
    <3> QED BY <1>3, <3>2, <3>4, <3>9, <3>10 DEF RunsCounted, Places
  <2> QED BY <2>1, <2>3, <2>4 DEF TypeOK
<1> QED BY <1>5, <1>6, <1>7, <1>8, <1>9, <1>10, <1>11 DEF ContinueWorker, Requeue

\* Every step keeps the runs counted.
LEMMA RunsStayCounted ==
    Spec => [](\A t \in TaskIds : RunsCounted(t))
<1> DEFINE Inv == \A t \in TaskIds : RunsCounted(t)
<1>1. Init => Inv
  <2> SUFFICES ASSUME Init, NEW t \in TaskIds PROVE RunsCounted(t)
    OBVIOUS
  <2>1. Waiting(t) = {} /\ Pushing(t) = {} /\ Running(t) = {} /\ Unpaid(t) = {}
    BY DEF Init, Waiting, Pushing, Running, Unpaid, Idle
  <2>2. refunds[t] = 0 /\ runs[t] = 0
    BY DEF Init
  <2> QED BY <2>1, <2>2, FS_EmptySet DEF RunsCounted, Places
<1>2. TypeOK /\ Inv /\ [Next]_vars => Inv'
  <2>1. CASE UNCHANGED vars
    BY <2>1 DEF vars, RunsCounted, Places, Waiting, Pushing, Running, Unpaid
  <2>2. CASE Next
    BY <2>2, RequestRuns, ExecutionRuns DEF Next
  <2> QED BY <2>1, <2>2
<1> HIDE DEF Inv
<1>3. Spec => []Inv
  BY <1>1, <1>2, TasksTypeOK, PTL DEF Spec
<1> QED BY <1>3 DEF Inv

\* A task is queued and executed at most as often as requests were let
\* through to queue it, for any number of requests and goroutines at once:
\* no retry and no failure multiplies a run (task_service.go:137-146, 159-170,
\* 257-273, 351-371, 446-449).
THEOREM TasksRunsDoNotMultiply == Spec => []RunsDoNotMultiply
<1>1. TypeOK /\ (\A t \in TaskIds : RunsCounted(t)) => RunsDoNotMultiply
  <2> SUFFICES ASSUME TypeOK, NEW t \in TaskIds, RunsCounted(t)
               PROVE  Cardinality(Waiting(t)) + Cardinality(Running(t)) =< runs[t]
    BY DEF RunsDoNotMultiply
  <2>1. PICK w0 \in Nat, p0 \in Nat, r0 \in Nat, k \in Nat :
           /\ w0 = Cardinality(Waiting(t)) /\ p0 = Cardinality(Pushing(t))
           /\ r0 = Cardinality(Running(t)) /\ k = runs[t]
    BY PlacesAreNumbers
  <2>2. w0 + p0 + r0 =< k
    BY <2>1 DEF RunsCounted, Places
  <2>3. w0 + r0 =< k
    BY <2>2
  <2> QED BY <2>1, <2>3
<1> QED BY <1>1, TasksTypeOK, RunsStayCounted, PTL

\* None of these runs pays back twice, whatever fails and whichever copies
\* are saved over each other (task_service.go:441-468).
THEOREM TasksOneRefundPerRun == Spec => []OneRefundPerRun
<1>1. TypeOK /\ (\A t \in TaskIds : RunsCounted(t)) => OneRefundPerRun
  <2> SUFFICES ASSUME TypeOK, NEW t \in TaskIds, RunsCounted(t)
               PROVE  refunds[t] =< runs[t]
    BY DEF OneRefundPerRun
  <2>1. PICK w0 \in Nat, p0 \in Nat, u0 \in Nat, f \in Nat, k \in Nat :
           /\ w0 = Cardinality(Waiting(t)) /\ p0 = Cardinality(Pushing(t))
           /\ u0 = Cardinality(Unpaid(t)) /\ f = refunds[t] /\ k = runs[t]
    BY PlacesAreNumbers
  <2>2. f + (w0 + p0) + u0 =< k
    BY <2>1 DEF RunsCounted, Places
  <2>3. f =< k
    BY <2>2
  <2> QED BY <2>1, <2>3
<1> QED BY <1>1, TasksTypeOK, RunsStayCounted, PTL

-----------------------------------------------------------------------------
(* Nobody waits in vain, as long as every push and save succeeds and no     *)
(* input is updated.                                                       *)

\* A copy says that the task waits only if its id is queued after the save.
NoneWaits ==
    /\ \A h \in Handlers :
          handler[h].step = "save" /\ handler[h].row.status = "pending_execution" =>
             handler[h].push
    /\ \A w \in Workers :
          worker[w].step \in RowSteps => worker[w].row.status # "pending_execution"

Queued(t) == \E i \in DOMAIN queue : queue[i] = t

Awaits(t) == StatusIn(t, {"pending_execution"})

\* Requests go on with the ids of the tasks that wait.
LEMMA RequestSchedules ==
    ASSUME TypeOK, NoneWaits, WaitingIsScheduled, ~ Failures, "update" \notin Operations,
           NEW h \in Handlers,
           \/ \E t \in TaskIds :
                 \/ BeginHandler(h, t)
                 \/ \E input \in Kinds, cost \in BOOLEAN : CreateTask(h, t, input, cost)
           \/ ContinueHandler(h)
           \/ HandlerFails(h)
    PROVE  NoneWaits' /\ WaitingIsScheduled'
<1>1. UNCHANGED worker /\ \A g \in Handlers : g # h => handler'[g] = handler[g]
  BY DEF BeginHandler, CreateTask, ApproveTask, UpdateTask, RetryTask, CancelTask,
         ReadForSave, ContinueHandler, HandlerSave, HandlerPush, HandlerFails, HandlerTo,
         TypeOK
\* The queue stays, and h goes on to queue what waits only now.
<1>g. ASSUME queue' = queue, handler[h].step # "push",
             handler'[h].step = "save" /\ handler'[h].row.status = "pending_execution" =>
                handler'[h].push,
             \A x \in TaskIds : Awaits(x)' =>
                Awaits(x) \/ (handler'[h].step = "push" /\ handler'[h].task = x)
      PROVE  NoneWaits' /\ WaitingIsScheduled'
  <2>1. NoneWaits'
    BY <1>1, <1>g DEF NoneWaits
  <2>2. ASSUME NEW x \in TaskIds, Scheduled(x) PROVE Scheduled(x)'
    BY <1>1, <1>g, <2>2 DEF Scheduled
  <2>3. ASSUME NEW x \in TaskIds, Awaits(x)' PROVE Scheduled(x)'
    BY <1>g, <2>2, <2>3 DEF WaitingIsScheduled, Awaits, Scheduled
  <2> QED BY <2>1, <2>3 DEF WaitingIsScheduled, Awaits
<1>2. ASSUME NEW t \in TaskIds, NEW row, NEW push, ReadForSave(h, t, row, push),
             row.status = "pending_execution" => push
      PROVE  NoneWaits' /\ WaitingIsScheduled'
  <2>1. /\ handler'[h] = [step |-> "save", task |-> t, row |-> row, push |-> push]
        /\ handler[h].step # "push" /\ UNCHANGED <<task, queue>>
    BY <1>2 DEF ReadForSave, HandlerTo, Idle, TypeOK
  <2> QED BY <1>2, <1>g, <2>1 DEF Awaits, StatusIn
<1>3. ASSUME NEW t \in TaskIds,
             ApproveTask(h, t) \/ RetryTask(h, t) \/ CancelTask(h, t)
      PROVE  NoneWaits' /\ WaitingIsScheduled'
  <2>1. task[t] # NoTask => task[t] \in TaskRow
    BY DEF TypeOK
  <2>2. CASE ApproveTask(h, t)
    BY <1>2, <2>2 DEF ApproveTask
  <2>3. CASE RetryTask(h, t)
    BY <1>2, <2>3 DEF RetryTask
  <2>4. CASE CancelTask(h, t)
    <3>1. [task[t] EXCEPT !.status = "cancelled"].status # "pending_execution"
      BY <2>1, <2>4 DEF CancelTask, TaskRow
    <3> QED BY <1>2, <2>4, <3>1 DEF CancelTask
  <2> QED BY <1>3, <2>2, <2>3, <2>4
<1>4. ASSUME NEW t \in TaskIds, NEW input \in Kinds, NEW cost \in BOOLEAN,
             CreateTask(h, t, input, cost)
      PROVE  NoneWaits' /\ WaitingIsScheduled'
  <2>1. /\ handler'[h] = IF AutoAudit THEN [step |-> "push", task |-> t] ELSE Idle
        /\ handler[h].step # "push" /\ queue' = queue
    BY <1>4 DEF CreateTask, HandlerTo, Idle, TypeOK
  <2>2. /\ task'[t].status = "pending_execution" => AutoAudit
        /\ \A x \in TaskIds : x # t => task'[x] = task[x]
    BY <1>4 DEF CreateTask, TypeOK
  <2> QED BY <1>g, <2>1, <2>2 DEF Awaits, StatusIn, Idle
<1>5. CASE HandlerSave(h)
  <2> DEFINE q == handler[h]
  <2>1. q.step = "save" /\ q.task \in TaskIds /\ queue' = queue
    BY <1>5, HandlerHoldsRow DEF HandlerSave, TypeOK
  <2>2. /\ handler'[h] = IF q.push THEN [step |-> "push", task |-> q.task] ELSE Idle
        /\ task'[q.task] = q.row
        /\ \A x \in TaskIds : x # q.task => task'[x] = task[x]
    BY <1>5, <2>1 DEF HandlerSave, HandlerTo, TypeOK
  <2>3. q.row.status = "pending_execution" => q.push
    BY <2>1 DEF NoneWaits
  <2> QED BY <1>g, <2>1, <2>2, <2>3 DEF Awaits, StatusIn, Idle
<1>6. CASE HandlerPush(h)
  <2>1. /\ handler[h].step = "push" /\ handler'[h] = Idle /\ UNCHANGED task
        /\ queue' = Append(queue, handler[h].task)
        /\ queue \in Seq(TaskIds) /\ handler[h].task \in TaskIds
    BY <1>6, HandlerHoldsTask DEF HandlerPush, HandlerTo, TypeOK
  <2>2. /\ \A i \in DOMAIN queue : i \in DOMAIN queue' /\ queue'[i] = queue[i]
        /\ Len(queue) + 1 \in DOMAIN queue'
        /\ queue'[Len(queue) + 1] = handler[h].task
    BY <2>1
  <2>3. ASSUME NEW x \in TaskIds, Scheduled(x) PROVE Scheduled(x)'
    BY <1>1, <2>1, <2>2, <2>3 DEF Scheduled
  <2>4. NoneWaits'
    BY <1>1, <2>1 DEF NoneWaits, Idle
  <2> QED BY <2>1, <2>3, <2>4 DEF WaitingIsScheduled, StatusIn
<1>7. ASSUME NEW t \in TaskIds, BeginHandler(h, t)
      PROVE  NoneWaits' /\ WaitingIsScheduled'
  <2>1. CASE \E input \in Kinds, cost \in BOOLEAN : CreateTask(h, t, input, cost)
    BY <1>4, <2>1
  <2>2. CASE ApproveTask(h, t) \/ RetryTask(h, t) \/ CancelTask(h, t)
    BY <1>3, <2>2
  <2> QED BY <1>7, <2>1, <2>2 DEF BeginHandler
<1> QED
  BY <1>4, <1>5, <1>6, <1>7 DEF ContinueHandler, HandlerFails

\* Executions take an id from the queue and say so, or queue it again.
LEMMA ExecutionSchedules ==
    ASSUME TypeOK, NoneWaits, WaitingIsScheduled, ~ Failures,
           NEW w \in Workers, Pop(w) \/ ContinueWorker(w)
    PROVE  NoneWaits' /\ WaitingIsScheduled'
<1> DEFINE q == worker[w]
           Going == {"read", "start", "requeue"}
<1>0. PICK t : t = q.task
  OBVIOUS
<1>1. q \in WorkerState /\ queue \in Seq(TaskIds)
  BY DEF TypeOK
<1>2. q.step \in RowSteps =>
         /\ q \in [step : RowSteps, task : TaskIds, row : TaskRow]
         /\ q.task \in TaskIds /\ q.row \in TaskRow
         /\ q.row.status # "pending_execution"
  BY <1>1, WorkerHoldsRow DEF RowSteps, NoneWaits
<1>3. q.step \in {"read", "requeue"} => q.task \in TaskIds
  BY <1>1, WorkerHoldsTask
<1>4. UNCHANGED handler /\ \A v \in Workers : v # w => worker'[v] = worker[v]
  BY DEF Pop, ContinueWorker, ReadTask, StartTask, Submit, SaveRemote, Succeed,
         Fail, Complete, Requeue, LastFailure, Refund, GiveUp, WorkerTo, TypeOK, history
\* What waits is scheduled still, and w holds no copy that waits.
<1>g. ASSUME worker'[w].step \in RowSteps => worker'[w].row.status # "pending_execution",
             \A x \in TaskIds : Queued(x) =>
                Queued(x)' \/ (worker'[w].step \in Going /\ worker'[w].task = x),
             q.step \in Going =>
                \/ worker'[w].step \in Going /\ worker'[w].task = t
                \/ Queued(t)'
                \/ ~ Awaits(t)',
             \A x \in TaskIds : Awaits(x)' =>
                Awaits(x) \/ (worker'[w].step \in Going /\ worker'[w].task = x)
      PROVE  NoneWaits' /\ WaitingIsScheduled'
  <2>1. NoneWaits'
    BY <1>4, <1>g DEF NoneWaits
  <2>2. ASSUME NEW x \in TaskIds, Scheduled(x), Awaits(x)' PROVE Scheduled(x)'
    <3>1. CASE Queued(x)
      BY <1>g, <3>1 DEF Scheduled, Queued
    <3>2. CASE \E h \in Handlers : handler[h].step = "push" /\ handler[h].task = x
      BY <1>4, <3>2 DEF Scheduled
    <3>3. ASSUME NEW v \in Workers, v # w, worker[v].step \in Going, worker[v].task = x
          PROVE  Scheduled(x)'
      BY <1>4, <3>3 DEF Scheduled
    <3>4. CASE q.step \in Going /\ q.task = x
      BY <1>0, <1>g, <2>2, <3>4 DEF Scheduled, Queued
    <3> QED BY <2>2, <3>1, <3>2, <3>3, <3>4 DEF Scheduled, Queued
  <2>3. ASSUME NEW x \in TaskIds, Awaits(x)' PROVE Scheduled(x)'
    BY <1>g, <2>2, <2>3 DEF WaitingIsScheduled, Awaits, Scheduled
  <2> QED BY <2>1, <2>3 DEF WaitingIsScheduled, Awaits
\* A step that leaves the queue alone, from a step that is no longer going.
<1>h. ASSUME q.step \notin Going, UNCHANGED queue,
             worker'[w].step \in RowSteps => worker'[w].row.status # "pending_execution",
             \/ UNCHANGED task
             \/ \E row \in TaskRow :
                   /\ q.task \in TaskIds /\ Saved(q.task, row)
                   /\ row.status = "pending_execution" =>
                         worker'[w].step \in Going /\ worker'[w].task = q.task
      PROVE  NoneWaits' /\ WaitingIsScheduled'
  <2>1. \A x \in TaskIds : Awaits(x)' =>
           Awaits(x) \/ (worker'[w].step \in Going /\ worker'[w].task = x)
    BY <1>h DEF Saved, Awaits, StatusIn, TypeOK
  <2>2. \A x \in TaskIds : Queued(x) => Queued(x)'
    BY <1>h DEF Queued
  <2> QED BY <1>g, <1>h, <2>1, <2>2
<1>5. CASE Pop(w)
  <2>1. /\ queue # <<>> /\ queue' = Tail(queue) /\ UNCHANGED task /\ q = Idle
        /\ worker'[w] = [step |-> "read", task |-> Head(queue)]
    BY <1>5 DEF Pop, WorkerTo, TypeOK
  <2>2. ASSUME NEW x \in TaskIds, Queued(x), x # Head(queue) PROVE Queued(x)'
    <3>1. PICK i \in DOMAIN queue : queue[i] = x
      BY <2>2 DEF Queued
    <3>2. i # 1 /\ i \in 1..Len(queue)
      BY <1>1, <2>1, <2>2, <3>1
    <3>3. i - 1 \in DOMAIN queue' /\ queue'[i - 1] = x
      BY <1>1, <2>1, <3>1, <3>2
    <3> QED BY <3>3 DEF Queued
  <2> QED BY <1>g, <2>1, <2>2 DEF Idle, RowSteps, Awaits, StatusIn
<1>6. CASE ReadTask(w)
  <2>1. q.step = "read" /\ UNCHANGED <<queue, task>> /\ q.task \in TaskIds
    BY <1>3, <1>6 DEF ReadTask
  <2>2. worker'[w] = IF task[q.task] = NoTask THEN Idle
                     ELSE [step |-> "start", task |-> q.task,
                           row |-> [task[q.task] EXCEPT !.status = "processing"]]
    BY <1>6 DEF ReadTask, WorkerTo, TypeOK
  <2>3. task[q.task] # NoTask =>
           [task[q.task] EXCEPT !.status = "processing"].status # "pending_execution"
    BY <2>1 DEF TypeOK, TaskRow
  <2>4. worker'[w] # Idle => worker'[w].step = "start" /\ worker'[w].task = t
    BY <1>0, <2>2
  <2>5. worker'[w] = Idle => ~ Awaits(t)'
    BY <1>0, <2>1, <2>2 DEF Awaits, StatusIn, Idle
  <2>6. worker'[w].step \in RowSteps => worker'[w].row.status # "pending_execution"
    BY <2>2, <2>3 DEF Idle, RowSteps
  <2>7. /\ \A x \in TaskIds : Queued(x) => Queued(x)'
        /\ \A x \in TaskIds : Awaits(x)' => Awaits(x)
    BY <2>1 DEF Queued, Awaits, StatusIn
  <2> QED BY <1>g, <2>4, <2>5, <2>6, <2>7
<1>7. CASE StartTask(w)
  <2>1. /\ q.step = "start" /\ UNCHANGED queue /\ Saved(q.task, q.row)
        /\ worker'[w] = [q EXCEPT !.step = "execute"]
    BY <1>7 DEF StartTask, WorkerTo, TypeOK
  <2>2. q.step \in RowSteps
    BY <2>1 DEF RowSteps
  <2>3. worker'[w].step = "execute" /\ worker'[w].row = q.row
    BY <1>2, <2>1, <2>2
  <2>4. /\ task'[q.task] = q.row
        /\ \A x \in TaskIds : x # q.task => task'[x] = task[x]
    BY <1>2, <2>1, <2>2 DEF Saved, TypeOK
  <2>5. /\ ~ Awaits(t)'
        /\ \A x \in TaskIds : Awaits(x)' => Awaits(x)
    BY <1>0, <1>2, <2>2, <2>4 DEF Awaits, StatusIn
  <2>6. \A x \in TaskIds : Queued(x) => Queued(x)'
    BY <2>1 DEF Queued
  <2> QED BY <1>2, <1>g, <2>2, <2>3, <2>5, <2>6
<1>8. CASE SaveRemote(w) \/ Complete(w) \/ GiveUp(w)
  <2>1. /\ q.step \in RowSteps /\ q.step \notin Going /\ UNCHANGED queue
        /\ Saved(q.task, q.row)
        /\ worker'[w] = Idle \/ worker'[w] = [q EXCEPT !.step = "poll"]
    BY <1>8 DEF SaveRemote, Complete, GiveUp, WorkerTo, TypeOK, RowSteps
  <2>2. worker'[w].step \in RowSteps => worker'[w].row = q.row
    BY <1>2, <2>1 DEF Idle, RowSteps
  <2> QED BY <1>2, <1>h, <2>1, <2>2
<1>9. CASE Submit(w) \/ Succeed(w) \/ Fail(w) \/ LastFailure(w) \/ Refund(w)
  <2>1. q.step \in RowSteps /\ q.step \notin Going /\ UNCHANGED <<queue, task>>
    BY <1>9 DEF Submit, Succeed, Fail, LastFailure, Refund, RowSteps
  <2>2. CASE Submit(w)
    <3>1. \/ worker'[w] = [q EXCEPT !.step = "poll"]
          \/ worker'[w] = [q EXCEPT !.step = "save_remote",
                                    !.row.remote = submits[q.task] + 1]
      BY <2>2 DEF Submit, WorkerTo, TypeOK
    <3>2. worker'[w].row.status = q.row.status
      BY <1>2, <2>1, <3>1 DEF TaskRow
    <3> QED BY <1>2, <1>h, <2>1, <3>2
  <2>3. CASE Succeed(w)
    <3>1. worker'[w] = [q EXCEPT !.step = "done", !.row.status = "completed",
                                !.row.result = TRUE]
      BY <2>3 DEF Succeed, WorkerTo, TypeOK
    <3>2. worker'[w].row.status = "completed"
      BY <1>2, <2>1, <3>1 DEF TaskRow
    <3> QED BY <1>h, <2>1, <3>2
  <2>4. CASE Fail(w) \/ Refund(w)
    <3>1. \/ worker'[w] = [q EXCEPT !.step = "error"]
          \/ worker'[w] = [q EXCEPT !.step = "give_up"]
      BY <2>4 DEF Fail, Refund, WorkerTo, TypeOK
    <3>2. worker'[w].row = q.row
      BY <1>2, <2>1, <3>1
    <3> QED BY <1>2, <1>h, <2>1, <3>2
  <2>5. CASE LastFailure(w)
    <3>1. PICK s \in {"refund", "give_up"} :
             worker'[w] = [q EXCEPT !.step = s, !.row.status = "failed"]
      BY <2>5 DEF LastFailure, WorkerTo, TypeOK
    <3>2. worker'[w].row.status = "failed"
      BY <1>2, <2>1, <3>1 DEF TaskRow
    <3> QED BY <1>h, <2>1, <3>2
  <2> QED BY <1>9, <2>2, <2>3, <2>4, <2>5
<1>10. CASE Requeue(w) /\ q.step = "error"
  <2> DEFINE row == [q.row EXCEPT !.retries = @ + 1, !.status = "pending_execution"]
  <2>1. /\ RetriesLeft(q.row) /\ Saved(q.task, row) /\ UNCHANGED queue
        /\ worker'[w] = [step |-> "requeue", task |-> q.task]
    BY <1>10 DEF Requeue, WorkerTo, TypeOK
  <2>2. q.step \in RowSteps /\ q.step \notin Going
    BY <1>10 DEF RowSteps
  <2>3. row \in TaskRow
    BY <1>2, <2>1, <2>2, RowAssignments DEF Statuses
  <2> HIDE DEF row
  <2> QED BY <1>2, <1>h, <2>1, <2>2, <2>3 DEF RowSteps
<1>11. CASE Requeue(w) /\ q.step = "requeue"
  <2>1. /\ queue' = Append(queue, q.task) /\ worker'[w] = Idle /\ UNCHANGED task
        /\ q.task \in TaskIds
    BY <1>3, <1>11 DEF Requeue, WorkerTo, TypeOK
  <2>2. /\ \A i \in DOMAIN queue : i \in DOMAIN queue' /\ queue'[i] = queue[i]
        /\ Len(queue) + 1 \in DOMAIN queue' /\ queue'[Len(queue) + 1] = q.task
    BY <1>1, <2>1
  <2>3. Queued(t)' /\ \A x \in TaskIds : Queued(x) => Queued(x)'
    BY <1>0, <2>2 DEF Queued
  <2> QED BY <1>g, <2>1, <2>3 DEF Idle, RowSteps, Awaits, StatusIn
<1> QED
  BY <1>5, <1>6, <1>7, <1>8, <1>9, <1>10, <1>11 DEF ContinueWorker, Requeue

\* A task whose row says that it waits is queued or about to be, or somebody
\* has just taken its id, whatever the interleaving of requests, executions
\* and requeues (task_service.go:131-170, 257-273, 351-381, 441-451).
THEOREM TasksWaitingIsScheduled ==
    ~ Failures /\ "update" \notin Operations => (Spec => []WaitingIsScheduled)
<1> SUFFICES ASSUME ~ Failures, "update" \notin Operations
             PROVE  Spec => []WaitingIsScheduled
  OBVIOUS
<1> DEFINE Inv == NoneWaits /\ WaitingIsScheduled
<1>1. Init => Inv
  BY DEF Init, NoneWaits, WaitingIsScheduled, StatusIn, Idle, RowSteps
<1>2. TypeOK /\ Inv /\ [Next]_vars => Inv'
  <2>1. CASE UNCHANGED vars
    BY <2>1 DEF vars, NoneWaits, WaitingIsScheduled, StatusIn, Scheduled
  <2> QED BY <2>1, RequestSchedules, ExecutionSchedules DEF Next
<1>3. Inv => WaitingIsScheduled
  OBVIOUS
<1> HIDE DEF Inv
<1> QED BY <1>1, <1>2, <1>3, TasksTypeOK, PTL DEF Spec

=============================================================================
