------------------------------- MODULE Tasks -------------------------------
(***************************************************************************)
(* internal/services/task_service.go: the tasks table, the Redis list of   *)
(* task ids, the API operations on a task and the worker goroutines that   *)
(* execute it through an executor (jiekou_executor.go,                     *)
(* api_task_executor.go), in one process that does not restart.            *)
(*                                                                         *)
(* Nothing in this file uses a version or a lock: every operation reads    *)
(* the whole row, works on its copy and saves the whole copy over whatever *)
(* the row is by then.  Reads, saves, queue operations and calls of the    *)
(* remote service are steps of their own.  A debit or a refund is one step *)
(* that is committed or fails; Wallet says what it consists of.            *)
(***************************************************************************)
EXTENDS Integers, Sequences, FiniteSets

CONSTANTS
    TaskIds,      \* ids the database may give
    Handlers,     \* goroutines that serve API requests
    Workers,      \* goroutines of the worker; the code starts any number
    Kinds,        \* the executors an input may ask for
    Operations,   \* the API operations that are called
    AutoAudit,    \* configuration: tasks need no approval
    MaxRetries,   \* retries after a failed execution: 3 in the code
    Failures,     \* whether the database and Redis may fail
    NoTask,       \* no such row
    MaxRuns,      \* bound: none is let through for a task that had so many runs
    MaxFailures   \* bound: no execution of a task that failed so often

ASSUME KindsAssumption == Kinds \subseteq {"jiekou_api", "remote_api", "local"}
ASSUME MaxRetriesAssumption == MaxRetries \in Nat
ASSUME TaskBoundsAssumption == MaxRuns \in Nat /\ MaxFailures \in Nat

Statuses == {"pending_audit", "pending_execution", "processing", "completed",
             "failed", "cancelled"}

\* input is the executor the input asks for; remote is the number of the
\* remote job whose id is stored, 0 for none; cost tells whether the model
\* has a price.
TaskRow == [status : Statuses, retries : 0..MaxRetries, input : Kinds,
            remote : Nat, result : BOOLEAN, cost : BOOLEAN]

ASSUME NoTaskAssumption == NoTask \notin TaskRow

VARIABLES
    task,         \* task[t]: the committed row, or NoTask
    queue,        \* the Redis list: pushed at the end, popped at the front
    handler,      \* handler[h]: where an API request is, and its copy
    worker,       \* worker[w]: where an execution is, and its copy
    refunds,      \* refunds[t]: refund rows in the ledger that name t
    runs,         \* runs[t]: requests let through that queue t
    failures,     \* failures[t]: executions that ended in an error
    submits,      \* submits[t]: jobs the remote service has accepted for t
    dead          \* dead[t]: those of them it has reported as failed

vars == <<task, queue, handler, worker, refunds, runs, failures, submits, dead>>
history == <<refunds, runs, failures, submits, dead>>

Idle == [step |-> "idle"]

HandlerState ==
    {Idle}
    \union [step : {"save"}, task : TaskIds, row : TaskRow, push : BOOLEAN]
    \union [step : {"push"}, task : TaskIds]

WorkerState ==
    {Idle}
    \union [step : {"read", "requeue"}, task : TaskIds]
    \union [step : {"start", "execute", "save_remote", "poll", "done", "error",
                    "refund", "give_up"}, task : TaskIds, row : TaskRow]

Init ==
    /\ task = [t \in TaskIds |-> NoTask]
    /\ queue = <<>>
    /\ handler = [h \in Handlers |-> Idle]
    /\ worker = [w \in Workers |-> Idle]
    /\ refunds = [t \in TaskIds |-> 0]
    /\ runs = [t \in TaskIds |-> 0]
    /\ failures = [t \in TaskIds |-> 0]
    /\ submits = [t \in TaskIds |-> 0]
    /\ dead = [t \in TaskIds |-> {}]

HandlerTo(h, state) == handler' = [handler EXCEPT ![h] = state]
WorkerTo(w, state) == worker' = [worker EXCEPT ![w] = state]

-----------------------------------------------------------------------------
(* The API.                                                                *)

\* CreateTask: the debit and the new row are committed together; a refused
\* debit changes nothing.  With AutoAudit the id is pushed afterwards.
CreateTask(h, t, input, cost) ==
    /\ handler[h] = Idle
    /\ task[t] = NoTask
    /\ task' = [task EXCEPT ![t] =
          [status |-> IF AutoAudit THEN "pending_execution" ELSE "pending_audit",
           retries |-> 0, input |-> input, remote |-> 0, result |-> FALSE,
           cost |-> cost]]
    /\ HandlerTo(h, IF AutoAudit THEN [step |-> "push", task |-> t] ELSE Idle)
    /\ runs' = IF AutoAudit THEN [runs EXCEPT ![t] = @ + 1] ELSE runs
    /\ UNCHANGED <<queue, worker, refunds, failures, submits, dead>>

\* The operations below read the row, check it and go on with their copy.
ReadForSave(h, t, row, push) ==
    /\ handler[h] = Idle
    /\ HandlerTo(h, [step |-> "save", task |-> t, row |-> row, push |-> push])
    /\ runs' = IF push THEN [runs EXCEPT ![t] = @ + 1] ELSE runs
    /\ UNCHANGED <<task, queue, worker, refunds, failures, submits, dead>>

ApproveTask(h, t) ==
    /\ task[t] # NoTask
    /\ task[t].status = "pending_audit"
    /\ runs[t] < MaxRuns
    /\ ReadForSave(h, t, [task[t] EXCEPT !.status = "pending_execution"], TRUE)

UpdateTask(h, t, input) ==
    /\ task[t] # NoTask
    /\ task[t].status \in {"pending_audit", "pending_execution"}
    /\ ReadForSave(h, t, [task[t] EXCEPT !.input = input], FALSE)

\* A plausible slip: the task is reset and not queued.
RetryTaskNotQueued(h, t) ==
    /\ task[t] # NoTask
    /\ task[t].status = "failed"
    /\ runs[t] < MaxRuns
    /\ ReadForSave(h, t, [task[t] EXCEPT !.status = "pending_execution",
                             !.retries = 0, !.result = FALSE], FALSE)

\* The remote id is kept, and nothing is charged.
RetryTask(h, t) ==
    /\ task[t] # NoTask
    /\ task[t].status = "failed"
    /\ runs[t] < MaxRuns
    /\ ReadForSave(h, t, [task[t] EXCEPT !.status = "pending_execution",
                             !.retries = 0, !.result = FALSE], TRUE)

\* Nothing is refunded, and neither the queue nor a worker is told.
CancelTask(h, t) ==
    /\ task[t] # NoTask
    /\ task[t].status \notin {"completed", "failed", "cancelled"}
    /\ ReadForSave(h, t, [task[t] EXCEPT !.status = "cancelled"], FALSE)

\* Save writes every column of the copy.
HandlerSave(h) ==
    LET q == handler[h] IN
    /\ q.step = "save"
    /\ task' = [task EXCEPT ![q.task] = q.row]
    /\ HandlerTo(h, IF q.push THEN [step |-> "push", task |-> q.task] ELSE Idle)
    /\ UNCHANGED <<queue, worker, history>>

HandlerPush(h) ==
    /\ handler[h].step = "push"
    /\ queue' = Append(queue, handler[h].task)
    /\ HandlerTo(h, Idle)
    /\ UNCHANGED <<task, worker, history>>

\* A failed Save or RPush is returned to the caller; what was done stays.
HandlerFails(h) ==
    /\ Failures
    /\ handler[h] # Idle
    /\ HandlerTo(h, Idle)
    /\ UNCHANGED <<task, queue, worker, history>>

-----------------------------------------------------------------------------
(* The worker.  The errors of its own Save and RPush calls are dropped, so *)
(* that it goes on when they fail.                                         *)

Saved(t, row) ==
    \/ task' = [task EXCEPT ![t] = row]
    \/ Failures /\ UNCHANGED task

\* A plausible slip: the id is read from the list and not taken off it.
PopKeepsId(w) ==
    /\ worker[w] = Idle
    /\ queue # <<>>
    /\ failures[Head(queue)] < MaxFailures
    /\ WorkerTo(w, [step |-> "read", task |-> Head(queue)])
    /\ UNCHANGED <<task, queue, handler, history>>

\* StartWorker pops the id and starts a goroutine for it.
Pop(w) ==
    /\ worker[w] = Idle
    /\ queue # <<>>
    /\ failures[Head(queue)] < MaxFailures
    /\ queue' = Tail(queue)
    /\ WorkerTo(w, [step |-> "read", task |-> Head(queue)])
    /\ UNCHANGED <<task, handler, history>>

\* processTask reads the row and looks at nothing in it.  The id of a row
\* that cannot be read is lost.
ReadTask(w) ==
    LET t == worker[w].task IN
    /\ worker[w].step = "read"
    /\ \/ /\ task[t] # NoTask
          /\ WorkerTo(w, [step |-> "start", task |-> t,
                          row |-> [task[t] EXCEPT !.status = "processing"]])
       \/ /\ Failures \/ task[t] = NoTask
          /\ WorkerTo(w, Idle)
    /\ UNCHANGED <<task, queue, handler, history>>

StartTask(w) ==
    LET q == worker[w] IN
    /\ q.step = "start"
    /\ Saved(q.task, q.row)
    /\ WorkerTo(w, [q EXCEPT !.step = "execute"])
    /\ UNCHANGED <<queue, handler, history>>

\* The jiekou executor goes on with the job whose id is stored.
StoredJob(row) == row.input = "jiekou_api" /\ row.remote # 0

Submits(row) == row.input # "local" /\ ~ StoredJob(row)

\* Only the jiekou executor stores the id of the job it has submitted.
Submit(w) ==
    LET q == worker[w] IN
    /\ q.step = "execute"
    /\ submits' = IF Submits(q.row) THEN [submits EXCEPT ![q.task] = @ + 1]
                                    ELSE submits
    /\ WorkerTo(w, IF Submits(q.row) /\ q.row.input = "jiekou_api"
                      THEN [q EXCEPT !.step = "save_remote",
                                     !.row.remote = submits[q.task] + 1]
                      ELSE [q EXCEPT !.step = "poll"])
    /\ UNCHANGED <<task, queue, handler, refunds, runs, failures, dead>>

SaveRemote(w) ==
    LET q == worker[w] IN
    /\ q.step = "save_remote"
    /\ Saved(q.task, q.row)
    /\ WorkerTo(w, [q EXCEPT !.step = "poll"])
    /\ UNCHANGED <<queue, handler, history>>

\* The job is done and its file is stored.  A job that failed stays failed.
Succeed(w) ==
    LET q == worker[w] IN
    /\ q.step = "poll"
    /\ StoredJob(q.row) => q.row.remote \notin dead[q.task]
    /\ WorkerTo(w, [q EXCEPT !.step = "done", !.row.status = "completed",
                             !.row.result = TRUE])
    /\ UNCHANGED <<task, queue, handler, history>>

\* An input without its fields, a refused submission (or an accepted one
\* whose answer says no id), a failed job, a timeout, a failed download.
Fail(w) ==
    LET q == worker[w] IN
    /\ q.step \in {"execute", "poll"}
    /\ failures' = [failures EXCEPT ![q.task] = @ + 1]
    /\ \/ UNCHANGED submits
       \/ /\ q.step = "execute" /\ Submits(q.row)
          /\ submits' = [submits EXCEPT ![q.task] = @ + 1]
    /\ \/ UNCHANGED dead
       \/ /\ q.step = "poll" /\ StoredJob(q.row)
          /\ dead' = [dead EXCEPT ![q.task] = @ \union {q.row.remote}]
    /\ WorkerTo(w, [q EXCEPT !.step = "error"])
    /\ UNCHANGED <<task, queue, handler, refunds, runs>>

Complete(w) ==
    LET q == worker[w] IN
    /\ q.step = "done"
    /\ Saved(q.task, q.row)
    /\ WorkerTo(w, Idle)
    /\ UNCHANGED <<queue, handler, history>>

\* Plausible slips: the test of the retry count is one off.
RetriesOffByOne(row) == row.retries + 1 < MaxRetries

RetriesAtMost(row) == row.retries =< MaxRetries

RetriesLeft(row) == row.retries < MaxRetries

\* A plausible slip: the id is queued before the row is saved.
RequeuePushedFirst(w) ==
    LET q == worker[w] IN
    /\ q.step = "error"
    /\ RetriesLeft(q.row)
    /\ queue' = Append(queue, q.task)
    /\ WorkerTo(w, [q EXCEPT !.step = "give_up", !.row.retries = @ + 1,
                             !.row.status = "pending_execution"])
    /\ UNCHANGED <<task, handler, history>>

\* handleFailure, while retries are left: back to the queue.
Requeue(w) ==
    LET q == worker[w] IN
    \/ /\ q.step = "error"
       /\ RetriesLeft(q.row)
       /\ Saved(q.task, [q.row EXCEPT !.retries = @ + 1,
                                      !.status = "pending_execution"])
       /\ WorkerTo(w, [step |-> "requeue", task |-> q.task])
       /\ UNCHANGED <<queue, handler, history>>
    \/ /\ q.step = "requeue"
       /\ \/ queue' = Append(queue, q.task)
          \/ Failures /\ UNCHANGED queue
       /\ WorkerTo(w, Idle)
       /\ UNCHANGED <<task, handler, history>>

\* handleFailure, when none is left: the refund of a task that cost
\* something, then the save.
LastFailure(w) ==
    LET q == worker[w] IN
    /\ q.step = "error"
    /\ ~ RetriesLeft(q.row)
    /\ WorkerTo(w, [q EXCEPT !.step = IF q.row.cost THEN "refund" ELSE "give_up",
                             !.row.status = "failed"])
    /\ UNCHANGED <<task, queue, handler, history>>

\* A plausible slip: a refund that is not known to be done is tried again.
RefundAgain(w) ==
    LET q == worker[w] IN
    /\ q.step = "refund"
    /\ refunds' = [refunds EXCEPT ![q.task] = @ + 1]
    /\ \/ WorkerTo(w, [q EXCEPT !.step = "give_up"])
       \/ Failures /\ UNCHANGED worker
    /\ UNCHANGED <<task, queue, handler, runs, failures, submits, dead>>

\* AdjustBalance.  Its failure is only logged; a version conflict is one, and
\* needs no failure of the database.
Refund(w) ==
    LET q == worker[w] IN
    /\ q.step = "refund"
    /\ \/ refunds' = [refunds EXCEPT ![q.task] = @ + 1]
       \/ UNCHANGED refunds
    /\ WorkerTo(w, [q EXCEPT !.step = "give_up"])
    /\ UNCHANGED <<task, queue, handler, runs, failures, submits, dead>>

GiveUp(w) ==
    LET q == worker[w] IN
    /\ q.step = "give_up"
    /\ Saved(q.task, q.row)
    /\ WorkerTo(w, Idle)
    /\ UNCHANGED <<queue, handler, history>>

-----------------------------------------------------------------------------

BeginHandler(h, t) ==
    \/ /\ "create" \in Operations
       /\ \E input \in Kinds, cost \in BOOLEAN : CreateTask(h, t, input, cost)
    \/ "approve" \in Operations /\ ApproveTask(h, t)
    \/ "update" \in Operations /\ \E input \in Kinds : UpdateTask(h, t, input)
    \/ "retry" \in Operations /\ RetryTask(h, t)
    \/ "cancel" \in Operations /\ CancelTask(h, t)

ContinueHandler(h) == HandlerSave(h) \/ HandlerPush(h)

ContinueWorker(w) ==
    \/ ReadTask(w)
    \/ StartTask(w)
    \/ Submit(w)
    \/ SaveRemote(w)
    \/ Succeed(w)
    \/ Fail(w)
    \/ Complete(w)
    \/ Requeue(w)
    \/ LastFailure(w)
    \/ Refund(w)
    \/ GiveUp(w)

Next ==
    \/ \E h \in Handlers :
          \/ \E t \in TaskIds : BeginHandler(h, t)
          \/ ContinueHandler(h)
          \/ HandlerFails(h)
    \/ \E w \in Workers : Pop(w) \/ ContinueWorker(w)

Spec == Init /\ [][Next]_vars

\* The runtime runs every goroutine again, the worker's loop goes on popping,
\* and the polling of a remote job ends, by its timeout if not before.
FairSpec ==
    /\ Spec
    /\ \A h \in Handlers : WF_vars(ContinueHandler(h))
    /\ \A w \in Workers : WF_vars(ContinueWorker(w))
    /\ WF_vars(\E w \in Workers : Pop(w))

-----------------------------------------------------------------------------
(* Properties.                                                             *)

StatusIn(t, statuses) == task[t] # NoTask /\ task[t].status \in statuses

\* Every variable stays in its set: whoever saves which copy when, a row is
\* never retried more often than MaxRetries says, and no execution starts
\* from a row that is not there (task_service.go:375-378, 441-442).
TypeOK ==
    /\ task \in [TaskIds -> TaskRow \union {NoTask}]
    /\ queue \in Seq(TaskIds)
    /\ handler \in [Handlers -> HandlerState]
    /\ worker \in [Workers -> WorkerState]
    /\ refunds \in [TaskIds -> Nat]
    /\ runs \in [TaskIds -> Nat]
    /\ failures \in [TaskIds -> Nat]
    /\ submits \in [TaskIds -> Nat]
    /\ dead \in [TaskIds -> SUBSET Nat]

\* Money goes back only after every retry: a refunded task has failed once
\* more than there are retries, whatever copies of the row have been saved
\* over each other meanwhile (task_service.go:438-468).
RefundOnlyAfterRetries ==
    \A t \in TaskIds : refunds[t] > 0 => failures[t] > MaxRetries

\* What makes it so: every row, committed or copied, has been retried at
\* most as often as the task has failed, and an execution that has just
\* failed has one failure more than its copy counts
\* (task_service.go:259-262, 375, 441-451).
RetriesAreFailures ==
    /\ \A t \in TaskIds : task[t] # NoTask => task[t].retries =< failures[t]
    /\ \A h \in Handlers :
          handler[h].step = "save" =>
             handler[h].row.retries =< failures[handler[h].task]
    /\ \A w \in Workers :
          /\ worker[w].step \notin {"idle", "read", "requeue"} =>
                worker[w].row.retries =< failures[worker[w].task]
          /\ worker[w].step = "error" =>
                worker[w].row.retries < failures[worker[w].task]
          /\ worker[w].step = "refund" => failures[worker[w].task] > MaxRetries

\* The places where a run of t is: in the queue, or in a goroutine.
Waiting(t) == {i \in DOMAIN queue : queue[i] = t}
Running(t) == {w \in Workers : worker[w] # Idle /\ worker[w].task = t}

\* A task runs at most once for each request let through to queue it: how
\* often it is queued and how many goroutines have it never adds up to more,
\* whatever is requeued, saved over or let through twice at once
\* (task_service.go:137-146, 159-170, 257-273, 351-371, 446-449).  Two
\* approvals at once are both let through, and so the task may run twice.
RunsDoNotMultiply ==
    \A t \in TaskIds :
       Cardinality(Waiting(t)) + Cardinality(Running(t)) =< runs[t]

\* Each of these runs gives the cost back at most once, whatever fails,
\* however often the task is requeued in it and whichever copies are saved
\* over each other (task_service.go:441-468).
OneRefundPerRun == \A t \in TaskIds : refunds[t] =< runs[t]

\* Somebody goes on to queue the task or to start it.
Scheduled(t) ==
    \/ \E i \in DOMAIN queue : queue[i] = t
    \/ \E h \in Handlers : handler[h].step = "push" /\ handler[h].task = t
    \/ \E w \in Workers :
          worker[w].step \in {"read", "start", "requeue"} /\ worker[w].task = t

\* A task does not wait in vain: when its row says that it waits for
\* execution, its id is queued or on its way to or from the queue, although
\* the two are never written together.  A failed push and an update saved
\* over an execution break it (task_service.go:131-146, 159-170, 257-273,
\* 351-381, 441-451).
WaitingIsScheduled ==
    \A t \in TaskIds : StatusIn(t, {"pending_execution"}) => Scheduled(t)

\* Two runs of a task that are there at once, after two approvals or two
\* retries at once, may each undo the other's count and fail for ever.
RunsTwice(t) == Cardinality(Waiting(t)) + Cardinality(Running(t)) > 1

\* A task waiting for execution is settled in the end, by way of all its
\* retries, or is run twice at once (or has failed as often as the bound
\* allows, which one run at a time does not)
\* (task_service.go:131-146, 159-170, 257-273, 351-381, 438-468).
PendingIsSettled ==
    \A t \in TaskIds :
       StatusIn(t, {"pending_execution"})
          ~> \/ StatusIn(t, {"completed", "failed", "cancelled"})
             \/ RunsTwice(t)
             \/ failures[t] >= MaxFailures

=============================================================================
