------------------------------ MODULE Recovery ------------------------------
(***************************************************************************)
(* What a restart does to the tasks of module Tasks, and the polling       *)
(* manager that takes over those a remote service is working on            *)
(* (task_service.go:301-371, polling_manager.go).                          *)
(*                                                                         *)
(* A crash loses every goroutine, the manager's table and its channels;    *)
(* the tasks table and the Redis list stay.  After it, the worker's loop,  *)
(* the manager's loop and the resumption of old tasks run side by side.    *)
(* A poll runs the executor that the worker runs: its steps are those of   *)
(* an instance of Tasks whose workers are the pollers.  Only the jiekou    *)
(* executor stores a remote id, and without updates of the input only its  *)
(* tasks are polled, so the executor of a poll is that of the row.         *)
(***************************************************************************)
EXTENDS Tasks

CONSTANTS
    Pollers,      \* goroutines of polls; the code starts any number
    MaxPolls,     \* failed polls of a task that are put up with: 5 in the code
    ChanSize,     \* capacity of the manager's channels: 100 in the code
    MaxCrashes,   \* bound: how often the process restarts
    ExtraPolls    \* bound: failed polls counted for a task that is given up,
                  \* before its entry is removed

ASSUME PollsAssumption == MaxPolls \in Nat /\ ChanSize \in Nat \ {0}
ASSUME CrashesAssumption == MaxCrashes \in Nat /\ ExtraPolls \in Nat
ASSUME InputsStayAssumption == "update" \notin Operations
ASSUME PollersAssumption == IsFiniteSet(Pollers)

VARIABLES
    poller,       \* poller[p]: where a poll is, and its copy of the row
    resume,       \* ResumeProcessingTasks: where it is, and the rows it has left
    polled,       \* tasks in the manager's table
    polls,        \* polls[t]: RetryCount of the manager's entry for t
    addChan,      \* ids to be added to the table
    removeChan,   \* ids to be removed from it
    crashes       \* how often the process has restarted

manager == <<polled, polls, addChan, removeChan>>
recoveryVars == <<poller, resume, manager, crashes>>
allVars == <<vars, recoveryVars>>

\* The executor as a poll runs it.
Poll == INSTANCE Tasks WITH Workers <- Pollers, worker <- poller

PollerState ==
    Poll!WorkerState
    \union [step : {"count"}, task : TaskIds, row : TaskRow, seen : Nat]
    \union [step : {"test"}, task : TaskIds, row : TaskRow]
    \union [step : {"remove"}, task : TaskIds]

ResumeState ==
    [step : {"list", "done"}]
    \union [step : {"each"}, rows : SUBSET (TaskIds \X TaskRow)]
    \union [step : {"push"}, task : TaskIds, rows : SUBSET (TaskIds \X TaskRow)]

RecoveryInit ==
    /\ Init
    /\ poller = [p \in Pollers |-> Idle]
    /\ resume = [step |-> "list"]
    /\ polled = {}
    /\ polls = [t \in TaskIds |-> 0]
    /\ addChan = <<>>
    /\ removeChan = <<>>
    /\ crashes = 0

PollerTo(p, state) == poller' = [poller EXCEPT ![p] = state]

-----------------------------------------------------------------------------
(* Restart and resumption.                                                 *)

\* The process ends at any point and is started again.
Crash ==
    /\ crashes < MaxCrashes
    /\ crashes' = crashes + 1
    /\ handler' = [h \in Handlers |-> Idle]
    /\ worker' = [w \in Workers |-> Idle]
    /\ poller' = [p \in Pollers |-> Idle]
    /\ resume' = [step |-> "list"]
    /\ polled' = {}
    /\ polls' = [t \in TaskIds |-> 0]
    /\ addChan' = <<>>
    /\ removeChan' = <<>>
    /\ UNCHANGED <<task, queue, history>>

\* ResumeProcessingTasks reads the rows in processing, those the worker has
\* just started among them.
ListProcessing ==
    /\ resume.step = "list"
    /\ resume' = [step |-> "each",
                  rows |-> {<<t, task[t]>> : t \in
                               {u \in TaskIds : StatusIn(u, {"processing"})}}]
    /\ UNCHANGED <<vars, poller, manager, crashes>>

ListFails ==
    /\ Failures
    /\ resume.step = "list"
    /\ resume' = [step |-> "done"]
    /\ UNCHANGED <<vars, poller, manager, crashes>>

\* A plausible slip: tasks are polled whether or not they were submitted.
SubmittedAnyway(row) == TRUE

Submitted(row) == row.remote # 0

\* PollingMgr.Add, which waits while the channel is full.
ResumePolling ==
    /\ resume.step = "each"
    /\ Len(addChan) < ChanSize
    /\ \E r \in resume.rows :
          /\ Submitted(r[2])
          /\ addChan' = Append(addChan, r[1])
          /\ resume' = [resume EXCEPT !.rows = @ \ {r}]
    /\ UNCHANGED <<vars, poller, polled, polls, removeChan, crashes>>

\* A plausible slip: the interrupted execution counts as a retry.
ResumeResetCounts ==
    /\ resume.step = "each"
    /\ \E r \in resume.rows :
          /\ ~ Submitted(r[2])
          /\ Saved(r[1], [r[2] EXCEPT !.status = "pending_execution", !.retries = @ + 1])
          /\ resume' = [step |-> "push", task |-> r[1], rows |-> resume.rows \ {r}]
    /\ UNCHANGED <<queue, handler, worker, history, poller, manager, crashes>>

\* The copy of the listing is saved, and the id queued in a second step.
ResumeReset ==
    /\ resume.step = "each"
    /\ \E r \in resume.rows :
          /\ ~ Submitted(r[2])
          /\ Saved(r[1], [r[2] EXCEPT !.status = "pending_execution"])
          /\ resume' = [step |-> "push", task |-> r[1], rows |-> resume.rows \ {r}]
    /\ UNCHANGED <<queue, handler, worker, history, poller, manager, crashes>>


ResumePush ==
    /\ resume.step = "push"
    /\ \/ queue' = Append(queue, resume.task)
       \/ Failures /\ UNCHANGED queue
    /\ resume' = [step |-> "each", rows |-> resume.rows]
    /\ UNCHANGED <<task, handler, worker, history, poller, manager, crashes>>

-----------------------------------------------------------------------------
(* The loop of the polling manager.                                        *)

\* An entry for a task whose row can be read; an id that is there already,
\* or cannot be read, is dropped.
AddEntry ==
    /\ addChan # <<>>
    /\ addChan' = Tail(addChan)
    /\ \/ /\ Head(addChan) \notin polled
          /\ polled' = polled \union {Head(addChan)}
          /\ polls' = [polls EXCEPT ![Head(addChan)] = 0]
       \/ /\ Failures \/ Head(addChan) \in polled
          /\ UNCHANGED <<polled, polls>>
    /\ UNCHANGED <<vars, poller, resume, removeChan, crashes>>

\* A plausible slip: the loop waits for the polls a tick has started.
RemoveEntryAfterPolls ==
    /\ removeChan # <<>>
    /\ \A p \in Pollers : poller[p] = Idle
    /\ removeChan' = Tail(removeChan)
    /\ polled' = polled \ {Head(removeChan)}
    /\ UNCHANGED <<vars, poller, resume, polls, addChan, crashes>>

RemoveEntry ==
    /\ removeChan # <<>>
    /\ removeChan' = Tail(removeChan)
    /\ polled' = polled \ {Head(removeChan)}
    /\ UNCHANGED <<vars, poller, resume, polls, addChan, crashes>>

\* pollAll starts a poll of every entry at each tick, whether or not an
\* earlier poll of it is still running.
Tick(p, t) ==
    /\ poller[p] = Idle
    /\ t \in polled
    /\ failures[t] < MaxFailures
    /\ polls[t] =< MaxPolls + ExtraPolls
    /\ PollerTo(p, [step |-> "read", task |-> t])
    /\ UNCHANGED <<vars, resume, manager, crashes>>

-----------------------------------------------------------------------------
(* pollTask.                                                               *)

\* A row that cannot be read takes the task out of the table.
PollRead(p) ==
    LET t == poller[p].task IN
    /\ poller[p].step = "read"
    /\ \/ PollerTo(p, [step |-> "execute", task |-> t, row |-> task[t]])
       \/ Failures /\ PollerTo(p, [step |-> "remove", task |-> t])
    /\ UNCHANGED <<vars, resume, manager, crashes>>

\* Execute, as in Tasks; it saves a remote id and nothing else of the row.
PollExecute(p) ==
    /\ \/ Poll!Submit(p)
       \/ Poll!SaveRemote(p)
       \/ Poll!Succeed(p)
       \/ Poll!Fail(p)
    /\ UNCHANGED <<worker, resume, manager, crashes>>

PollComplete(p) ==
    LET q == poller[p] IN
    /\ q.step = "done"
    /\ Saved(q.task, q.row)
    /\ PollerTo(p, [step |-> "remove", task |-> q.task])
    /\ UNCHANGED <<queue, handler, worker, history, resume, manager, crashes>>

\* RetryCount++ on an entry that all polls of the task share, without a
\* lock: read, written and tested in steps of their own.
PollFailed(p) ==
    LET q == poller[p] IN
    /\ q.step = "error"
    /\ PollerTo(p, [step |-> "count", task |-> q.task, row |-> q.row,
                    seen |-> polls[q.task]])
    /\ UNCHANGED <<vars, resume, manager, crashes>>

CountPoll(p) ==
    LET q == poller[p] IN
    /\ q.step = "count"
    /\ polls' = [polls EXCEPT ![q.task] = q.seen + 1]
    /\ PollerTo(p, [step |-> "test", task |-> q.task, row |-> q.row])
    /\ UNCHANGED <<vars, resume, polled, addChan, removeChan, crashes>>

\* A plausible slip: the last poll that is put up with is not.
PollsReached(t) == polls[t] >= MaxPolls

PollsExhausted(t) == polls[t] > MaxPolls

TestPolls(p) ==
    LET q == poller[p] IN
    /\ q.step = "test"
    /\ \/ /\ ~ PollsExhausted(q.task)
          /\ PollerTo(p, Idle)
       \/ /\ PollsExhausted(q.task)
          /\ PollerTo(p, [step |-> IF q.row.cost THEN "refund" ELSE "give_up",
                          task |-> q.task,
                          row |-> [q.row EXCEPT !.status = "failed"]])
    /\ UNCHANGED <<vars, resume, manager, crashes>>

PollRefund(p) ==
    /\ Poll!Refund(p)
    /\ UNCHANGED <<worker, resume, manager, crashes>>

PollGiveUp(p) ==
    LET q == poller[p] IN
    /\ q.step = "give_up"
    /\ Saved(q.task, q.row)
    /\ PollerTo(p, [step |-> "remove", task |-> q.task])
    /\ UNCHANGED <<queue, handler, worker, history, resume, manager, crashes>>

\* PollingMgr.Remove, which waits while the channel is full.
PollRemove(p) ==
    /\ poller[p].step = "remove"
    /\ Len(removeChan) < ChanSize
    /\ removeChan' = Append(removeChan, poller[p].task)
    /\ PollerTo(p, Idle)
    /\ UNCHANGED <<vars, resume, polled, polls, addChan, crashes>>

-----------------------------------------------------------------------------

Resume == ListProcessing \/ ListFails \/ ResumePolling \/ ResumeReset \/ ResumePush

ManagerLoop == AddEntry \/ RemoveEntry

ContinuePoll(p) ==
    \/ PollRead(p)
    \/ PollExecute(p)
    \/ PollComplete(p)
    \/ PollFailed(p)
    \/ CountPoll(p)
    \/ TestPolls(p)
    \/ PollRefund(p)
    \/ PollGiveUp(p)
    \/ PollRemove(p)

RecoveryNext ==
    \/ Next /\ UNCHANGED recoveryVars
    \/ Crash
    \/ Resume
    \/ ManagerLoop
    \/ \E p \in Pollers : ContinuePoll(p) \/ \E t \in TaskIds : Tick(p, t)

RecoverySpec == RecoveryInit /\ [][RecoveryNext]_allVars

\* The runtime runs every goroutine again and the ticker goes on ticking.
FairRecoverySpec ==
    /\ RecoverySpec
    /\ \A h \in Handlers : WF_allVars(ContinueHandler(h) /\ UNCHANGED recoveryVars)
    /\ \A w \in Workers : WF_allVars(ContinueWorker(w) /\ UNCHANGED recoveryVars)
    /\ WF_allVars(\E w \in Workers : Pop(w) /\ UNCHANGED recoveryVars)
    /\ WF_allVars(Resume)
    /\ WF_allVars(AddEntry) /\ WF_allVars(RemoveEntry)
    /\ \A p \in Pollers : WF_allVars(ContinuePoll(p))
    /\ \A t \in TaskIds : WF_allVars(\E p \in Pollers : Tick(p, t))

-----------------------------------------------------------------------------
(* Properties.                                                             *)

\* Every variable stays in its set: whatever copy a resumption or a poll
\* saves over a row, it is a row of the table, retried no more often than
\* MaxRetries says (task_service.go:336-337), and a poll starts only from a
\* row that is there (polling_manager.go:130-134).
RecoveryTypeOK ==
    /\ TypeOK
    /\ poller \in [Pollers -> PollerState]
    /\ resume \in ResumeState
    /\ polled \subseteq TaskIds
    /\ polls \in [TaskIds -> Nat]
    /\ addChan \in Seq(TaskIds) /\ removeChan \in Seq(TaskIds)
    /\ crashes \in 0..MaxCrashes

\* Money goes back only after the failures that were to be put up with, those
\* of the executions or those of the polls, even when restarts make the worker
\* and the polls share a task and its polls race for their common count
\* (task_service.go:441-467, polling_manager.go:157-178).
RefundOnlyAfterFailures ==
    \A t \in TaskIds :
       refunds[t] > 0 => failures[t] > MaxRetries \/ failures[t] > MaxPolls

\* A task is polled only after the remote service has accepted a job for it:
\* no poll is the first to pay for one, whatever copies resumption, worker,
\* requests and earlier polls have saved over the row meanwhile
\* (task_service.go:325-340, polling_manager.go:101-132).
PollsFollowSubmission ==
    \A p \in Pollers : poller[p].step # "idle" => submits[poller[p].task] > 0


\* Every poll ends: one that hands its task to the manager's loop waits while
\* the channel is full, and the loop, which starts the polls, never waits for
\* one of them or for the resumption (polling_manager.go:42-99, 101-181).
PollsEnd == \A p \in Pollers : poller[p] # Idle ~> poller[p] = Idle

\* A resumed task without a remote id was not submitted: "maybe it crashed
\* before submission or during submission. Safe to re-try (re-queue)."
\* (task_service.go:322).
SafeToRetry ==
    \A t \in TaskIds : submits[t] =< failures[t] + 1

=============================================================================
