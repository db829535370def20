--------------------------- MODULE RecoveryProofs ---------------------------
(***************************************************************************)
(* Proofs about Recovery, for any number of tasks, requests, executions,   *)
(* polls and crashes, and channels of any size.                            *)
(***************************************************************************)
EXTENDS Recovery, TasksProofs

-----------------------------------------------------------------------------
(* What a poll holds, by the step it is at.                                *)

\* A poll that executes is in a state of an execution.
LEMMA PollHoldsRow ==
    ASSUME NEW q \in PollerState, q.step \in RowSteps
    PROVE  /\ q \in [step : RowSteps, task : TaskIds, row : TaskRow]
           /\ q \in WorkerState /\ q.task \in TaskIds /\ q.row \in TaskRow
BY DEF PollerState, Poll!WorkerState, WorkerState, Poll!Idle, RowSteps,
       Poll!TaskRow, TaskRow, Poll!Statuses, Statuses

\* A poll that has failed still holds the row while it counts and tests.
LEMMA PollHoldsCount ==
    ASSUME NEW q \in PollerState, q.step \in {"count", "test"}
    PROVE  /\ q.task \in TaskIds /\ q.row \in TaskRow
           /\ q.step = "count" => q.seen \in Nat
BY DEF PollerState, Poll!WorkerState, Poll!Idle

\* One that has no row names its task.
LEMMA PollHoldsTask ==
    ASSUME NEW q \in PollerState, q.step \in {"read", "remove"}
    PROVE  q.task \in TaskIds
BY DEF PollerState, Poll!WorkerState, Poll!Idle

\* The states of polls contain those of executions.
LEMMA ExecutionsArePolls == WorkerState \subseteq PollerState /\ Idle \in PollerState
BY DEF PollerState, Poll!WorkerState, WorkerState, Poll!Idle, Idle,
       Poll!TaskRow, TaskRow, Poll!Statuses, Statuses

\* The steps of a poll that are steps of an execution, by what they do.
LEMMA PollIsExecution ==
    ASSUME NEW p \in Pollers
    PROVE  /\ Poll!Submit(p) =>
                /\ poller[p].step = "execute"
                /\ \/ submits' = submits
                   \/ submits' = [submits EXCEPT ![poller[p].task] = @ + 1]
                /\ \/ PollerTo(p, [poller[p] EXCEPT !.step = "poll"])
                   \/ /\ PollerTo(p, [poller[p] EXCEPT !.step = "save_remote",
                                     !.row.remote = submits[poller[p].task] + 1])
                      /\ submits' = [submits EXCEPT ![poller[p].task] = @ + 1]
                /\ UNCHANGED <<task, queue, handler, refunds, runs, failures, dead>>
           /\ Poll!SaveRemote(p) =>
                /\ poller[p].step = "save_remote"
                /\ Saved(poller[p].task, poller[p].row)
                /\ PollerTo(p, [poller[p] EXCEPT !.step = "poll"])
                /\ UNCHANGED <<queue, handler, history>>
           /\ Poll!Succeed(p) =>
                /\ poller[p].step = "poll"
                /\ PollerTo(p, [poller[p] EXCEPT !.step = "done",
                                  !.row.status = "completed", !.row.result = TRUE])
                /\ UNCHANGED <<task, queue, handler, history>>
           /\ Poll!Fail(p) =>
                /\ poller[p].step \in {"execute", "poll"}
                /\ failures' = [failures EXCEPT ![poller[p].task] = @ + 1]
                /\ \/ submits' = submits
                   \/ submits' = [submits EXCEPT ![poller[p].task] = @ + 1]
                /\ \/ dead' = dead
                   \/ dead' = [dead EXCEPT ![poller[p].task] =
                                 @ \union {poller[p].row.remote}]
                /\ PollerTo(p, [poller[p] EXCEPT !.step = "error"])
                /\ UNCHANGED <<task, queue, handler, refunds, runs>>
           /\ Poll!Refund(p) =>
                /\ poller[p].step = "refund"
                /\ \/ refunds' = refunds
                   \/ refunds' = [refunds EXCEPT ![poller[p].task] = @ + 1]
                /\ PollerTo(p, [poller[p] EXCEPT !.step = "give_up"])
                /\ UNCHANGED <<task, queue, handler, runs, failures, submits, dead>>
BY DEF Poll!Submit, Poll!SaveRemote, Poll!Succeed, Poll!Fail, Poll!Refund,
       Poll!WorkerTo, PollerTo, Poll!Saved, Saved, Poll!history, history

-----------------------------------------------------------------------------
(* Types.  A poll goes on with the row it reads, so the types need that     *)
(* whatever the manager knows is in the table, and that rows stay there.    *)

IdsKnown ==
    /\ \A t \in polled : task[t] # NoTask
    /\ \A i \in DOMAIN addChan : task[addChan[i]] # NoTask
    /\ \A p \in Pollers : poller[p].step = "read" => task[poller[p].task] # NoTask
    /\ resume.step \in {"each", "push"} =>
          \A r \in resume.rows : task[r[1]] # NoTask

\* No step takes a row away.
KeepsRows == \A t \in TaskIds : task[t] # NoTask => task'[t] # NoTask

\* A row that is saved is a row.
LEMMA SavedKeepsRows ==
    ASSUME TypeOK, NEW t \in TaskIds, NEW row \in TaskRow, Saved(t, row)
    PROVE  task' \in [TaskIds -> TaskRow \union {NoTask}] /\ KeepsRows
BY NoTaskAssumption DEF TypeOK, Saved, KeepsRows

\* Neither requests nor executions take a row away.
LEMMA TasksKeepRows ==
    ASSUME TypeOK, [Next]_vars
    PROVE  TypeOK' /\ KeepsRows
<1>1. ASSUME NEW h \in Handlers, NEW t \in TaskIds, BeginHandler(h, t)
      PROVE  TypeOK' /\ KeepsRows
  <2>1. CASE task' = task
    BY <1>1, <2>1, BeginHandlerType DEF KeepsRows
  <2>2. ASSUME NEW input \in Kinds, NEW cost \in BOOLEAN, CreateTask(h, t, input, cost)
        PROVE  KeepsRows
    BY <2>2 DEF CreateTask, KeepsRows, TypeOK
  <2> QED
    BY <1>1, <2>1, <2>2, BeginHandlerType
    DEF BeginHandler, ApproveTask, UpdateTask, RetryTask, CancelTask, ReadForSave
<1>2. ASSUME NEW h \in Handlers, ContinueHandler(h) \/ HandlerFails(h)
      PROVE  TypeOK' /\ KeepsRows
  <2>1. CASE HandlerSave(h)
    <3>1. handler[h].task \in TaskIds /\ handler[h].row \in TaskRow
      BY <2>1, HandlerHoldsRow DEF TypeOK, HandlerSave
    <3>2. Saved(handler[h].task, handler[h].row)
      BY <2>1 DEF HandlerSave, Saved
    <3> QED
      BY <1>2, <3>1, <3>2, SavedKeepsRows, ContinueHandlerType
  <2>2. CASE HandlerPush(h) \/ HandlerFails(h)
    BY <1>2, <2>2, ContinueHandlerType DEF HandlerPush, HandlerFails, KeepsRows
  <2> QED
    BY <1>2, <2>1, <2>2 DEF ContinueHandler
<1>3. ASSUME NEW w \in Workers, Pop(w) \/ ContinueWorker(w)
      PROVE  TypeOK' /\ KeepsRows
  <2> DEFINE q == worker[w]
  <2>1. q \in WorkerState
    BY DEF TypeOK
  <2>2. q.step \in RowSteps => q.task \in TaskIds /\ q.row \in TaskRow
    BY <2>1, WorkerHoldsRow DEF RowSteps
  <2>3. CASE StartTask(w) \/ SaveRemote(w) \/ Complete(w) \/ GiveUp(w)
    <3>1. q.step \in RowSteps /\ Saved(q.task, q.row)
      BY <2>3 DEF StartTask, SaveRemote, Complete, GiveUp, RowSteps
    <3> QED
      BY <1>3, <2>2, <3>1, SavedKeepsRows, WorkerType
  <2>4. CASE q.step = "error" /\ Requeue(w)
    <3>1. [q.row EXCEPT !.retries = @ + 1, !.status = "pending_execution"] \in TaskRow
      BY <2>2, <2>4, RowAssignments DEF Requeue, RowSteps, Statuses
    <3>2. Saved(q.task, [q.row EXCEPT !.retries = @ + 1,
                                      !.status = "pending_execution"])
      BY <2>4 DEF Requeue
    <3> QED
      BY <1>3, <2>2, <2>4, <3>1, <3>2, SavedKeepsRows, WorkerType DEF RowSteps
  <2>5. CASE \/ Pop(w) \/ ReadTask(w) \/ Submit(w) \/ Succeed(w) \/ Fail(w)
             \/ (q.step = "requeue" /\ Requeue(w)) \/ LastFailure(w) \/ Refund(w)
    <3>1. task' = task
      BY <2>5 DEF Pop, ReadTask, Submit, Succeed, Fail, Requeue, LastFailure, Refund
    <3> QED
      BY <1>3, <3>1, WorkerType DEF KeepsRows
  <2> QED
    BY <1>3, <2>3, <2>4, <2>5 DEF ContinueWorker, Requeue
<1>4. CASE UNCHANGED vars
  BY <1>4 DEF vars, TypeOK, KeepsRows
<1> QED
  BY <1>1, <1>2, <1>3, <1>4 DEF Next

\* What is known stays known when rows stay and nothing new is named.
LEMMA KnownStays ==
    ASSUME RecoveryTypeOK, IdsKnown, KeepsRows, UNCHANGED recoveryVars, TypeOK'
    PROVE  RecoveryTypeOK' /\ IdsKnown'
<1>1. \A p \in Pollers : poller[p].step = "read" => poller[p].task \in TaskIds
  BY PollHoldsTask DEF RecoveryTypeOK
<1>2. resume.step \in {"each", "push"} => \A r \in resume.rows : r[1] \in TaskIds
  BY DEF RecoveryTypeOK, ResumeState
<1>3. \A i \in DOMAIN addChan : addChan[i] \in TaskIds
  BY DEF RecoveryTypeOK
<1>4. \A t \in polled : t \in TaskIds
  BY DEF RecoveryTypeOK
<1>5. UNCHANGED <<poller, resume, polled, polls, addChan, removeChan, crashes>>
  BY DEF recoveryVars, manager
<1>6. RecoveryTypeOK'
  BY <1>5 DEF RecoveryTypeOK
<1>7. IdsKnown'
  BY <1>1, <1>2, <1>3, <1>4, <1>5 DEF IdsKnown, KeepsRows
<1> QED
  BY <1>6, <1>7

\* A restart forgets what was known.
LEMMA CrashTypes ==
    ASSUME RecoveryTypeOK, IdsKnown, Crash
    PROVE  RecoveryTypeOK' /\ IdsKnown'
<1>1. TypeOK'
  BY DEF RecoveryTypeOK, Crash, TypeOK, HandlerState, WorkerState, history
<1>2. /\ poller' \in [Pollers -> PollerState]
      /\ \A p \in Pollers : poller'[p].step = "idle"
  BY ExecutionsArePolls DEF Crash, Idle
<1>3. resume' \in ResumeState /\ resume'.step = "list"
  BY DEF Crash, ResumeState
<1>4. /\ polled' = {} /\ polls' \in [TaskIds -> Nat] /\ addChan' = <<>>
      /\ removeChan' = <<>>
  BY DEF Crash
<1>5. crashes' \in 0..MaxCrashes
  BY CrashesAssumption DEF RecoveryTypeOK, Crash
<1>6. <<>> \in Seq(TaskIds)
  OBVIOUS
<1> QED
  BY <1>1, <1>2, <1>3, <1>4, <1>5, <1>6 DEF RecoveryTypeOK, IdsKnown

\* Adding to the end of a channel, and taking from its front.
LEMMA Channels ==
    ASSUME NEW chan \in Seq(TaskIds)
    PROVE  /\ \A t \in TaskIds :
                /\ Append(chan, t) \in Seq(TaskIds)
                /\ \A i \in DOMAIN Append(chan, t) :
                      \/ i \in DOMAIN chan /\ Append(chan, t)[i] = chan[i]
                      \/ Append(chan, t)[i] = t
           /\ chan # <<>> =>
                /\ Head(chan) \in TaskIds /\ Head(chan) = chan[1]
                /\ 1 \in DOMAIN chan
                /\ Tail(chan) \in Seq(TaskIds)
                /\ \A i \in DOMAIN Tail(chan) :
                      i + 1 \in DOMAIN chan /\ Tail(chan)[i] = chan[i + 1]
OBVIOUS

\* The resumption goes on with rows of the table.
LEMMA ResumeTypes ==
    ASSUME RecoveryTypeOK, IdsKnown, Resume
    PROVE  RecoveryTypeOK' /\ IdsKnown'
<1>0. /\ TypeOK /\ addChan \in Seq(TaskIds)
      /\ resume \in ResumeState
  BY DEF RecoveryTypeOK
<1>1. resume.step \in {"each", "push"} => resume.rows \subseteq TaskIds \X TaskRow
  BY <1>0 DEF ResumeState
<1>2. ASSUME UNCHANGED <<vars, poller, manager, crashes>>, resume' \in ResumeState,
             resume'.step \in {"each", "push"} =>
                \A r \in resume'.rows : task[r[1]] # NoTask
      PROVE  RecoveryTypeOK' /\ IdsKnown'
  <2>1. TypeOK' /\ task' = task
    BY <1>0, <1>2 DEF vars, TypeOK
  <2> QED
    BY <1>2, <2>1 DEF RecoveryTypeOK, IdsKnown, manager
<1>3. CASE ListProcessing
  <2> DEFINE rows == {<<t, task[t]>> : t \in
                         {u \in TaskIds : StatusIn(u, {"processing"})}}
  <2>1. rows \subseteq TaskIds \X TaskRow
    BY <1>0 DEF StatusIn, TypeOK
  <2>2. \A r \in rows : task[r[1]] # NoTask
    BY DEF StatusIn
  <2>3. resume' = [step |-> "each", rows |-> rows]
    BY <1>3 DEF ListProcessing
  <2> HIDE DEF rows
  <2>4. [step |-> "each", rows |-> rows] \in ResumeState
    BY <2>1 DEF ResumeState
  <2> QED
    BY <1>2, <1>3, <2>2, <2>3, <2>4 DEF ListProcessing
<1>4. CASE ListFails
  <2>1. resume' \in ResumeState /\ resume'.step = "done"
    BY <1>4 DEF ListFails, ResumeState
  <2> QED
    BY <1>2, <1>4, <2>1 DEF ListFails
<1>5. CASE ResumePolling
  <2>1. PICK r \in resume.rows :
           /\ addChan' = Append(addChan, r[1])
           /\ resume' = [resume EXCEPT !.rows = @ \ {r}]
    BY <1>5 DEF ResumePolling
  <2>2. resume.step = "each"
    BY <1>5 DEF ResumePolling
  <2>3. r[1] \in TaskIds /\ task[r[1]] # NoTask
    BY <1>1, <2>2 DEF IdsKnown
  <2>4. resume' \in ResumeState /\ resume'.rows \subseteq resume.rows
    BY <1>0, <2>1, <2>2 DEF ResumeState
  <2>5. /\ addChan' \in Seq(TaskIds)
        /\ \A i \in DOMAIN addChan' :
              \/ i \in DOMAIN addChan /\ addChan'[i] = addChan[i]
              \/ addChan'[i] = r[1]
    BY <1>0, <2>1, <2>2, <2>3, Channels
  <2>6. TypeOK' /\ task' = task
    BY <1>0, <1>5 DEF ResumePolling, vars, TypeOK
  <2>7. UNCHANGED <<poller, polled, polls, removeChan, crashes>>
    BY <1>5 DEF ResumePolling
  <2>8. RecoveryTypeOK'
    BY <2>4, <2>5, <2>6, <2>7 DEF RecoveryTypeOK
  <2>9. IdsKnown'
    BY <2>2, <2>3, <2>4, <2>5, <2>6, <2>7 DEF IdsKnown
  <2> QED
    BY <2>8, <2>9
<1>6. CASE ResumeReset
  <2>1. PICK r \in resume.rows :
           /\ Saved(r[1], [r[2] EXCEPT !.status = "pending_execution"])
           /\ resume' = [step |-> "push", task |-> r[1], rows |-> resume.rows \ {r}]
    BY <1>6 DEF ResumeReset
  <2>2. r[1] \in TaskIds /\ r[2] \in TaskRow
    BY <1>1, <1>6 DEF ResumeReset
  <2>3. [r[2] EXCEPT !.status = "pending_execution"] \in TaskRow
    BY <2>2, RowAssignments DEF Statuses
  <2>4. task' \in [TaskIds -> TaskRow \union {NoTask}] /\ KeepsRows
    BY <1>0, <2>1, <2>2, <2>3, SavedKeepsRows
  <2>5. resume' \in ResumeState /\ resume'.rows \subseteq resume.rows
    BY <1>1, <1>6, <2>1, <2>2 DEF ResumeState, ResumeReset
  <2>6. TypeOK' /\ UNCHANGED <<poller, polled, polls, addChan, removeChan, crashes>>
    BY <1>0, <1>6, <2>4 DEF ResumeReset, TypeOK, history, manager
  <2>7. RecoveryTypeOK'
    BY <2>5, <2>6 DEF RecoveryTypeOK
  <2>8. \A x \in resume.rows : x[1] \in TaskIds /\ task[x[1]] # NoTask
    BY <1>1, <1>6 DEF ResumeReset, IdsKnown
  <2>9. \A p \in Pollers : poller[p].step = "read" => poller[p].task \in TaskIds
    BY PollHoldsTask DEF RecoveryTypeOK
  <2>10. IdsKnown'
    <3>1. \A t \in polled' : task'[t] # NoTask
      BY <2>4, <2>6 DEF IdsKnown, KeepsRows, RecoveryTypeOK
    <3>2. \A i \in DOMAIN addChan' : addChan'[i] \in TaskIds
      BY <1>0, <2>6
    <3>3. \A i \in DOMAIN addChan' : task'[addChan'[i]] # NoTask
      BY <2>4, <2>6, <3>2 DEF IdsKnown, KeepsRows
    <3>4. \A p \in Pollers : poller'[p].step = "read" => task'[poller'[p].task] # NoTask
      BY <2>4, <2>6, <2>9 DEF IdsKnown, KeepsRows
    <3>5. \A x \in resume'.rows : task'[x[1]] # NoTask
      BY <2>4, <2>5, <2>8 DEF KeepsRows
    <3> QED
      BY <3>1, <3>3, <3>4, <3>5 DEF IdsKnown
  <2> QED
    BY <2>7, <2>10
<1>7. CASE ResumePush
  <2>1. resume.task \in TaskIds /\ resume.rows \subseteq TaskIds \X TaskRow
    BY <1>0, <1>7 DEF ResumePush, ResumeState
  <2>2. queue' \in Seq(TaskIds)
    <3>1. queue' = Append(queue, resume.task) \/ queue' = queue
      BY <1>7 DEF ResumePush
    <3>2. queue \in Seq(TaskIds)
      BY <1>0 DEF TypeOK
    <3> QED
      BY <2>1, <3>1, <3>2
  <2>3. resume' = [step |-> "each", rows |-> resume.rows]
    BY <1>7 DEF ResumePush
  <2>4. resume' \in ResumeState
    BY <2>1, <2>3 DEF ResumeState
  <2>5. TypeOK' /\ UNCHANGED <<task, poller, polled, polls, addChan, removeChan, crashes>>
    BY <1>0, <1>7, <2>2 DEF ResumePush, TypeOK, history, manager
  <2>6. resume.step = "push" /\ resume'.rows = resume.rows
    BY <1>7, <2>3 DEF ResumePush
  <2> QED
    BY <2>4, <2>5, <2>6 DEF RecoveryTypeOK, IdsKnown
<1> QED
  BY <1>3, <1>4, <1>5, <1>6, <1>7 DEF Resume

\* The manager's loop names what was in its channel, and a tick what is in
\* its table.
LEMMA ManagerTypes ==
    ASSUME RecoveryTypeOK, IdsKnown,
           ManagerLoop \/ \E p \in Pollers, t \in TaskIds : Tick(p, t)
    PROVE  RecoveryTypeOK' /\ IdsKnown'
<1>0. /\ TypeOK /\ addChan \in Seq(TaskIds)
      /\ removeChan \in Seq(TaskIds)
  BY DEF RecoveryTypeOK
<1>1. TypeOK' /\ task' = task
  BY <1>0 DEF ManagerLoop, AddEntry, RemoveEntry, Tick, vars, TypeOK
<1>2. CASE AddEntry
  <2>1. /\ addChan # <<>> /\ addChan' = Tail(addChan)
        /\ UNCHANGED <<poller, resume, removeChan, crashes>>
    BY <1>2 DEF AddEntry
  <2>2. /\ Head(addChan) \in TaskIds /\ task[Head(addChan)] # NoTask
        /\ addChan' \in Seq(TaskIds)
        /\ \A i \in DOMAIN addChan' :
              i + 1 \in DOMAIN addChan /\ addChan'[i] = addChan[i + 1]
    BY <1>0, <2>1, Channels DEF IdsKnown
  <2>3. /\ polled' \subseteq polled \union {Head(addChan)}
        /\ polls' \in [TaskIds -> Nat]
    BY <1>2, <2>2 DEF AddEntry, RecoveryTypeOK
  <2>4. RecoveryTypeOK'
    BY <1>1, <2>1, <2>2, <2>3 DEF RecoveryTypeOK
  <2>5. \A i \in DOMAIN addChan' : task[addChan'[i]] # NoTask
    BY <2>2 DEF IdsKnown
  <2>6. IdsKnown'
    BY <1>1, <2>1, <2>2, <2>3, <2>5 DEF IdsKnown
  <2> QED
    BY <2>4, <2>6
<1>3. CASE RemoveEntry
  <2>1. removeChan' \in Seq(TaskIds)
    BY <1>0, <1>3, Channels DEF RemoveEntry
  <2>2. polled' \subseteq polled /\ UNCHANGED <<poller, resume, polls, addChan, crashes>>
    BY <1>3 DEF RemoveEntry
  <2> QED
    BY <1>1, <2>1, <2>2 DEF RecoveryTypeOK, IdsKnown
<1>4. ASSUME NEW p \in Pollers, NEW t \in TaskIds, Tick(p, t)
      PROVE  RecoveryTypeOK' /\ IdsKnown'
  <2>1. [step |-> "read", task |-> t] \in PollerState
    BY ExecutionsArePolls DEF WorkerState
  <2>2. /\ poller' = [poller EXCEPT ![p] = [step |-> "read", task |-> t]]
        /\ t \in polled
        /\ UNCHANGED <<resume, polled, polls, addChan, removeChan, crashes>>
    BY <1>4 DEF Tick, PollerTo, manager
  <2>3. RecoveryTypeOK'
    BY <1>1, <2>1, <2>2 DEF RecoveryTypeOK
  <2>4. IdsKnown'
    BY <1>1, <2>2 DEF IdsKnown, RecoveryTypeOK
  <2> QED
    BY <2>3, <2>4
<1> QED
  BY <1>2, <1>3, <1>4 DEF ManagerLoop

\* A poll that moves on, other than to read, names nothing new.
LEMMA PollerMoves ==
    ASSUME RecoveryTypeOK, IdsKnown, TypeOK', KeepsRows,
           NEW p \in Pollers, NEW state \in PollerState, state.step # "read",
           PollerTo(p, state), UNCHANGED <<resume, polled, addChan, crashes>>,
           polls' \in [TaskIds -> Nat],
           removeChan' \in Seq(TaskIds)
    PROVE  RecoveryTypeOK' /\ IdsKnown'
<1>1. /\ poller' \in [Pollers -> PollerState]
      /\ poller'[p] = state /\ \A k \in Pollers : k # p => poller'[k] = poller[k]
  BY DEF PollerTo, RecoveryTypeOK
<1>2. RecoveryTypeOK'
  BY <1>1 DEF RecoveryTypeOK
<1>3. \A k \in Pollers : poller[k].step = "read" => poller[k].task \in TaskIds
  BY PollHoldsTask DEF RecoveryTypeOK
<1>4. \A k \in Pollers : poller'[k].step = "read" => task'[poller'[k].task] # NoTask
  BY <1>1, <1>3 DEF IdsKnown, KeepsRows
<1>5. \A t \in polled : t \in TaskIds
  BY DEF RecoveryTypeOK
<1>6. \A i \in DOMAIN addChan : addChan[i] \in TaskIds
  BY DEF RecoveryTypeOK
<1>7. resume.step \in {"each", "push"} => \A r \in resume.rows : r[1] \in TaskIds
  BY DEF RecoveryTypeOK, ResumeState
<1>8. IdsKnown'
  BY <1>4, <1>5, <1>6, <1>7 DEF IdsKnown, KeepsRows
<1> QED
  BY <1>2, <1>8

\* Every step of a poll keeps the types.
LEMMA PollTypes ==
    ASSUME RecoveryTypeOK, IdsKnown, NEW p \in Pollers, ContinuePoll(p)
    PROVE  RecoveryTypeOK' /\ IdsKnown'
<1> DEFINE q == poller[p]
<1>t. TypeOK /\ q \in PollerState
  BY DEF RecoveryTypeOK
<1>r. q.step \in RowSteps =>
         /\ q \in [step : RowSteps, task : TaskIds, row : TaskRow]
         /\ q.task \in TaskIds /\ q.row \in TaskRow
  BY <1>t, PollHoldsRow
<1>c. q.step \in {"count", "test"} =>
         /\ q.task \in TaskIds /\ q.row \in TaskRow
         /\ q.step = "count" => q.seen \in Nat
  BY <1>t, PollHoldsCount
<1>m. /\ polls \in [TaskIds -> Nat]
      /\ removeChan \in Seq(TaskIds)
  BY DEF RecoveryTypeOK
<1>n. task' = task => KeepsRows
  BY DEF KeepsRows
\* Where nothing but the poll itself, the counters and the table change.
<1>g. ASSUME TypeOK', KeepsRows, NEW state \in PollerState, state.step # "read",
             PollerTo(p, state), UNCHANGED <<resume, manager, crashes>>
      PROVE  RecoveryTypeOK' /\ IdsKnown'
  BY <1>g, <1>m, PollerMoves DEF manager
<1>v. UNCHANGED vars => TypeOK' /\ KeepsRows
  BY <1>t DEF vars, TypeOK, KeepsRows
<1>1. CASE PollRead(p)
  <2>1. q.task \in TaskIds /\ task[q.task] # NoTask
    BY <1>t, <1>1, PollHoldsTask DEF PollRead, IdsKnown
  <2>2. task[q.task] \in TaskRow
    BY <1>t, <2>1 DEF TypeOK
  <2>3. [step |-> "execute", task |-> q.task, row |-> task[q.task]] \in PollerState
    BY <2>1, <2>2, ExecutionsArePolls DEF WorkerState
  <2>4. [step |-> "remove", task |-> q.task] \in PollerState
    BY <2>1 DEF PollerState
  <2>5. \/ PollerTo(p, [step |-> "execute", task |-> q.task, row |-> task[q.task]])
        \/ PollerTo(p, [step |-> "remove", task |-> q.task])
    BY <1>1 DEF PollRead
  <2>6. UNCHANGED vars /\ UNCHANGED <<resume, manager, crashes>>
    BY <1>1 DEF PollRead
  <2> QED
    BY <1>g, <1>v, <2>3, <2>4, <2>5, <2>6
<1>2. CASE PollExecute(p)
  <2>0. UNCHANGED worker /\ UNCHANGED <<resume, manager, crashes>>
    BY <1>2 DEF PollExecute
  <2>1. CASE Poll!Submit(p)
    <3>1. /\ q.step \in RowSteps
          /\ UNCHANGED <<task, queue, handler, refunds, runs, failures, dead>>
      BY <2>1, PollIsExecution DEF RowSteps
    <3>2. submits' \in [TaskIds -> Nat]
      <4>1. [submits EXCEPT ![q.task] = @ + 1] \in [TaskIds -> Nat]
        BY <1>t, <1>r, <3>1, Counting DEF TypeOK
      <4> QED
        BY <1>t, <2>1, <4>1, PollIsExecution DEF TypeOK
    <3>3. TypeOK' /\ KeepsRows
      BY <1>t, <1>n, <2>0, <3>1, <3>2 DEF TypeOK
    <3>4. [q EXCEPT !.step = "poll"] \in PollerState
      BY <1>r, <3>1, WorkerGoesOn, ExecutionsArePolls DEF RowSteps
    <3>5. submits[q.task] + 1 \in Nat
      BY <1>t, <1>r, <3>1 DEF TypeOK
    <3>6. [q.row EXCEPT !.remote = submits[q.task] + 1] \in TaskRow
      BY <1>r, <3>1, <3>5 DEF TaskRow
    <3>7. [q EXCEPT !.step = "save_remote",
                    !.row = [q.row EXCEPT !.remote = submits[q.task] + 1]]
             \in PollerState
      <4>1. "save_remote" \in RowSteps
        BY DEF RowSteps
      <4>2. [q EXCEPT !.step = "save_remote",
                      !.row = [q.row EXCEPT !.remote = submits[q.task] + 1]]
               \in WorkerState
        BY <1>r, <3>1, <3>6, <4>1, WorkerGoesOn
      <4> QED
        BY <4>2, ExecutionsArePolls
    <3>8. [q EXCEPT !.step = "save_remote", !.row.remote = submits[q.task] + 1]
           = [q EXCEPT !.step = "save_remote",
                       !.row = [q.row EXCEPT !.remote = submits[q.task] + 1]]
      BY <1>r, <3>1
    <3>9. /\ [q EXCEPT !.step = "save_remote",
                       !.row.remote = submits[q.task] + 1] \in PollerState
          /\ [q EXCEPT !.step = "save_remote",
                       !.row.remote = submits[q.task] + 1].step # "read"
          /\ [q EXCEPT !.step = "poll"].step # "read"
      BY <1>r, <3>1, <3>7, <3>8
    <3>10. \/ PollerTo(p, [q EXCEPT !.step = "poll"])
           \/ PollerTo(p, [q EXCEPT !.step = "save_remote",
                             !.row.remote = submits[q.task] + 1])
      BY <2>1, PollIsExecution
    <3> QED
      BY <1>g, <2>0, <3>3, <3>4, <3>9, <3>10
  <2>2. CASE Poll!SaveRemote(p)
    <3>1. /\ q.step \in RowSteps /\ Saved(q.task, q.row)
          /\ PollerTo(p, [q EXCEPT !.step = "poll"])
          /\ UNCHANGED <<queue, handler, history>>
      BY <2>2, PollIsExecution DEF RowSteps
    <3>2. task' \in [TaskIds -> TaskRow \union {NoTask}] /\ KeepsRows
      BY <1>t, <1>r, <3>1, SavedKeepsRows
    <3>3. TypeOK'
      BY <1>t, <2>0, <3>1, <3>2 DEF TypeOK, history
    <3>4. [q EXCEPT !.step = "poll"] \in PollerState /\ [q EXCEPT !.step = "poll"].step = "poll"
      BY <1>r, <3>1, WorkerGoesOn, ExecutionsArePolls DEF RowSteps
    <3> QED
      BY <1>g, <2>0, <3>1, <3>2, <3>3, <3>4
  <2>3. CASE Poll!Succeed(p)
    <3>1. /\ q.step \in RowSteps
          /\ PollerTo(p, [q EXCEPT !.step = "done", !.row.status = "completed",
                                   !.row.result = TRUE])
          /\ UNCHANGED <<task, queue, handler, history>>
      BY <2>3, PollIsExecution DEF RowSteps
    <3>2. TypeOK' /\ KeepsRows
      BY <1>t, <1>n, <2>0, <3>1 DEF TypeOK, history
    <3>3. [q.row EXCEPT !.status = "completed", !.result = TRUE] \in TaskRow
      BY <1>r, <3>1, RowAssignments DEF Statuses
    <3>4. [q EXCEPT !.step = "done",
                    !.row = [q.row EXCEPT !.status = "completed", !.result = TRUE]]
             \in PollerState
      BY <1>r, <3>1, <3>3, WorkerGoesOn, ExecutionsArePolls DEF RowSteps
    <3>5. [q EXCEPT !.step = "done", !.row.status = "completed", !.row.result = TRUE]
           = [q EXCEPT !.step = "done",
                       !.row = [q.row EXCEPT !.status = "completed", !.result = TRUE]]
      BY <1>r, <3>1
    <3>6. [q EXCEPT !.step = "done", !.row.status = "completed",
                    !.row.result = TRUE].step # "read"
      BY <1>r, <3>1
    <3> QED
      BY <1>g, <2>0, <3>1, <3>2, <3>4, <3>5, <3>6
  <2>4. CASE Poll!Fail(p)
    <3>1. /\ q.step \in RowSteps
          /\ failures' = [failures EXCEPT ![q.task] = @ + 1]
          /\ PollerTo(p, [q EXCEPT !.step = "error"])
          /\ UNCHANGED <<task, queue, handler, refunds, runs>>
      BY <2>4, PollIsExecution DEF RowSteps
    <3>2. failures' \in [TaskIds -> Nat] /\ submits' \in [TaskIds -> Nat]
      <4>1. /\ [failures EXCEPT ![q.task] = @ + 1] \in [TaskIds -> Nat]
            /\ [submits EXCEPT ![q.task] = @ + 1] \in [TaskIds -> Nat]
        BY <1>t, <1>r, <3>1, Counting DEF TypeOK
      <4> QED
        BY <1>t, <2>4, <3>1, <4>1, PollIsExecution DEF TypeOK
    <3>3. dead' \in [TaskIds -> SUBSET Nat]
      <4>1. dead[q.task] \union {q.row.remote} \in SUBSET Nat
        BY <1>t, <1>r, <3>1 DEF TypeOK, TaskRow
      <4>2. [dead EXCEPT ![q.task] = @ \union {q.row.remote}] \in [TaskIds -> SUBSET Nat]
        BY <1>t, <4>1 DEF TypeOK
      <4> QED
        BY <1>t, <2>4, <4>2, PollIsExecution DEF TypeOK
    <3>4. TypeOK' /\ KeepsRows
      BY <1>t, <1>n, <2>0, <3>1, <3>2, <3>3 DEF TypeOK
    <3>5. [q EXCEPT !.step = "error"] \in PollerState /\ [q EXCEPT !.step = "error"].step = "error"
      BY <1>r, <3>1, WorkerGoesOn, ExecutionsArePolls DEF RowSteps
    <3> QED
      BY <1>g, <2>0, <3>1, <3>4, <3>5
  <2> QED
    BY <1>2, <2>1, <2>2, <2>3, <2>4 DEF PollExecute
\* Saves of a copy, after which the entry is removed.
<1>3. CASE PollComplete(p) \/ PollGiveUp(p)
  <2>1. /\ q.step \in RowSteps /\ Saved(q.task, q.row)
        /\ PollerTo(p, [step |-> "remove", task |-> q.task])
        /\ UNCHANGED <<queue, handler, worker, history, resume, manager, crashes>>
    BY <1>3 DEF PollComplete, PollGiveUp, RowSteps
  <2>2. task' \in [TaskIds -> TaskRow \union {NoTask}] /\ KeepsRows
    BY <1>t, <1>r, <2>1, SavedKeepsRows
  <2>3. TypeOK'
    BY <1>t, <2>1, <2>2 DEF TypeOK, history
  <2>4. [step |-> "remove", task |-> q.task] \in PollerState
    BY <1>r, <2>1 DEF PollerState
  <2> QED
    BY <1>g, <2>1, <2>2, <2>3, <2>4
<1>4. CASE PollFailed(p)
  <2>1. q.step \in RowSteps
    BY <1>4 DEF PollFailed, RowSteps
  <2>2. [step |-> "count", task |-> q.task, row |-> q.row, seen |-> polls[q.task]]
           \in PollerState
    BY <1>r, <1>m, <2>1 DEF PollerState
  <2> QED
    BY <1>g, <1>v, <1>4, <2>2 DEF PollFailed
<1>5. CASE CountPoll(p)
  <2>1. [step |-> "test", task |-> q.task, row |-> q.row] \in PollerState
    BY <1>c, <1>5 DEF CountPoll, PollerState
  <2>2. polls' \in [TaskIds -> Nat]
    BY <1>c, <1>m, <1>5 DEF CountPoll
  <2>3. /\ PollerTo(p, [step |-> "test", task |-> q.task, row |-> q.row])
        /\ UNCHANGED <<resume, polled, addChan, removeChan, crashes>>
        /\ UNCHANGED vars
    BY <1>5 DEF CountPoll
  <2> QED
    BY <1>m, <1>v, <2>1, <2>2, <2>3, PollerMoves
<1>6. CASE TestPolls(p)
  <2> DEFINE s == IF q.row.cost THEN "refund" ELSE "give_up"
             row == [q.row EXCEPT !.status = "failed"]
  <2>1. q.task \in TaskIds /\ q.row \in TaskRow
    BY <1>c, <1>6 DEF TestPolls
  <2>2. row \in TaskRow /\ s \in {"refund", "give_up"}
    BY <2>1, RowAssignments DEF Statuses
  <2>3. PollerTo(p, Idle) \/ PollerTo(p, [step |-> s, task |-> q.task, row |-> row])
    BY <1>6 DEF TestPolls
  <2>4. UNCHANGED vars /\ UNCHANGED <<resume, manager, crashes>>
    BY <1>6 DEF TestPolls
  <2> HIDE DEF s, row
  <2>5. [step |-> s, task |-> q.task, row |-> row] \in PollerState /\ s # "read"
    BY <2>1, <2>2, ExecutionsArePolls DEF WorkerState
  <2>6. Idle \in PollerState /\ Idle.step # "read"
    BY ExecutionsArePolls DEF Idle
  <2> QED
    BY <1>g, <1>v, <2>3, <2>4, <2>5, <2>6
<1>7. CASE PollRefund(p)
  <2>0. Poll!Refund(p) /\ UNCHANGED worker /\ UNCHANGED <<resume, manager, crashes>>
    BY <1>7 DEF PollRefund
  <2>1. /\ q.step \in RowSteps
        /\ PollerTo(p, [q EXCEPT !.step = "give_up"])
        /\ UNCHANGED <<task, queue, handler, runs, failures, submits, dead>>
    BY <2>0, PollIsExecution DEF RowSteps
  <2>2. refunds' \in [TaskIds -> Nat]
    <3>1. [refunds EXCEPT ![q.task] = @ + 1] \in [TaskIds -> Nat]
      BY <1>t, <1>r, <2>1, Counting DEF TypeOK
    <3> QED
      BY <1>t, <2>0, <3>1, PollIsExecution DEF TypeOK
  <2>3. TypeOK' /\ KeepsRows
    BY <1>t, <1>n, <2>0, <2>1, <2>2 DEF TypeOK
  <2>4. [q EXCEPT !.step = "give_up"] \in PollerState /\ [q EXCEPT !.step = "give_up"].step = "give_up"
    BY <1>r, <2>1, WorkerGoesOn, ExecutionsArePolls DEF RowSteps
  <2> QED
    BY <1>g, <2>0, <2>1, <2>3, <2>4
<1>8. CASE PollRemove(p)
  <2>1. q.task \in TaskIds
    BY <1>t, <1>8, PollHoldsTask DEF PollRemove
  <2>2. removeChan' \in Seq(TaskIds)
    BY <1>m, <1>8, <2>1, Channels DEF PollRemove
  <2>3. /\ PollerTo(p, Idle) /\ UNCHANGED vars
        /\ UNCHANGED <<resume, polled, polls, addChan, crashes>>
    BY <1>8 DEF PollRemove
  <2>4. Idle \in PollerState /\ Idle.step # "read"
    BY ExecutionsArePolls DEF Idle
  <2> QED
    BY <1>m, <1>v, <2>2, <2>3, <2>4, PollerMoves
<1> QED
  BY <1>1, <1>2, <1>3, <1>4, <1>5, <1>6, <1>7, <1>8 DEF ContinuePoll

\* So does every step there is.
LEMMA RecoveryStepTypes ==
    ASSUME RecoveryTypeOK, IdsKnown, [RecoveryNext]_allVars
    PROVE  RecoveryTypeOK' /\ IdsKnown'
<1>1. CASE [Next]_vars /\ UNCHANGED recoveryVars
  <2>1. TypeOK' /\ KeepsRows
    BY <1>1, TasksKeepRows DEF RecoveryTypeOK
  <2> QED
    BY <1>1, <2>1, KnownStays
<1>2. UNCHANGED allVars => UNCHANGED vars /\ UNCHANGED recoveryVars
  BY DEF allVars
<1> QED
  BY <1>1, <1>2, CrashTypes, ResumeTypes, ManagerTypes, PollTypes DEF RecoveryNext

\* The initial state has the types.
LEMMA RecoveryInitTypes == RecoveryInit => RecoveryTypeOK /\ IdsKnown
<1> SUFFICES ASSUME RecoveryInit PROVE RecoveryTypeOK /\ IdsKnown
  OBVIOUS
<1>1. TypeOK
  BY DEF RecoveryInit, Init, TypeOK, HandlerState, WorkerState
<1>2. /\ poller \in [Pollers -> PollerState]
      /\ \A p \in Pollers : poller[p].step = "idle"
  BY ExecutionsArePolls DEF RecoveryInit, Idle
<1>3. resume \in ResumeState /\ resume.step = "list"
  BY DEF RecoveryInit, ResumeState
<1>4. polls \in [TaskIds -> Nat] /\ crashes \in 0..MaxCrashes
  BY CrashesAssumption DEF RecoveryInit
<1>5. <<>> \in Seq(TaskIds)
  OBVIOUS
<1>6. polled = {} /\ addChan = <<>> /\ removeChan = <<>>
  BY DEF RecoveryInit
<1> QED
  BY <1>1, <1>2, <1>3, <1>4, <1>5, <1>6 DEF RecoveryTypeOK, IdsKnown

\* Whatever is lost in crashes and saved by whom, rows, copies and counts stay
\* in their sets, and what is polled is in the table
\* (task_service.go:301-341, polling_manager.go:52-196).
THEOREM RecoveryTypes == RecoverySpec => []RecoveryTypeOK
<1>1. RecoveryTypeOK /\ IdsKnown /\ [RecoveryNext]_allVars
         => RecoveryTypeOK' /\ IdsKnown'
  BY RecoveryStepTypes
<1> QED
  BY <1>1, RecoveryInitTypes, PTL DEF RecoverySpec

-----------------------------------------------------------------------------
(* No refund before the failures that are to be put up with.  A poll pays   *)
(* back when the count of its task exceeds MaxPolls; the count is read and  *)
(* written without a lock, so what is inductive is a bound: the count, and  *)
(* the failures that some poll has still to count, are no more than the     *)
(* failures there were.  Counting may lose some and never invents one.      *)

\* Polls that have failed and have not written the count.
Uncounted(t) ==
    {p \in Pollers : poller[p].step \in {"error", "count"} /\ poller[p].task = t}

PollsAreFailures ==
    \A t \in TaskIds :
       /\ polls[t] + Cardinality(Uncounted(t)) =< failures[t]
       /\ \A p \in Pollers :
             poller[p].step = "count" /\ poller[p].task = t =>
                poller[p].seen + Cardinality(Uncounted(t)) =< failures[t]

\* What a poll holds counts no more retries than there were failures, as in
\* RetriesAreFailures, and one that pays back has seen them all.
PollCounted(q, f) ==
    /\ q.step \in RowSteps \union {"count", "test"} => q.row.retries =< f[q.task]
    /\ q.step = "refund" => f[q.task] > MaxPolls

\* So do the rows that were listed after the restart.
ResumeCounted ==
    resume.step \in {"each", "push"} =>
       \A r \in resume.rows : r[2].retries =< failures[r[1]]

RecoveryInv ==
    /\ RetriesAreFailures
    /\ \A p \in Pollers : PollCounted(poller[p], failures)
    /\ ResumeCounted
    /\ PollsAreFailures
    /\ RefundOnlyAfterFailures

\* Another failure, of whatever task, disturbs nothing a poll holds.
LEMMA PollCountedMonotone ==
    ASSUME NEW q \in PollerState,
           NEW f \in [TaskIds -> Nat], NEW g \in [TaskIds -> Nat],
           \A t \in TaskIds : f[t] =< g[t], PollCounted(q, f)
    PROVE  PollCounted(q, g)
<1>1. CASE q.step \in RowSteps \union {"count", "test"}
  <2>1. q.task \in TaskIds /\ q.row \in TaskRow
    BY <1>1, PollHoldsRow, PollHoldsCount
  <2>2. q.row.retries \in Nat
    BY <2>1, RetriesType
  <2>3. f[q.task] \in Nat /\ g[q.task] \in Nat /\ f[q.task] =< g[q.task]
    BY <2>1
  <2> QED
    BY <1>1, <2>2, <2>3, PollsAssumption DEF PollCounted
<1>2. CASE q.step \notin RowSteps \union {"count", "test"}
  BY <1>2 DEF PollCounted, RowSteps
<1> QED
  BY <1>1, <1>2

\* There are finitely many polls to count.
LEMMA UncountedIsFinite ==
    ASSUME NEW t
    PROVE  IsFiniteSet(Uncounted(t)) /\ Cardinality(Uncounted(t)) \in Nat
<1>1. Uncounted(t) \in SUBSET Pollers
  BY DEF Uncounted
<1> QED
  BY <1>1, PollersAssumption, FS_Subset, FS_CardinalityType

\* The bound stays when polls, counts and the failures to count stay, and
\* failures only grow.
LEMMA BoundStays ==
    ASSUME RecoveryTypeOK, RecoveryTypeOK', PollsAreFailures,
           \A t \in TaskIds : failures[t] =< failures'[t],
           UNCHANGED <<poller, polls>>
    PROVE  PollsAreFailures'
<1>1. \A t \in TaskIds : Uncounted(t)' = Uncounted(t)
  BY DEF Uncounted
<1>2. \A t \in TaskIds : failures[t] \in Nat /\ failures'[t] \in Nat /\ polls[t] \in Nat
  BY DEF RecoveryTypeOK, TypeOK
<1>3. \A p \in Pollers : poller[p].step = "count" => poller[p].seen \in Nat
  BY PollHoldsCount DEF RecoveryTypeOK
<1> SUFFICES ASSUME NEW t \in TaskIds
             PROVE  /\ polls'[t] + Cardinality(Uncounted(t)') =< failures'[t]
                    /\ \A p \in Pollers :
                          poller'[p].step = "count" /\ poller'[p].task = t =>
                             poller'[p].seen + Cardinality(Uncounted(t)')
                                =< failures'[t]
  BY DEF PollsAreFailures
<1> DEFINE n == Cardinality(Uncounted(t))
<1>4. n \in Nat /\ Cardinality(Uncounted(t)') = n
  BY <1>1, UncountedIsFinite
<1>5. polls[t] + n =< failures[t] /\ failures[t] =< failures'[t]
  BY DEF PollsAreFailures
<1>6. \A p \in Pollers : poller[p].step = "count" /\ poller[p].task = t =>
         poller[p].seen + n =< failures[t]
  BY DEF PollsAreFailures
<1> HIDE DEF n
<1>7. polls[t] + n =< failures'[t]
  BY <1>2, <1>4, <1>5
<1>8. \A p \in Pollers : poller[p].step = "count" /\ poller[p].task = t =>
         poller[p].seen + n =< failures'[t]
  BY <1>2, <1>3, <1>4, <1>5, <1>6
<1> QED
  BY <1>4, <1>7, <1>8

\* A poll that moves without a failure to count, before or after.
LEMMA BoundOfMove ==
    ASSUME RecoveryTypeOK, PollsAreFailures, NEW p \in Pollers, NEW state,
           PollerTo(p, state), poller[p].step \notin {"error", "count"},
           state.step \notin {"error", "count"}, UNCHANGED <<polls, failures>>
    PROVE  PollsAreFailures'
<1>1. poller'[p] = state /\ \A k \in Pollers : k # p => poller'[k] = poller[k]
  BY DEF PollerTo, RecoveryTypeOK
<1>2. \A t \in TaskIds : Uncounted(t)' = Uncounted(t)
  BY <1>1 DEF Uncounted
<1> QED
  BY <1>1, <1>2 DEF PollsAreFailures

\* A poll that fails adds one failure and one to be counted.
LEMMA BoundOfFailure ==
    ASSUME RecoveryTypeOK, PollsAreFailures, NEW p \in Pollers,
           poller[p].step \in {"execute", "poll"},
           poller'[p].step = "error", poller'[p].task = poller[p].task,
           \A k \in Pollers : k # p => poller'[k] = poller[k],
           failures' = [failures EXCEPT ![poller[p].task] = @ + 1], UNCHANGED polls
    PROVE  PollsAreFailures'
<1> DEFINE u == poller[p].task
<1>1. /\ poller'[p].step = "error" /\ poller'[p].task = u
      /\ \A k \in Pollers : k # p => poller'[k] = poller[k]
  OBVIOUS
<1>2. u \in TaskIds
  BY PollHoldsRow DEF RecoveryTypeOK, RowSteps
<1>3. \A t \in TaskIds : failures[t] \in Nat /\ polls[t] \in Nat
  BY DEF RecoveryTypeOK, TypeOK
<1>4. \A k \in Pollers : poller[k].step = "count" => poller[k].seen \in Nat
  BY PollHoldsCount DEF RecoveryTypeOK
<1>5. failures'[u] = failures[u] + 1 /\ \A t \in TaskIds : t # u => failures'[t] = failures[t]
  BY <1>2 DEF RecoveryTypeOK, TypeOK
<1>6. \A t \in TaskIds : t # u => Uncounted(t)' = Uncounted(t)
  BY <1>1 DEF Uncounted
<1>7. \A t \in TaskIds : t = u =>
         Uncounted(t)' = Uncounted(t) \union {p} /\ p \notin Uncounted(t)
  BY <1>1 DEF Uncounted
<1>8. \A t \in TaskIds : t = u =>
         Cardinality(Uncounted(t)') = Cardinality(Uncounted(t)) + 1
  BY <1>7, UncountedIsFinite, FS_AddElement
<1> SUFFICES ASSUME NEW t \in TaskIds
             PROVE  /\ polls'[t] + Cardinality(Uncounted(t)') =< failures'[t]
                    /\ \A k \in Pollers :
                          poller'[k].step = "count" /\ poller'[k].task = t =>
                             poller'[k].seen + Cardinality(Uncounted(t)')
                                =< failures'[t]
  BY DEF PollsAreFailures
<1> DEFINE n == Cardinality(Uncounted(t))
           m == Cardinality(Uncounted(t)')
<1>9. n \in Nat
  BY UncountedIsFinite
<1>10. \/ m = n /\ failures'[t] = failures[t]
       \/ m = n + 1 /\ failures'[t] = failures[t] + 1
  BY <1>5, <1>6, <1>8
<1>11. /\ polls[t] + n =< failures[t]
       /\ \A k \in Pollers : poller[k].step = "count" /\ poller[k].task = t =>
             poller[k].seen + n =< failures[t]
  BY DEF PollsAreFailures
<1>12. \A k \in Pollers : poller'[k].step = "count" => poller'[k] = poller[k]
  BY <1>1
<1> HIDE DEF n, m
<1>13. polls[t] + m =< failures'[t]
  BY <1>3, <1>9, <1>10, <1>11
<1>14. ASSUME NEW k \in Pollers, poller'[k].step = "count", poller'[k].task = t
       PROVE  poller'[k].seen + m =< failures'[t]
  <2>1. poller[k].seen \in Nat /\ poller[k].seen + n =< failures[t] /\ poller'[k] = poller[k]
    BY <1>4, <1>11, <1>12, <1>14
  <2> QED
    BY <1>3, <1>9, <1>10, <2>1
<1> QED
  BY <1>13, <1>14 DEF m

\* A poll that reads the count has still to write it.
LEMMA BoundOfRead ==
    ASSUME RecoveryTypeOK, PollsAreFailures, NEW p \in Pollers, PollFailed(p)
    PROVE  PollsAreFailures'
<1> DEFINE state == [step |-> "count", task |-> poller[p].task,
                     row |-> poller[p].row, seen |-> polls[poller[p].task]]
<1>1. /\ poller'[p] = state /\ \A k \in Pollers : k # p => poller'[k] = poller[k]
      /\ poller[p].step = "error" /\ polls' = polls /\ failures' = failures
  BY DEF PollFailed, PollerTo, RecoveryTypeOK, vars, manager
<1>2. \A t \in TaskIds : Uncounted(t)' = Uncounted(t)
  BY <1>1 DEF Uncounted
<1>3. state.step = "count" /\ state.task = poller[p].task /\ state.seen = polls[poller[p].task]
  OBVIOUS
<1> HIDE DEF state
<1> QED
  BY <1>1, <1>2, <1>3 DEF PollsAreFailures

\* One that writes it has counted one failure more than it had read.
LEMMA BoundOfWrite ==
    ASSUME RecoveryTypeOK, PollsAreFailures, NEW p \in Pollers, CountPoll(p)
    PROVE  PollsAreFailures'
<1> DEFINE u == poller[p].task
           state == [step |-> "test", task |-> poller[p].task, row |-> poller[p].row]
<1>1. /\ poller'[p] = state /\ \A k \in Pollers : k # p => poller'[k] = poller[k]
      /\ poller[p].step = "count" /\ failures' = failures
  BY DEF CountPoll, PollerTo, RecoveryTypeOK, vars
<1>2. u \in TaskIds
  BY <1>1, PollHoldsCount DEF RecoveryTypeOK
<1>3. \A t \in TaskIds : failures[t] \in Nat /\ polls[t] \in Nat
  BY DEF RecoveryTypeOK, TypeOK
<1>4. \A k \in Pollers : poller[k].step = "count" => poller[k].seen \in Nat
  BY PollHoldsCount DEF RecoveryTypeOK
<1>5. polls'[u] = poller[p].seen + 1 /\ \A t \in TaskIds : t # u => polls'[t] = polls[t]
  BY <1>2 DEF CountPoll, RecoveryTypeOK
<1>6. state.step = "test"
  OBVIOUS
<1> HIDE DEF state
<1>7. \A t \in TaskIds : t # u => Uncounted(t)' = Uncounted(t)
  BY <1>1, <1>6 DEF Uncounted
<1>8. ASSUME NEW t \in TaskIds, t = u
      PROVE  Uncounted(t)' = Uncounted(t) \ {p} /\ p \in Uncounted(t)
  <2>1. p \in Uncounted(t) /\ p \notin Uncounted(t)'
    BY <1>1, <1>6, <1>8 DEF Uncounted
  <2>2. \A k \in Pollers : k # p => (k \in Uncounted(t)' <=> k \in Uncounted(t))
    BY <1>1 DEF Uncounted
  <2>3. Uncounted(t) \subseteq Pollers /\ Uncounted(t)' \subseteq Pollers
    BY DEF Uncounted
  <2> QED
    BY <2>1, <2>2, <2>3
<1>9. \A t \in TaskIds : t = u =>
         Cardinality(Uncounted(t)') = Cardinality(Uncounted(t)) - 1
  BY <1>8, UncountedIsFinite, FS_RemoveElement
<1>10. \A k \in Pollers : poller'[k].step = "count" => poller'[k] = poller[k]
  BY <1>1, <1>6
<1> SUFFICES ASSUME NEW t \in TaskIds
             PROVE  /\ polls'[t] + Cardinality(Uncounted(t)') =< failures[t]
                    /\ \A k \in Pollers :
                          poller'[k].step = "count" /\ poller'[k].task = t =>
                             poller'[k].seen + Cardinality(Uncounted(t)')
                                =< failures[t]
  BY <1>1 DEF PollsAreFailures
<1> DEFINE n == Cardinality(Uncounted(t))
           m == Cardinality(Uncounted(t)')
<1>11. n \in Nat /\ (m = n \/ m = n - 1)
  BY <1>7, <1>9, UncountedIsFinite
<1>12. t = u => m = n - 1
  BY <1>9
<1>13. /\ polls[t] + n =< failures[t]
       /\ \A k \in Pollers : poller[k].step = "count" /\ poller[k].task = t =>
             poller[k].seen + n =< failures[t]
  BY DEF PollsAreFailures
<1>14. t # u => m = n
  BY <1>7
<1> HIDE DEF n, m
<1>15. polls'[t] + m =< failures[t]
  <2>1. CASE t = u
    <3>1. poller[p].seen \in Nat /\ poller[p].seen + n =< failures[t]
      BY <1>1, <1>4, <1>13, <2>1
    <3> QED
      BY <1>3, <1>5, <1>11, <1>12, <2>1, <3>1
  <2>2. CASE t # u
    BY <1>5, <1>13, <1>14, <2>2
  <2> QED
    BY <2>1, <2>2
<1>16. ASSUME NEW k \in Pollers, poller'[k].step = "count", poller'[k].task = t
       PROVE  poller'[k].seen + m =< failures[t]
  <2>1. poller[k].seen \in Nat /\ poller[k].seen + n =< failures[t] /\ poller'[k] = poller[k]
    BY <1>4, <1>10, <1>13, <1>16
  <2> QED
    BY <1>3, <1>11, <2>1
<1> QED
  BY <1>15, <1>16 DEF m

\* A refund stays behind the failures, because they only grow.
LEMMA RefundsStayBehind ==
    ASSUME TypeOK, TypeOK', RefundOnlyAfterFailures,
           \A t \in TaskIds :
              /\ failures[t] =< failures'[t]
              /\ \/ refunds'[t] = refunds[t]
                 \/ failures'[t] > MaxRetries \/ failures'[t] > MaxPolls
    PROVE  RefundOnlyAfterFailures'
<1> SUFFICES ASSUME NEW t \in TaskIds, refunds'[t] > 0
             PROVE  failures'[t] > MaxRetries \/ failures'[t] > MaxPolls
  BY DEF RefundOnlyAfterFailures
<1>1. failures[t] \in Nat /\ failures'[t] \in Nat /\ failures[t] =< failures'[t]
  BY DEF TypeOK
<1>2. CASE refunds'[t] = refunds[t]
  <2>1. failures[t] > MaxRetries \/ failures[t] > MaxPolls
    BY <1>2 DEF RefundOnlyAfterFailures
  <2> QED
    BY <1>1, <2>1, MaxRetriesAssumption, PollsAssumption
<1> QED
  BY <1>2

\* A failure alone leaves every copy of Tasks counted.
LEMMA FailuresKeepCounts ==
    ASSUME TypeOK, TypeOK', RetriesAreFailures, UNCHANGED <<task, handler, worker>>,
           \A t \in TaskIds : failures[t] =< failures'[t]
    PROVE  RetriesAreFailures'
<1>1. failures \in [TaskIds -> Nat] /\ failures' \in [TaskIds -> Nat]
  BY DEF TypeOK
<1>2. ASSUME NEW t \in TaskIds, task[t] # NoTask PROVE task[t].retries =< failures'[t]
  <2>1. task[t].retries \in Nat /\ task[t].retries =< failures[t]
    BY <1>2, RetriesType DEF TypeOK, RetriesAreFailures
  <2> QED
    BY <1>1, <2>1
<1>3. ASSUME NEW h \in Handlers, handler[h].step = "save"
      PROVE  handler[h].row.retries =< failures'[handler[h].task]
  <2>1. handler[h].task \in TaskIds /\ handler[h].row.retries \in Nat
    BY <1>3, HandlerHoldsRow, RetriesType DEF TypeOK
  <2>2. handler[h].row.retries =< failures[handler[h].task]
    BY <1>3 DEF RetriesAreFailures
  <2> QED
    BY <1>1, <2>1, <2>2
<1>4. ASSUME NEW w \in Workers PROVE Counted(worker[w], failures')
  <2>1. worker[w] \in WorkerState /\ Counted(worker[w], failures)
    BY DEF TypeOK, RetriesAreFailures, Counted
  <2> QED
    BY <1>1, <2>1, CountedMonotone
<1> QED
  BY <1>2, <1>3, <1>4 DEF RetriesAreFailures, Counted

\* The steps of requests and executions, with the polls where they are.
LEMMA TasksRefundStep ==
    ASSUME RecoveryTypeOK, RecoveryTypeOK', RecoveryInv, [Next]_vars,
           UNCHANGED recoveryVars
    PROVE  RecoveryInv'
<1>0. TypeOK /\ TypeOK' /\ RetriesAreFailures
  BY DEF RecoveryTypeOK, RecoveryInv
<1>1. RefundStep
  BY <1>0, RefundsOfStep
<1>2. \A t \in TaskIds : failures[t] =< failures'[t]
  BY <1>1 DEF RefundStep
<1>3. UNCHANGED <<poller, resume, polls>>
  BY DEF recoveryVars, manager
<1>4. failures \in [TaskIds -> Nat] /\ failures' \in [TaskIds -> Nat]
  BY <1>0 DEF TypeOK
<1>5. ASSUME NEW p \in Pollers PROVE PollCounted(poller'[p], failures')
  <2>1. poller[p] \in PollerState /\ poller'[p] = poller[p] /\ PollCounted(poller[p], failures)
    BY <1>3 DEF RecoveryTypeOK, RecoveryInv
  <2>2. PollCounted(poller[p], failures')
    BY <1>2, <1>4, <2>1, PollCountedMonotone
  <2> QED
    BY <2>1, <2>2
<1>6. ResumeCounted'
  <2>1. resume.step \in {"each", "push"} => resume.rows \subseteq TaskIds \X TaskRow
    BY DEF RecoveryTypeOK, ResumeState
  <2>2. ASSUME resume.step \in {"each", "push"}, NEW r \in resume.rows
        PROVE  r[2].retries =< failures'[r[1]]
    <3>1. r[1] \in TaskIds /\ r[2] \in TaskRow
      BY <2>1, <2>2
    <3>2. r[2].retries \in Nat /\ r[2].retries =< failures[r[1]]
      BY <2>2, <3>1, RetriesType DEF RecoveryInv, ResumeCounted
    <3> QED
      BY <1>2, <1>4, <3>1, <3>2
  <2> QED
    BY <1>3, <2>2 DEF ResumeCounted
<1>7. PollsAreFailures'
  BY <1>2, <1>3, BoundStays DEF RecoveryInv
<1>8. RefundOnlyAfterFailures'
  BY <1>0, <1>1, RefundsStayBehind DEF RefundStep, RecoveryInv
<1>9. RetriesAreFailures'
  BY <1>1 DEF RefundStep
<1> QED
  BY <1>5, <1>6, <1>7, <1>8, <1>9 DEF RecoveryInv

\* The steps of the manager and of a poll that count no failure: what is saved
\* and what is held is counted, and what is paid back had its failures.
LEMMA QuietStep ==
    ASSUME RecoveryTypeOK, RecoveryTypeOK', RecoveryInv,
           UNCHANGED <<handler, worker, failures>>,
           \A t \in TaskIds : refunds'[t] = refunds[t] \/ failures[t] > MaxPolls,
           \/ task' = task
           \/ \E t \in TaskIds, row \in TaskRow :
                 Saved(t, row) /\ row.retries =< failures[t],
           \A p \in Pollers : PollCounted(poller'[p], failures),
           ResumeCounted', PollsAreFailures'
    PROVE  RecoveryInv'
<1>0. TypeOK /\ TypeOK' /\ RetriesAreFailures
  BY DEF RecoveryTypeOK, RecoveryInv
<1>1. \A x \in TaskIds : task'[x] # NoTask => task'[x].retries =< failures'[x]
  <2>1. CASE task' = task
    BY <1>0, <2>1 DEF RetriesAreFailures
  <2>2. CASE \E t \in TaskIds, row \in TaskRow :
                Saved(t, row) /\ row.retries =< failures[t]
    BY <1>0, <2>2, SavedCounted
  <2> QED
    BY <2>1, <2>2
<1>2. RetriesAreFailures'
  BY <1>0, <1>1 DEF RetriesAreFailures
<1>3. \A t \in TaskIds : failures[t] =< failures'[t]
  BY <1>0 DEF TypeOK
<1>4. RefundOnlyAfterFailures'
  BY <1>0, <1>3, RefundsStayBehind DEF RecoveryInv
<1> QED
  BY <1>2, <1>4 DEF RecoveryInv

\* A restart: nobody holds a copy, and there is no failure left to count.
LEMMA CrashRefunds ==
    ASSUME RecoveryTypeOK, RecoveryTypeOK', RecoveryInv, Crash
    PROVE  RecoveryInv'
<1>1. UNCHANGED <<task, failures, refunds>>
  BY DEF Crash, history
<1>2. /\ \A h \in Handlers : handler'[h].step = "idle"
      /\ \A w \in Workers : worker'[w].step = "idle"
      /\ \A p \in Pollers : poller'[p].step = "idle"
      /\ resume'.step = "list" /\ \A t \in TaskIds : polls'[t] = 0
  BY DEF Crash, Idle
<1>3. RetriesAreFailures'
  BY <1>1, <1>2 DEF RecoveryInv, RetriesAreFailures
<1>4. \A p \in Pollers : PollCounted(poller'[p], failures')
  BY <1>2 DEF PollCounted, RowSteps
<1>5. ResumeCounted'
  BY <1>2 DEF ResumeCounted
<1>6. \A t \in TaskIds : Cardinality(Uncounted(t)') = 0 /\ failures'[t] \in Nat
  <2>1. \A t \in TaskIds : Uncounted(t)' = {}
    BY <1>2 DEF Uncounted
  <2> QED
    BY <2>1, FS_EmptySet DEF RecoveryTypeOK, TypeOK
<1>7. PollsAreFailures'
  BY <1>2, <1>6 DEF PollsAreFailures
<1>8. RefundOnlyAfterFailures'
  BY <1>1 DEF RecoveryInv, RefundOnlyAfterFailures
<1> QED
  BY <1>3, <1>4, <1>5, <1>7, <1>8 DEF RecoveryInv

\* The resumption: listed rows are committed rows, and are saved reset.
LEMMA ResumeRefunds ==
    ASSUME RecoveryTypeOK, RecoveryTypeOK', RecoveryInv, Resume
    PROVE  RecoveryInv'
<1>0. TypeOK /\ resume \in ResumeState
  BY DEF RecoveryTypeOK
<1>1. UNCHANGED <<handler, worker, failures, refunds, poller, polls>>
  BY DEF Resume, ListProcessing, ListFails, ResumePolling, ResumeReset, ResumePush,
         vars, history, manager
<1>2. PollsAreFailures'
  <2>1. \A t \in TaskIds : failures[t] =< failures'[t]
    BY <1>0, <1>1 DEF TypeOK
  <2> QED
    BY <1>1, <2>1, BoundStays DEF RecoveryInv
<1>3. \A p \in Pollers : PollCounted(poller'[p], failures)
  BY <1>1 DEF RecoveryInv
<1>4. ASSUME ResumeCounted',
             \/ task' = task
             \/ \E t \in TaskIds, row \in TaskRow :
                   Saved(t, row) /\ row.retries =< failures[t]
      PROVE  RecoveryInv'
  BY <1>1, <1>2, <1>3, <1>4, QuietStep
<1>5. CASE ListProcessing
  <2>1. \A t \in TaskIds : StatusIn(t, {"processing"}) => task[t].retries =< failures[t]
    BY DEF StatusIn, RecoveryInv, RetriesAreFailures
  <2>2. resume' = [step |-> "each",
                   rows |-> {<<t, task[t]>> : t \in
                                {u \in TaskIds : StatusIn(u, {"processing"})}}]
    BY <1>5 DEF ListProcessing
  <2>3. \A r \in resume'.rows : r[2].retries =< failures[r[1]]
    BY <2>1, <2>2
  <2>4. ResumeCounted' /\ task' = task
    BY <1>1, <1>5, <2>3 DEF ResumeCounted, ListProcessing, vars
  <2> QED
    BY <1>4, <2>4
<1>6. CASE ListFails
  BY <1>4, <1>6 DEF ListFails, ResumeCounted, vars
<1>7. CASE ResumePolling
  <2>1. resume.step = "each" /\ resume'.rows \subseteq resume.rows /\ task' = task
    BY <1>0, <1>7 DEF ResumePolling, ResumeState, vars
  <2>2. ResumeCounted'
    BY <1>1, <2>1 DEF RecoveryInv, ResumeCounted
  <2> QED
    BY <1>4, <2>1, <2>2
<1>8. CASE ResumeReset
  <2>1. PICK r \in resume.rows :
           /\ Saved(r[1], [r[2] EXCEPT !.status = "pending_execution"])
           /\ resume' = [step |-> "push", task |-> r[1], rows |-> resume.rows \ {r}]
    BY <1>8 DEF ResumeReset
  <2>2. resume.step = "each" /\ resume.rows \subseteq TaskIds \X TaskRow
    BY <1>0, <1>8 DEF ResumeReset, ResumeState
  <2>3. r[1] \in TaskIds /\ r[2] \in TaskRow /\ r[2].retries =< failures[r[1]]
    BY <2>2 DEF RecoveryInv, ResumeCounted
  <2>4. /\ [r[2] EXCEPT !.status = "pending_execution"] \in TaskRow
        /\ [r[2] EXCEPT !.status = "pending_execution"].retries = r[2].retries
    <3>1. [r[2] EXCEPT !.status = "pending_execution"] \in TaskRow
      BY <2>3, RowAssignments DEF Statuses
    <3>2. [r[2] EXCEPT !.status = "pending_execution"].retries = r[2].retries
      BY <2>3 DEF TaskRow
    <3> QED
      BY <3>1, <3>2
  <2>5. ResumeCounted'
    BY <1>1, <2>1, <2>2 DEF RecoveryInv, ResumeCounted
  <2> QED
    BY <1>4, <2>1, <2>3, <2>4, <2>5
<1>9. CASE ResumePush
  <2>1. resume.step = "push" /\ resume'.rows = resume.rows /\ task' = task
    BY <1>9 DEF ResumePush
  <2>2. ResumeCounted'
    BY <1>1, <2>1 DEF RecoveryInv, ResumeCounted
  <2> QED
    BY <1>4, <2>1, <2>2
<1> QED
  BY <1>5, <1>6, <1>7, <1>8, <1>9 DEF Resume

\* The manager's loop starts counts at zero, and a tick holds nothing yet.
LEMMA ManagerRefunds ==
    ASSUME RecoveryTypeOK, RecoveryTypeOK', RecoveryInv,
           ManagerLoop \/ \E p \in Pollers, t \in TaskIds : Tick(p, t)
    PROVE  RecoveryInv'
<1>1. UNCHANGED <<task, handler, worker, failures, refunds, resume>>
  BY DEF ManagerLoop, AddEntry, RemoveEntry, Tick, vars
<1>2. ResumeCounted'
  BY <1>1 DEF RecoveryInv, ResumeCounted
<1>3. ASSUME \A p \in Pollers : PollCounted(poller'[p], failures), PollsAreFailures'
      PROVE  RecoveryInv'
  BY <1>1, <1>2, <1>3, QuietStep
<1>4. CASE AddEntry
  <2>1. /\ poller' = poller
        /\ \A t \in TaskIds : polls'[t] = polls[t] \/ polls'[t] = 0
    BY <1>4 DEF AddEntry, RecoveryTypeOK
  <2>2. \A t \in TaskIds : Uncounted(t)' = Uncounted(t)
    BY <2>1 DEF Uncounted
  <2>3. ASSUME NEW t \in TaskIds
        PROVE  polls'[t] + Cardinality(Uncounted(t)) =< failures[t]
    <3> DEFINE n == Cardinality(Uncounted(t))
    <3>1. n \in Nat /\ polls[t] \in Nat /\ failures[t] \in Nat
      BY UncountedIsFinite DEF RecoveryTypeOK, TypeOK
    <3>2. polls[t] + n =< failures[t]
      BY DEF RecoveryInv, PollsAreFailures
    <3> HIDE DEF n
    <3>3. polls'[t] + n =< failures[t]
      BY <2>1, <3>1, <3>2
    <3> QED
      BY <3>3 DEF n
  <2>4. PollsAreFailures'
    BY <1>1, <2>1, <2>2, <2>3 DEF RecoveryInv, PollsAreFailures
  <2> QED
    BY <1>3, <2>1, <2>4 DEF RecoveryInv
<1>5. CASE RemoveEntry
  <2>1. poller' = poller /\ polls' = polls
    BY <1>5 DEF RemoveEntry
  <2>2. \A t \in TaskIds : failures[t] =< failures'[t]
    BY <1>1 DEF RecoveryTypeOK, TypeOK
  <2>3. PollsAreFailures'
    BY <2>1, <2>2, BoundStays DEF RecoveryInv
  <2> QED
    BY <1>3, <2>1, <2>3 DEF RecoveryInv
<1>6. ASSUME NEW p \in Pollers, NEW t \in TaskIds, Tick(p, t)
      PROVE  RecoveryInv'
  <2> DEFINE state == [step |-> "read", task |-> t]
  <2>1. /\ PollerTo(p, state) /\ poller[p].step = "idle"
        /\ polls' = polls /\ state.step = "read"
    BY <1>6 DEF Tick, manager, Idle
  <2> HIDE DEF state
  <2>2. PollsAreFailures'
    BY <1>1, <2>1, BoundOfMove DEF RecoveryInv
  <2>3. poller'[p] = state /\ \A k \in Pollers : k # p => poller'[k] = poller[k]
    BY <2>1 DEF PollerTo, RecoveryTypeOK
  <2>4. \A k \in Pollers : PollCounted(poller'[k], failures)
    BY <2>1, <2>3 DEF RecoveryInv, PollCounted, RowSteps
  <2> QED
    BY <1>3, <2>2, <2>4
<1> QED
  BY <1>4, <1>5, <1>6 DEF ManagerLoop

\* A poll counts its failures before it tests them, and pays back after that.
LEMMA PollRefunds ==
    ASSUME RecoveryTypeOK, RecoveryTypeOK', RecoveryInv, NEW p \in Pollers,
           ContinuePoll(p)
    PROVE  RecoveryInv'
<1> DEFINE q == poller[p]
<1>t. TypeOK /\ TypeOK' /\ q \in PollerState /\ PollCounted(q, failures)
  BY DEF RecoveryTypeOK, RecoveryInv
<1>r. q.step \in RowSteps =>
         /\ q \in [step : RowSteps, task : TaskIds, row : TaskRow]
         /\ q.task \in TaskIds /\ q.row \in TaskRow
         /\ q.row.retries =< failures[q.task]
  BY <1>t, PollHoldsRow DEF PollCounted
<1>c. q.step \in {"count", "test"} =>
         /\ q.task \in TaskIds /\ q.row \in TaskRow
         /\ q.row.retries =< failures[q.task]
  BY <1>t, PollHoldsCount DEF PollCounted
\* Where the poll moves to a counted state, no failure is added, and no count.
<1>g. ASSUME UNCHANGED <<handler, worker, failures, resume>>,
             \A t \in TaskIds : refunds'[t] = refunds[t] \/ failures[t] > MaxPolls,
             \/ task' = task
             \/ \E t \in TaskIds, row \in TaskRow :
                   Saved(t, row) /\ row.retries =< failures[t],
             NEW state, PollerTo(p, state), PollCounted(state, failures),
             PollsAreFailures'
      PROVE  RecoveryInv'
  <2>1. poller'[p] = state /\ \A k \in Pollers : k # p => poller'[k] = poller[k]
    BY <1>g DEF PollerTo, RecoveryTypeOK
  <2>2. \A k \in Pollers : PollCounted(poller'[k], failures)
    BY <1>g, <2>1 DEF RecoveryInv
  <2>3. ResumeCounted'
    BY <1>g DEF RecoveryInv, ResumeCounted
  <2> QED
    BY <1>g, <2>2, <2>3, QuietStep
\* The same for a poll that has nothing to count before and after.
<1>h. ASSUME UNCHANGED <<handler, worker, failures, resume, polls>>,
             \A t \in TaskIds : refunds'[t] = refunds[t] \/ failures[t] > MaxPolls,
             \/ task' = task
             \/ \E t \in TaskIds, row \in TaskRow :
                   Saved(t, row) /\ row.retries =< failures[t],
             NEW state, PollerTo(p, state), PollCounted(state, failures),
             q.step \notin {"error", "count"}, state.step \notin {"error", "count"}
      PROVE  RecoveryInv'
  <2>1. PollsAreFailures'
    BY <1>h, BoundOfMove DEF RecoveryInv
  <2> QED
    BY <1>g, <1>h, <2>1
<1>1. CASE PollRead(p)
  <2>1. q.task \in TaskIds /\ q.step = "read"
    BY <1>t, <1>1, PollHoldsTask DEF PollRead
  <2>2. task'[q.task] = task[q.task] /\ UNCHANGED <<handler, worker, failures, refunds, task, resume, polls>>
    BY <1>1 DEF PollRead, vars, manager
  <2>3. CASE PollerTo(p, [step |-> "remove", task |-> q.task])
    <3>1. PollCounted([step |-> "remove", task |-> q.task], failures)
      BY DEF PollCounted, RowSteps
    <3> QED
      BY <1>h, <2>1, <2>2, <2>3, <3>1
  <2>4. CASE PollerTo(p, [step |-> "execute", task |-> q.task, row |-> task[q.task]])
    <3> DEFINE state == [step |-> "execute", task |-> q.task, row |-> task[q.task]]
    <3>1. poller'[p] = state
      BY <2>4 DEF PollerTo, RecoveryTypeOK
    <3>2. state \in PollerState
      BY <3>1 DEF RecoveryTypeOK
    <3>3. task[q.task] \in TaskRow
      BY <3>2, PollHoldsRow DEF RowSteps
    <3>4. task[q.task].retries =< failures[q.task]
      BY <2>1, <3>3, NoTaskAssumption DEF RecoveryInv, RetriesAreFailures
    <3>5. PollCounted(state, failures)
      BY <3>4 DEF PollCounted
    <3> QED
      BY <1>h, <2>1, <2>2, <2>4, <3>5
  <2> QED
    BY <1>1, <2>3, <2>4 DEF PollRead
<1>2. CASE PollExecute(p)
  <2>0. UNCHANGED <<worker, resume, polls>>
    BY <1>2 DEF PollExecute, manager
  <2>1. CASE Poll!Submit(p)
    <3>1. /\ q.step \in RowSteps /\ q.step = "execute"
          /\ UNCHANGED <<task, handler, refunds, failures>>
      BY <2>1, PollIsExecution DEF RowSteps
    <3>2. /\ [q EXCEPT !.step = "poll"].step = "poll"
          /\ [q EXCEPT !.step = "poll"].task = q.task
          /\ [q EXCEPT !.step = "poll"].row = q.row
      BY <1>r, <3>1
    <3>3. /\ [q EXCEPT !.step = "save_remote",
                       !.row.remote = submits[q.task] + 1].step = "save_remote"
          /\ [q EXCEPT !.step = "save_remote",
                       !.row.remote = submits[q.task] + 1].task = q.task
          /\ [q EXCEPT !.step = "save_remote",
                       !.row.remote = submits[q.task] + 1].row
             = [q.row EXCEPT !.remote = submits[q.task] + 1]
      BY <1>r, <3>1
    <3>4. [q.row EXCEPT !.remote = submits[q.task] + 1].retries = q.row.retries
      BY <1>r, <3>1 DEF TaskRow
    <3>5. /\ PollCounted([q EXCEPT !.step = "poll"], failures)
          /\ PollCounted([q EXCEPT !.step = "save_remote",
                                   !.row.remote = submits[q.task] + 1], failures)
      BY <1>r, <3>1, <3>2, <3>3, <3>4 DEF PollCounted
    <3>6. \/ PollerTo(p, [q EXCEPT !.step = "poll"])
          \/ PollerTo(p, [q EXCEPT !.step = "save_remote",
                             !.row.remote = submits[q.task] + 1])
      BY <2>1, PollIsExecution
    <3>7. CASE PollerTo(p, [q EXCEPT !.step = "poll"])
      BY <1>h, <2>0, <3>1, <3>2, <3>5, <3>7
    <3>8. CASE PollerTo(p, [q EXCEPT !.step = "save_remote",
                              !.row.remote = submits[q.task] + 1])
      BY <1>h, <2>0, <3>1, <3>3, <3>5, <3>8
    <3> QED
      BY <3>6, <3>7, <3>8
  <2>2. CASE Poll!SaveRemote(p)
    <3>1. /\ q.step = "save_remote" /\ q.step \in RowSteps /\ Saved(q.task, q.row)
          /\ PollerTo(p, [q EXCEPT !.step = "poll"])
          /\ UNCHANGED <<handler, refunds, failures>>
      BY <2>2, PollIsExecution DEF RowSteps, history
    <3>2. /\ [q EXCEPT !.step = "poll"].step = "poll"
          /\ [q EXCEPT !.step = "poll"].task = q.task
          /\ [q EXCEPT !.step = "poll"].row = q.row
      BY <1>r, <3>1
    <3>3. PollCounted([q EXCEPT !.step = "poll"], failures)
      BY <1>r, <3>1, <3>2 DEF PollCounted
    <3> QED
      BY <1>h, <1>r, <2>0, <3>1, <3>2, <3>3
  <2>3. CASE Poll!Succeed(p)
    <3> DEFINE state == [q EXCEPT !.step = "done", !.row.status = "completed",
                                  !.row.result = TRUE]
    <3>1. /\ q.step = "poll" /\ q.step \in RowSteps /\ PollerTo(p, state)
          /\ UNCHANGED <<task, handler, refunds, failures>>
      BY <2>3, PollIsExecution DEF RowSteps, history
    <3>2. /\ state.step = "done" /\ state.task = q.task
          /\ state.row = [q.row EXCEPT !.status = "completed", !.result = TRUE]
      BY <1>r, <3>1
    <3>3. [q.row EXCEPT !.status = "completed", !.result = TRUE].retries = q.row.retries
      BY <1>r, <3>1 DEF TaskRow
    <3> HIDE DEF state
    <3>4. PollCounted(state, failures)
      BY <1>r, <3>1, <3>2, <3>3 DEF PollCounted
    <3> QED
      BY <1>h, <2>0, <3>1, <3>2, <3>4
\* The failure is there to be counted.
  <2>4. CASE Poll!Fail(p)
    <3> DEFINE state == [q EXCEPT !.step = "error"]
    <3>1. /\ q.step \in {"execute", "poll"} /\ q.step \in RowSteps
          /\ failures' = [failures EXCEPT ![q.task] = @ + 1]
          /\ PollerTo(p, state)
          /\ UNCHANGED <<task, handler, refunds>>
      BY <2>4, PollIsExecution DEF RowSteps
    <3>2. state.step = "error" /\ state.task = q.task /\ state.row = q.row
      BY <1>r, <3>1
    <3> HIDE DEF state
    <3>3. PollsAreFailures'
      <4>1. PollsAreFailures /\ UNCHANGED polls
        BY <2>0 DEF RecoveryInv
      <4>2. /\ poller'[p].step = "error" /\ poller'[p].task = q.task
            /\ \A k \in Pollers : k # p => poller'[k] = poller[k]
        BY <3>1, <3>2 DEF PollerTo, RecoveryTypeOK
      <4> QED
        BY <3>1, <4>1, <4>2, BoundOfFailure
    <3>4. /\ failures \in [TaskIds -> Nat] /\ failures' \in [TaskIds -> Nat]
          /\ \A t \in TaskIds : failures[t] =< failures'[t]
      BY <1>t, <1>r, <3>1 DEF TypeOK
    <3>5. /\ poller'[p] = state /\ state \in PollerState
          /\ \A k \in Pollers : k # p => poller'[k] = poller[k]
      BY <3>1 DEF PollerTo, RecoveryTypeOK
    <3>6. PollCounted(state, failures)
      BY <1>r, <3>1, <3>2 DEF PollCounted
    <3>7. ASSUME NEW k \in Pollers PROVE PollCounted(poller'[k], failures')
      <4>1. poller'[k] \in PollerState /\ PollCounted(poller'[k], failures)
        BY <3>5, <3>6 DEF RecoveryTypeOK, RecoveryInv
      <4> QED
        BY <3>4, <4>1, PollCountedMonotone
    <3>8. ResumeCounted'
      <4>1. resume.step \in {"each", "push"} => resume.rows \subseteq TaskIds \X TaskRow
        BY DEF RecoveryTypeOK, ResumeState
      <4>2. ASSUME resume.step \in {"each", "push"}, NEW r \in resume.rows
            PROVE  r[2].retries =< failures'[r[1]]
        <5>1. r[1] \in TaskIds /\ r[2] \in TaskRow
          BY <4>1, <4>2
        <5>2. r[2].retries \in Nat /\ r[2].retries =< failures[r[1]]
          BY <4>2, <5>1, RetriesType DEF RecoveryInv, ResumeCounted
        <5> QED
          BY <3>4, <5>1, <5>2
      <4> QED
        BY <2>0, <4>2 DEF ResumeCounted
    <3>9. RefundOnlyAfterFailures'
      BY <1>t, <3>1, <3>4, RefundsStayBehind DEF RecoveryInv
    <3>10. RetriesAreFailures'
      BY <1>t, <2>0, <3>1, <3>4, FailuresKeepCounts DEF RecoveryInv
    <3> QED
      BY <3>3, <3>7, <3>8, <3>9, <3>10 DEF RecoveryInv
  <2> QED
    BY <1>2, <2>1, <2>2, <2>3, <2>4 DEF PollExecute
<1>3. CASE PollComplete(p) \/ PollGiveUp(p)
  <2>1. /\ q.step \in {"done", "give_up"} /\ q.step \in RowSteps
        /\ Saved(q.task, q.row)
        /\ PollerTo(p, [step |-> "remove", task |-> q.task])
        /\ UNCHANGED <<handler, worker, failures, refunds, resume, polls>>
    BY <1>3 DEF PollComplete, PollGiveUp, RowSteps, history, manager
  <2>2. PollCounted([step |-> "remove", task |-> q.task], failures)
    BY DEF PollCounted, RowSteps
  <2> QED
    BY <1>h, <1>r, <2>1, <2>2
<1>4. CASE PollFailed(p)
  <2> DEFINE state == [step |-> "count", task |-> q.task, row |-> q.row,
                       seen |-> polls[q.task]]
  <2>1. /\ q.step \in RowSteps /\ PollerTo(p, state)
        /\ UNCHANGED <<handler, worker, failures, refunds, task, resume>>
    BY <1>4 DEF PollFailed, RowSteps, vars, manager
  <2>2. state.step = "count" /\ state.task = q.task /\ state.row = q.row
    OBVIOUS
  <2> HIDE DEF state
  <2>3. PollCounted(state, failures)
    BY <1>r, <2>1, <2>2 DEF PollCounted
  <2>4. PollsAreFailures'
    BY <1>4, BoundOfRead DEF RecoveryInv
  <2> QED
    BY <1>g, <2>1, <2>3, <2>4
<1>5. CASE CountPoll(p)
  <2> DEFINE state == [step |-> "test", task |-> q.task, row |-> q.row]
  <2>1. /\ q.step = "count" /\ PollerTo(p, state)
        /\ UNCHANGED <<handler, worker, failures, refunds, task, resume>>
    BY <1>5 DEF CountPoll, vars
  <2>2. state.step = "test" /\ state.task = q.task /\ state.row = q.row
    OBVIOUS
  <2> HIDE DEF state
  <2>3. PollCounted(state, failures)
    BY <1>c, <2>1, <2>2 DEF PollCounted
  <2>4. PollsAreFailures'
    BY <1>5, BoundOfWrite DEF RecoveryInv
  <2> QED
    BY <1>g, <2>1, <2>3, <2>4
\* The count is no more than the failures, so that these exceed MaxPolls too.
<1>6. CASE TestPolls(p)
  <2>1. /\ q.step = "test"
        /\ UNCHANGED <<handler, worker, failures, refunds, task, resume, polls>>
    BY <1>6 DEF TestPolls, vars, manager
  <2>2. CASE PollerTo(p, Idle)
    <3>1. PollCounted(Idle, failures) /\ Idle.step = "idle"
      BY DEF PollCounted, Idle, RowSteps
    <3> QED
      BY <1>h, <2>1, <2>2, <3>1
  <2>3. CASE PollsExhausted(q.task) /\ ~ PollerTo(p, Idle)
    <3> DEFINE s == IF q.row.cost THEN "refund" ELSE "give_up"
               state == [step |-> s, task |-> q.task,
                         row |-> [q.row EXCEPT !.status = "failed"]]
    <3>1. PollerTo(p, state)
      BY <1>6, <2>3 DEF TestPolls
    <3>2. s \in {"refund", "give_up"}
      OBVIOUS
    <3> HIDE DEF s
    <3>3. /\ state.step \in {"refund", "give_up"} /\ state.task = q.task
          /\ state.row = [q.row EXCEPT !.status = "failed"]
      BY <3>2
    <3>4. [q.row EXCEPT !.status = "failed"].retries = q.row.retries
      BY <1>c, <2>1 DEF TaskRow
    <3>5. failures[q.task] > MaxPolls
      <4> DEFINE n == Cardinality(Uncounted(q.task))
      <4>1. polls[q.task] > MaxPolls
        BY <2>3 DEF PollsExhausted
      <4>2. n \in Nat /\ polls[q.task] \in Nat /\ failures[q.task] \in Nat
        BY <1>c, <2>1, UncountedIsFinite DEF RecoveryTypeOK, TypeOK
      <4>3. polls[q.task] + n =< failures[q.task]
        BY <1>c, <2>1 DEF RecoveryInv, PollsAreFailures
      <4> HIDE DEF n
      <4> QED
        BY <4>1, <4>2, <4>3, PollsAssumption
    <3> HIDE DEF state
    <3>6. PollCounted(state, failures)
      BY <1>c, <2>1, <3>3, <3>4, <3>5 DEF PollCounted
    <3> QED
      BY <1>h, <2>1, <3>1, <3>3, <3>6
  <2> QED
    BY <1>6, <2>2, <2>3 DEF TestPolls
<1>7. CASE PollRefund(p)
  <2> DEFINE state == [q EXCEPT !.step = "give_up"]
  <2>1. Poll!Refund(p) /\ UNCHANGED <<worker, resume, polls>>
    BY <1>7 DEF PollRefund, manager
  <2>2. /\ q.step = "refund" /\ q.step \in RowSteps /\ PollerTo(p, state)
        /\ refunds' = refunds \/ refunds' = [refunds EXCEPT ![q.task] = @ + 1]
        /\ UNCHANGED <<task, handler, failures>>
    BY <2>1, PollIsExecution DEF RowSteps
  <2>3. failures[q.task] > MaxPolls
    BY <1>t, <2>2 DEF PollCounted
  <2>4. \A t \in TaskIds : refunds'[t] = refunds[t] \/ failures[t] > MaxPolls
    BY <1>t, <2>2, <2>3 DEF TypeOK
  <2>5. state.step = "give_up" /\ state.task = q.task /\ state.row = q.row
    BY <1>r, <2>2
  <2> HIDE DEF state
  <2>6. PollCounted(state, failures)
    BY <1>r, <2>2, <2>5 DEF PollCounted
  <2> QED
    BY <1>h, <2>1, <2>2, <2>4, <2>5, <2>6
<1>8. CASE PollRemove(p)
  <2>1. /\ q.step = "remove" /\ PollerTo(p, Idle)
        /\ UNCHANGED <<handler, worker, failures, refunds, task, resume, polls>>
    BY <1>8 DEF PollRemove, vars
  <2>2. PollCounted(Idle, failures) /\ Idle.step = "idle"
    BY DEF PollCounted, Idle, RowSteps
  <2> QED
    BY <1>h, <2>1, <2>2
<1> QED
  BY <1>1, <1>2, <1>3, <1>4, <1>5, <1>6, <1>7, <1>8 DEF ContinuePoll

\* The induction: in RecoveryInv the bound carries the refunds of polls, and
\* RetriesAreFailures those of executions.
THEOREM RecoveryRefundInv == RecoverySpec => []RecoveryInv
<1>1. RecoveryInit => RecoveryInv
  <2> SUFFICES ASSUME RecoveryInit PROVE RecoveryInv
    OBVIOUS
  <2>1. RetriesAreFailures
    BY DEF RecoveryInit, Init, RetriesAreFailures, Idle
  <2>2. \A p \in Pollers : poller[p].step = "idle"
    BY DEF RecoveryInit, Idle
  <2>3. \A p \in Pollers : PollCounted(poller[p], failures)
    BY <2>2 DEF PollCounted, RowSteps
  <2>4. \A t \in TaskIds : Uncounted(t) = {} /\ Cardinality(Uncounted(t)) = 0
    BY <2>2, FS_EmptySet DEF Uncounted
  <2>5. PollsAreFailures
    BY <2>2, <2>4 DEF PollsAreFailures, RecoveryInit, Init
  <2>6. ResumeCounted /\ RefundOnlyAfterFailures
    BY DEF RecoveryInit, Init, ResumeCounted, RefundOnlyAfterFailures
  <2> QED
    BY <2>1, <2>3, <2>5, <2>6 DEF RecoveryInv
<1>2. RecoveryTypeOK /\ RecoveryTypeOK' /\ RecoveryInv /\ [RecoveryNext]_allVars
         => RecoveryInv'
  BY TasksRefundStep, CrashRefunds, ResumeRefunds, ManagerRefunds, PollRefunds
  DEF RecoveryNext, allVars
<1> QED
  BY <1>1, <1>2, RecoveryTypes, PTL DEF RecoverySpec

\* However often the process restarts, and however polls of a task overlap and
\* race for its count, money goes back only after the failures that are to be
\* put up with (task_service.go:441-467, polling_manager.go:157-178).
THEOREM RecoveryRefunds == RecoverySpec => []RefundOnlyAfterFailures
<1>1. RecoveryInv => RefundOnlyAfterFailures
  BY DEF RecoveryInv
<1> QED
  BY <1>1, RecoveryRefundInv, PTL

-----------------------------------------------------------------------------
(* No poll before a submission.  A remote id, in the row or in whatever     *)
(* copy of it, is the number of a job the service has accepted; it accepts  *)
(* more and forgets none, so that a copy that was right stays right, and    *)
(* what was let into the table stays there rightly.                         *)

\* What a goroutine holds names no job that was not accepted.
Accepted(q, s) ==
    q.step \in RowSteps \union {"save", "count", "test"} =>
       q.row.remote =< s[q.task]

\* A poll is of a task that was submitted.
PollAccepted(q, s) == q.step # "idle" => s[q.task] > 0

TableAccepted ==
    \A t \in TaskIds : task[t] # NoTask => task[t].remote =< submits[t]

HeldAccepted ==
    /\ \A h \in Handlers : Accepted(handler[h], submits)
    /\ \A w \in Workers : Accepted(worker[w], submits)
    /\ \A p \in Pollers : Accepted(poller[p], submits)

ResumeAccepted ==
    resume.step \in {"each", "push"} =>
       \A r \in resume.rows : r[2].remote =< submits[r[1]]

PolledAccepted ==
    /\ \A t \in polled : submits[t] > 0
    /\ \A i \in DOMAIN addChan : submits[addChan[i]] > 0
    /\ \A p \in Pollers : PollAccepted(poller[p], submits)

AcceptedInv == TableAccepted /\ HeldAccepted /\ ResumeAccepted /\ PolledAccepted

\* Remote ids are numbers, and the assignments of an execution keep them.
LEMMA RemoteType ==
    ASSUME NEW row \in TaskRow, NEW status, NEW result, NEW retries, NEW input, NEW n
    PROVE  /\ row.remote \in Nat
           /\ [row EXCEPT !.status = status].remote = row.remote
           /\ [row EXCEPT !.status = status, !.result = result].remote = row.remote
           /\ [row EXCEPT !.retries = retries, !.status = status].remote = row.remote
           /\ [row EXCEPT !.status = status, !.retries = retries,
                          !.result = result].remote = row.remote
           /\ [row EXCEPT !.input = input].remote = row.remote
           /\ [row EXCEPT !.remote = n].remote = n
BY DEF TaskRow

\* Another job that is accepted disturbs no copy.
LEMMA AcceptedMonotone ==
    ASSUME NEW q, NEW s \in [TaskIds -> Nat], NEW z \in [TaskIds -> Nat],
           \A t \in TaskIds : s[t] =< z[t], Accepted(q, s),
           q.step \in RowSteps \union {"save", "count", "test"} =>
              q.task \in TaskIds /\ q.row \in TaskRow
    PROVE  Accepted(q, z)
<1>1. CASE q.step \in RowSteps \union {"save", "count", "test"}
  <2>1. q.task \in TaskIds /\ q.row.remote \in Nat
    BY <1>1, RemoteType
  <2>2. s[q.task] \in Nat /\ z[q.task] \in Nat /\ s[q.task] =< z[q.task]
    BY <2>1
  <2> QED
    BY <1>1, <2>1, <2>2 DEF Accepted
<1>2. CASE q.step \notin RowSteps \union {"save", "count", "test"}
  BY <1>2 DEF Accepted
<1> QED
  BY <1>1, <1>2

\* A poll that is not idle has a task.
LEMMA PollNamesTask ==
    ASSUME NEW q \in PollerState, q.step # "idle"
    PROVE  q.task \in TaskIds
BY DEF PollerState, Poll!WorkerState, Poll!Idle

\* What every kind of step has to show: the job counts grow, and whatever
\* changes is accepted after it.
LEMMA AcceptedStep ==
    ASSUME RecoveryTypeOK, RecoveryTypeOK', AcceptedInv,
           \A t \in TaskIds : submits[t] =< submits'[t],
           \A t \in TaskIds : \/ task'[t] = task[t]
                              \/ task'[t].remote =< submits'[t],
           \A h \in Handlers : \/ handler'[h] = handler[h]
                               \/ Accepted(handler'[h], submits'),
           \A w \in Workers : \/ worker'[w] = worker[w]
                              \/ Accepted(worker'[w], submits'),
           \A p \in Pollers : \/ poller'[p] = poller[p]
                              \/ /\ Accepted(poller'[p], submits')
                                 /\ PollAccepted(poller'[p], submits'),
           resume' = resume \/ ResumeAccepted',
           \A t \in polled' : t \in polled \/ submits'[t] > 0,
           \A i \in DOMAIN addChan' : \/ \E j \in DOMAIN addChan : addChan'[i] = addChan[j]
                                      \/ submits'[addChan'[i]] > 0
    PROVE  AcceptedInv'
<1>0. /\ submits \in [TaskIds -> Nat] /\ submits' \in [TaskIds -> Nat]
      /\ task \in [TaskIds -> TaskRow \union {NoTask}]
      /\ handler \in [Handlers -> HandlerState] /\ worker \in [Workers -> WorkerState]
      /\ poller \in [Pollers -> PollerState] /\ resume \in ResumeState
      /\ polled \subseteq TaskIds /\ addChan \in Seq(TaskIds)
  BY DEF RecoveryTypeOK, TypeOK
<1>1. TableAccepted'
  <2> SUFFICES ASSUME NEW t \in TaskIds, task'[t] = task[t], task[t] # NoTask
               PROVE  task[t].remote =< submits'[t]
    BY DEF TableAccepted
  <2>1. task[t].remote \in Nat /\ submits[t] \in Nat /\ submits'[t] \in Nat
    BY <1>0, RemoteType
  <2>2. task[t].remote =< submits[t] /\ submits[t] =< submits'[t]
    BY DEF AcceptedInv, TableAccepted
  <2> QED
    BY <2>1, <2>2
<1>2. HeldAccepted'
  <2>1. ASSUME NEW h \in Handlers, handler'[h] = handler[h]
        PROVE  Accepted(handler[h], submits')
    <3>1. handler[h].step \in RowSteps \union {"save", "count", "test"} =>
             handler[h].task \in TaskIds /\ handler[h].row \in TaskRow
      BY <1>0, HandlerHoldsRow DEF HandlerState, Idle, RowSteps
    <3>2. Accepted(handler[h], submits)
      BY DEF AcceptedInv, HeldAccepted
    <3> QED
      BY <1>0, <3>1, <3>2, AcceptedMonotone
  <2>2. ASSUME NEW w \in Workers, worker'[w] = worker[w]
        PROVE  Accepted(worker[w], submits')
    <3>1. worker[w].step \in RowSteps \union {"save", "count", "test"} =>
             worker[w].task \in TaskIds /\ worker[w].row \in TaskRow
      BY <1>0, WorkerHoldsRow DEF WorkerState, Idle, RowSteps
    <3>2. Accepted(worker[w], submits)
      BY DEF AcceptedInv, HeldAccepted
    <3> QED
      BY <1>0, <3>1, <3>2, AcceptedMonotone
  <2>3. ASSUME NEW p \in Pollers, poller'[p] = poller[p]
        PROVE  Accepted(poller[p], submits')
    <3>0. poller[p] \in PollerState /\ poller[p].step # "save"
      BY <1>0 DEF PollerState, Poll!WorkerState, Poll!Idle
    <3>1. poller[p].step \in RowSteps \union {"save", "count", "test"} =>
             poller[p].task \in TaskIds /\ poller[p].row \in TaskRow
      BY <3>0, PollHoldsRow, PollHoldsCount
    <3>2. Accepted(poller[p], submits)
      BY DEF AcceptedInv, HeldAccepted
    <3> QED
      BY <1>0, <3>1, <3>2, AcceptedMonotone
  <2> QED
    BY <2>1, <2>2, <2>3 DEF HeldAccepted
<1>3. ResumeAccepted'
  <2> SUFFICES ASSUME resume' = resume, resume.step \in {"each", "push"},
                      NEW r \in resume.rows
               PROVE  r[2].remote =< submits'[r[1]]
    BY DEF ResumeAccepted
  <2>1. r[1] \in TaskIds /\ r[2] \in TaskRow
    BY <1>0 DEF ResumeState
  <2>2. r[2].remote \in Nat /\ submits[r[1]] \in Nat /\ submits'[r[1]] \in Nat
    BY <1>0, <2>1, RemoteType
  <2>3. r[2].remote =< submits[r[1]] /\ submits[r[1]] =< submits'[r[1]]
    BY <2>1 DEF AcceptedInv, ResumeAccepted
  <2> QED
    BY <2>2, <2>3
<1>4. PolledAccepted'
  <2>0. \A t \in TaskIds : submits[t] > 0 => submits'[t] > 0
    BY <1>0
  <2>1. \A t \in polled' : submits'[t] > 0
    BY <1>0, <2>0 DEF AcceptedInv, PolledAccepted
  <2>2. \A i \in DOMAIN addChan' : submits'[addChan'[i]] > 0
    <3>1. \A j \in DOMAIN addChan : addChan[j] \in TaskIds /\ submits[addChan[j]] > 0
      BY <1>0 DEF AcceptedInv, PolledAccepted
    <3> QED
      BY <2>0, <3>1
  <2>3. ASSUME NEW p \in Pollers, poller'[p] = poller[p]
        PROVE  PollAccepted(poller[p], submits')
    <3>1. poller[p].step # "idle" => poller[p].task \in TaskIds
      BY <1>0, PollNamesTask
    <3> QED
      BY <2>0, <3>1 DEF AcceptedInv, PolledAccepted, PollAccepted
  <2> QED
    BY <2>1, <2>2, <2>3 DEF PolledAccepted
<1> QED
  BY <1>1, <1>2, <1>3, <1>4 DEF AcceptedInv

\* A row that is saved and names no job too many.
LEMMA SavedAccepted ==
    ASSUME TypeOK, NEW t \in TaskIds, NEW row, Saved(t, row), row.remote =< submits[t],
           UNCHANGED submits
    PROVE  \A x \in TaskIds : task'[x] = task[x] \/ task'[x].remote =< submits'[x]
BY DEF TypeOK, Saved

\* A request moves to a state and names no job too many.
LEMMA RequestMoves ==
    ASSUME RecoveryTypeOK, RecoveryTypeOK', AcceptedInv,
           UNCHANGED <<worker, submits, recoveryVars>>,
           NEW h \in Handlers, NEW state, HandlerTo(h, state), Accepted(state, submits),
           \A t \in TaskIds : task'[t] = task[t] \/ task'[t].remote =< submits'[t]
    PROVE  AcceptedInv'
<1>1. \A t \in TaskIds : submits[t] =< submits'[t]
  BY DEF RecoveryTypeOK, TypeOK
<1>2. \A k \in Handlers : handler'[k] = handler[k] \/ Accepted(handler'[k], submits')
  BY DEF HandlerTo, RecoveryTypeOK, TypeOK
<1>3. UNCHANGED <<worker, poller, resume, polled, addChan>>
  BY DEF recoveryVars, manager
<1> QED
  BY <1>1, <1>2, <1>3, AcceptedStep

\* The same of an execution, which may have another job accepted.
LEMMA ExecutionMoves ==
    ASSUME RecoveryTypeOK, RecoveryTypeOK', AcceptedInv,
           UNCHANGED <<handler, recoveryVars>>,
           \A t \in TaskIds : submits[t] =< submits'[t],
           NEW w \in Workers, NEW state, WorkerTo(w, state), Accepted(state, submits'),
           \A t \in TaskIds : task'[t] = task[t] \/ task'[t].remote =< submits'[t]
    PROVE  AcceptedInv'
<1>1. \A k \in Workers : worker'[k] = worker[k] \/ Accepted(worker'[k], submits')
  BY DEF WorkerTo, RecoveryTypeOK, TypeOK
<1>2. UNCHANGED <<handler, poller, resume, polled, addChan>>
  BY DEF recoveryVars, manager
<1> QED
  BY <1>1, <1>2, AcceptedStep

\* The same of a poll, which is of a task that was submitted.
LEMMA PollMoves ==
    ASSUME RecoveryTypeOK, RecoveryTypeOK', AcceptedInv,
           UNCHANGED <<handler, worker, resume, polled, addChan>>,
           \A t \in TaskIds : submits[t] =< submits'[t],
           NEW p \in Pollers, NEW state, PollerTo(p, state),
           Accepted(state, submits'), PollAccepted(state, submits'),
           \A t \in TaskIds : task'[t] = task[t] \/ task'[t].remote =< submits'[t]
    PROVE  AcceptedInv'
<1>1. \A k \in Pollers : \/ poller'[k] = poller[k]
                         \/ Accepted(poller'[k], submits') /\ PollAccepted(poller'[k], submits')
  BY DEF PollerTo, RecoveryTypeOK
<1> QED
  BY <1>1, AcceptedStep

\* The steps of requests: a row starts without a job and is saved as read.
LEMMA RequestAccepted ==
    ASSUME RecoveryTypeOK, RecoveryTypeOK', AcceptedInv, UNCHANGED recoveryVars,
           NEW h \in Handlers,
           \/ \E t \in TaskIds : BeginHandler(h, t)
           \/ ContinueHandler(h)
           \/ HandlerFails(h)
    PROVE  AcceptedInv'
<1>0. /\ TypeOK /\ submits \in [TaskIds -> Nat]
      /\ task \in [TaskIds -> TaskRow \union {NoTask}]
  BY DEF RecoveryTypeOK, TypeOK
<1>i. Accepted(Idle, submits) /\ \A t : Accepted([step |-> "push", task |-> t], submits)
  BY DEF Accepted, Idle, RowSteps
<1>1. ASSUME NEW t \in TaskIds, NEW input \in Kinds, NEW cost \in BOOLEAN,
             CreateTask(h, t, input, cost)
      PROVE  AcceptedInv'
  <2>1. UNCHANGED <<worker, submits>>
    BY <1>1 DEF CreateTask, history
  <2>2. \A x \in TaskIds : task'[x] = task[x] \/ task'[x].remote = 0
    BY <1>0, <1>1 DEF CreateTask
  <2>3. \A x \in TaskIds : task'[x] = task[x] \/ task'[x].remote =< submits'[x]
    BY <1>0, <2>1, <2>2
  <2>4. HandlerTo(h, Idle) \/ HandlerTo(h, [step |-> "push", task |-> t])
    BY <1>1 DEF CreateTask
  <2> QED
    BY <1>i, <2>1, <2>3, <2>4, RequestMoves
<1>2. ASSUME NEW t \in TaskIds, NEW row, NEW push, ReadForSave(h, t, row, push),
             task[t] # NoTask, row.remote = task[t].remote
      PROVE  AcceptedInv'
  <2> DEFINE state == [step |-> "save", task |-> t, row |-> row, push |-> push]
  <2>1. state.task = t /\ state.row = row /\ HandlerTo(h, state)
        /\ UNCHANGED <<task, worker, submits>>
    BY <1>2 DEF ReadForSave
  <2>2. row.remote =< submits[t]
    BY <1>2 DEF AcceptedInv, TableAccepted
  <2> HIDE DEF state
  <2>3. Accepted(state, submits)
    BY <2>1, <2>2 DEF Accepted
  <2> QED
    BY <2>1, <2>3, RequestMoves
<1>3. ASSUME NEW t \in TaskIds, BeginHandler(h, t)
      PROVE  AcceptedInv'
  <2>1. task[t] # NoTask => task[t] \in TaskRow
    BY <1>0
  <2>2. CASE \E input \in Kinds, cost \in BOOLEAN : CreateTask(h, t, input, cost)
    BY <1>1, <2>2
  <2>3. CASE ApproveTask(h, t)
    <3>1. [task[t] EXCEPT !.status = "pending_execution"].remote = task[t].remote
      BY <2>1, <2>3, RemoteType DEF ApproveTask
    <3> QED
      BY <1>2, <2>3, <3>1 DEF ApproveTask
  <2>4. ASSUME NEW input \in Kinds, UpdateTask(h, t, input)
        PROVE  AcceptedInv'
    <3>1. [task[t] EXCEPT !.input = input].remote = task[t].remote
      BY <2>1, <2>4, RemoteType DEF UpdateTask
    <3> QED
      BY <1>2, <2>4, <3>1 DEF UpdateTask
  <2>5. CASE RetryTask(h, t)
    <3>1. [task[t] EXCEPT !.status = "pending_execution", !.retries = 0,
                          !.result = FALSE].remote = task[t].remote
      BY <2>1, <2>5, RemoteType DEF RetryTask
    <3> QED
      BY <1>2, <2>5, <3>1 DEF RetryTask
  <2>6. CASE CancelTask(h, t)
    <3>1. [task[t] EXCEPT !.status = "cancelled"].remote = task[t].remote
      BY <2>1, <2>6, RemoteType DEF CancelTask
    <3> QED
      BY <1>2, <2>6, <3>1 DEF CancelTask
  <2> QED
    BY <1>3, <2>2, <2>3, <2>4, <2>5, <2>6 DEF BeginHandler
<1>4. CASE HandlerSave(h)
  <2>1. handler[h].task \in TaskIds /\ handler[h].row \in TaskRow
    BY <1>0, <1>4, HandlerHoldsRow DEF TypeOK, HandlerSave
  <2>2. UNCHANGED <<worker, submits>> /\ Saved(handler[h].task, handler[h].row)
    BY <1>4 DEF HandlerSave, Saved, history
  <2>3. handler[h].row.remote =< submits[handler[h].task]
    BY <1>4 DEF HandlerSave, AcceptedInv, HeldAccepted, Accepted
  <2>4. \A x \in TaskIds : task'[x] = task[x] \/ task'[x].remote =< submits'[x]
    BY <1>0, <2>1, <2>2, <2>3, SavedAccepted
  <2>5. HandlerTo(h, Idle) \/ HandlerTo(h, [step |-> "push", task |-> handler[h].task])
    BY <1>4 DEF HandlerSave
  <2> QED
    BY <1>i, <2>2, <2>4, <2>5, RequestMoves
<1>5. CASE HandlerPush(h) \/ HandlerFails(h)
  <2>1. UNCHANGED <<task, worker, submits>> /\ HandlerTo(h, Idle)
    BY <1>5 DEF HandlerPush, HandlerFails, history
  <2> QED
    BY <1>i, <2>1, RequestMoves
<1> QED
  BY <1>3, <1>4, <1>5 DEF ContinueHandler

\* The count of accepted jobs stays or goes up by one.
LEMMA SubmitsGrow ==
    ASSUME RecoveryTypeOK, NEW u \in TaskIds,
           submits' = submits \/ submits' = [submits EXCEPT ![u] = @ + 1]
    PROVE  /\ \A t \in TaskIds : submits[t] =< submits'[t]
           /\ submits[u] \in Nat /\ submits'[u] \in Nat
           /\ submits' # submits => submits'[u] = submits[u] + 1
<1>1. submits \in [TaskIds -> Nat] /\ submits[u] \in Nat
  BY DEF RecoveryTypeOK, TypeOK
<1>2. CASE submits' = submits
  BY <1>1, <1>2
<1>3. CASE submits' = [submits EXCEPT ![u] = @ + 1]
  <2>1. submits'[u] = submits[u] + 1
    BY <1>1, <1>3
  <2>2. \A t \in TaskIds : t # u => submits'[t] = submits[t]
    BY <1>1, <1>3
  <2>3. \A t \in TaskIds : submits[t] \in Nat
    BY <1>1
  <2> QED
    BY <1>1, <2>1, <2>2, <2>3
<1> QED
  BY <1>2, <1>3

\* The steps of executions: the number of a new job is the count after it.
LEMMA ExecutionAccepted ==
    ASSUME RecoveryTypeOK, RecoveryTypeOK', AcceptedInv, UNCHANGED recoveryVars,
           NEW w \in Workers, Pop(w) \/ ContinueWorker(w)
    PROVE  AcceptedInv'
<1> DEFINE q == worker[w]
<1>0. TypeOK /\ submits \in [TaskIds -> Nat] /\ q \in WorkerState
  BY DEF RecoveryTypeOK, TypeOK
<1>i. /\ Accepted(Idle, submits')
      /\ \A t : Accepted([step |-> "read", task |-> t], submits')
      /\ \A t : Accepted([step |-> "requeue", task |-> t], submits')
  BY DEF Accepted, Idle, RowSteps
<1>r. q.step \in RowSteps =>
         /\ q \in [step : RowSteps, task : TaskIds, row : TaskRow]
         /\ q.task \in TaskIds /\ q.row \in TaskRow
         /\ q.row.remote \in Nat /\ q.row.remote =< submits[q.task]
  <2>1. q.step \in RowSteps => q.row.remote =< submits[q.task]
    BY DEF AcceptedInv, HeldAccepted, Accepted
  <2> QED
    BY <1>0, <2>1, WorkerHoldsRow, RemoteType DEF RowSteps
<1>1. CASE Pop(w)
  <2>1. /\ UNCHANGED <<task, handler, submits>>
        /\ WorkerTo(w, [step |-> "read", task |-> Head(queue)])
    BY <1>1 DEF Pop, history
  <2> QED
    BY <1>0, <1>i, <2>1, ExecutionMoves
<1>2. CASE ReadTask(w)
  <2> DEFINE row == [task[q.task] EXCEPT !.status = "processing"]
             state == [step |-> "start", task |-> q.task, row |-> row]
  <2>1. UNCHANGED <<task, handler, submits>>
    BY <1>2 DEF ReadTask, history
  <2>2. CASE WorkerTo(w, Idle)
    BY <1>0, <1>i, <2>1, <2>2, ExecutionMoves
  <2>3. CASE task[q.task] # NoTask /\ WorkerTo(w, state)
    <3>1. q.task \in TaskIds
      BY <1>0, <1>2, WorkerHoldsTask DEF ReadTask
    <3>2. task[q.task] \in TaskRow
      BY <2>3, <3>1 DEF RecoveryTypeOK, TypeOK
    <3>3. row.remote = task[q.task].remote
      BY <3>2, RemoteType
    <3>4. row.remote =< submits[q.task]
      BY <2>3, <3>1, <3>3 DEF AcceptedInv, TableAccepted
    <3>5. state.task = q.task /\ state.row = row
      OBVIOUS
    <3> HIDE DEF state, row
    <3>6. Accepted(state, submits')
      BY <2>1, <3>4, <3>5 DEF Accepted
    <3> QED
      BY <1>0, <2>1, <2>3, <3>6, ExecutionMoves
  <2> QED
    BY <1>2, <2>2, <2>3 DEF ReadTask
\* A row is saved as it is held, or with the retry counted.
<1>3. ASSUME q.step \in RowSteps, UNCHANGED <<handler, submits>>,
             NEW row, Saved(q.task, row), row.remote = q.row.remote,
             NEW state, WorkerTo(w, state),
             state.step \in RowSteps => state.task = q.task /\ state.row = q.row,
             state.step \notin {"save", "count", "test"}
      PROVE  AcceptedInv'
  <2>1. \A x \in TaskIds : task'[x] = task[x] \/ task'[x].remote =< submits'[x]
    BY <1>0, <1>r, <1>3, SavedAccepted
  <2>2. Accepted(state, submits')
    BY <1>r, <1>3 DEF Accepted
  <2> QED
    BY <1>0, <1>3, <2>1, <2>2, ExecutionMoves
<1>4. CASE StartTask(w) \/ SaveRemote(w)
  <2> DEFINE s == IF q.step = "start" THEN "execute" ELSE "poll"
             state == [q EXCEPT !.step = s]
  <2>1. /\ q.step \in RowSteps /\ UNCHANGED <<handler, submits>>
        /\ Saved(q.task, q.row) /\ WorkerTo(w, state)
    BY <1>4 DEF StartTask, SaveRemote, RowSteps, history
  <2>2. s \in {"execute", "poll"}
    OBVIOUS
  <2> HIDE DEF s
  <2>3. /\ state.step \in {"execute", "poll"}
        /\ state.task = q.task /\ state.row = q.row
    BY <1>r, <2>1, <2>2
  <2> HIDE DEF state
  <2> QED
    BY <1>3, <2>1, <2>3
<1>5. CASE Complete(w) \/ GiveUp(w)
  <2>1. /\ q.step \in RowSteps /\ UNCHANGED <<handler, submits>>
        /\ Saved(q.task, q.row) /\ WorkerTo(w, Idle)
    BY <1>5 DEF Complete, GiveUp, RowSteps, history
  <2>2. Idle.step = "idle"
    BY DEF Idle
  <2> QED
    BY <1>3, <2>1, <2>2 DEF RowSteps
<1>6. CASE Requeue(w)
  <2>1. CASE q.step = "error"
    <3> DEFINE row == [q.row EXCEPT !.retries = @ + 1, !.status = "pending_execution"]
               state == [step |-> "requeue", task |-> q.task]
    <3>1. /\ q.step \in RowSteps /\ UNCHANGED <<handler, submits>>
          /\ Saved(q.task, row) /\ WorkerTo(w, state)
      BY <1>6, <2>1 DEF Requeue, RowSteps, history
    <3>2. row.remote = q.row.remote
      BY <1>r, <3>1, RemoteType
    <3>3. state.step = "requeue"
      OBVIOUS
    <3> HIDE DEF row, state
    <3> QED
      BY <1>3, <3>1, <3>2, <3>3 DEF RowSteps
  <2>2. CASE q.step = "requeue"
    <3>1. UNCHANGED <<task, handler, submits>> /\ WorkerTo(w, Idle)
      BY <1>6, <2>2 DEF Requeue, history
    <3> QED
      BY <1>0, <1>i, <3>1, ExecutionMoves
  <2> QED
    BY <1>6, <2>1, <2>2 DEF Requeue
<1>7. CASE Submit(w)
  <2>1. /\ q.step = "execute" /\ q.step \in RowSteps /\ UNCHANGED <<task, handler>>
        /\ submits' = submits \/ submits' = [submits EXCEPT ![q.task] = @ + 1]
    BY <1>7 DEF Submit, RowSteps
  <2>2. /\ \A t \in TaskIds : submits[t] =< submits'[t]
        /\ submits[q.task] \in Nat /\ submits'[q.task] \in Nat
    BY <1>r, <2>1, SubmitsGrow
  <2>3. CASE WorkerTo(w, [q EXCEPT !.step = "poll"])
    <3> DEFINE state == [q EXCEPT !.step = "poll"]
    <3>1. state.task = q.task /\ state.row = q.row
      BY <1>r, <2>1
    <3> HIDE DEF state
    <3>2. q.row.remote =< submits'[q.task]
      BY <1>r, <2>1, <2>2
    <3>3. Accepted(state, submits')
      BY <3>1, <3>2 DEF Accepted
    <3>4. WorkerTo(w, state)
      BY <2>3 DEF state
    <3> QED
      BY <2>1, <2>2, <3>3, <3>4, ExecutionMoves
  <2>4. CASE /\ submits' = [submits EXCEPT ![q.task] = @ + 1]
             /\ WorkerTo(w, [q EXCEPT !.step = "save_remote",
                                      !.row.remote = submits[q.task] + 1])
    <3> DEFINE state == [q EXCEPT !.step = "save_remote",
                                  !.row.remote = submits[q.task] + 1]
    <3>1. /\ state.task = q.task
          /\ state.row = [q.row EXCEPT !.remote = submits[q.task] + 1]
      BY <1>r, <2>1
    <3>2. [q.row EXCEPT !.remote = submits[q.task] + 1].remote = submits[q.task] + 1
      BY <1>r, <2>1, RemoteType
    <3>3. submits'[q.task] = submits[q.task] + 1
      BY <1>r, <1>0, <2>1, <2>4
    <3>4. WorkerTo(w, state)
      BY <2>4
    <3> HIDE DEF state
    <3>5. state.row.remote =< submits'[state.task]
      BY <2>2, <3>1, <3>2, <3>3
    <3>6. Accepted(state, submits')
      BY <3>5 DEF Accepted
    <3> QED
      BY <2>1, <2>2, <3>4, <3>6, ExecutionMoves
  <2> QED
    BY <1>7, <2>3, <2>4 DEF Submit
\* The row keeps its job while the goroutine goes on.
<1>8. ASSUME q.step \in RowSteps, UNCHANGED <<task, handler>>,
             submits' = submits \/ submits' = [submits EXCEPT ![q.task] = @ + 1],
             NEW state, WorkerTo(w, state), state.task = q.task,
             state.row.remote = q.row.remote
      PROVE  AcceptedInv'
  <2>1. /\ \A t \in TaskIds : submits[t] =< submits'[t]
        /\ submits[q.task] \in Nat /\ submits'[q.task] \in Nat
        /\ submits[q.task] =< submits'[q.task]
    BY <1>r, <1>8, SubmitsGrow
  <2>2. Accepted(state, submits')
    BY <1>r, <1>8, <2>1 DEF Accepted
  <2> QED
    BY <1>8, <2>1, <2>2, ExecutionMoves
<1>9. CASE Fail(w) \/ Refund(w)
  <2> DEFINE s == IF q.step = "refund" THEN "give_up" ELSE "error"
             state == [q EXCEPT !.step = s]
  <2>1. /\ q.step \in RowSteps /\ UNCHANGED <<task, handler>> /\ WorkerTo(w, state)
        /\ submits' = submits \/ submits' = [submits EXCEPT ![q.task] = @ + 1]
    BY <1>9 DEF Fail, Refund, RowSteps
  <2>2. state.task = q.task /\ state.row = q.row
    BY <1>r, <2>1
  <2> HIDE DEF state
  <2> QED
    BY <1>8, <2>1, <2>2
<1>10. CASE Succeed(w)
  <2> DEFINE state == [q EXCEPT !.step = "done", !.row.status = "completed",
                                !.row.result = TRUE]
  <2>1. q.step \in RowSteps /\ UNCHANGED <<task, handler, submits>> /\ WorkerTo(w, state)
    BY <1>10 DEF Succeed, RowSteps, history
  <2>2. /\ state.task = q.task
        /\ state.row = [q.row EXCEPT !.status = "completed", !.result = TRUE]
    BY <1>r, <2>1
  <2>3. [q.row EXCEPT !.status = "completed", !.result = TRUE].remote = q.row.remote
    BY <1>r, <2>1, RemoteType
  <2> HIDE DEF state
  <2> QED
    BY <1>8, <2>1, <2>2, <2>3
<1>11. CASE LastFailure(w)
  <2> DEFINE s == IF q.row.cost THEN "refund" ELSE "give_up"
             state == [q EXCEPT !.step = s, !.row.status = "failed"]
  <2>1. q.step \in RowSteps /\ UNCHANGED <<task, handler, submits>> /\ WorkerTo(w, state)
    BY <1>11 DEF LastFailure, RowSteps, history
  <2> HIDE DEF s
  <2>2. state.task = q.task /\ state.row = [q.row EXCEPT !.status = "failed"]
    BY <1>r, <2>1
  <2>3. [q.row EXCEPT !.status = "failed"].remote = q.row.remote
    BY <1>r, <2>1, RemoteType
  <2> HIDE DEF state
  <2> QED
    BY <1>8, <2>1, <2>2, <2>3
<1> QED
  BY <1>1, <1>2, <1>4, <1>5, <1>6, <1>7, <1>9, <1>10, <1>11 DEF ContinueWorker

\* The steps of a poll: it starts from what was let into the table, and goes on
\* with the row as an execution does.
LEMMA PollStepAccepted ==
    ASSUME RecoveryTypeOK, RecoveryTypeOK', AcceptedInv, NEW p \in Pollers,
           ContinuePoll(p) \/ \E t \in TaskIds : Tick(p, t)
    PROVE  AcceptedInv'
<1> DEFINE q == poller[p]
<1>0. TypeOK /\ submits \in [TaskIds -> Nat] /\ q \in PollerState /\ polled \subseteq TaskIds
  BY DEF RecoveryTypeOK, TypeOK
<1>i. Accepted(Idle, submits') /\ PollAccepted(Idle, submits')
  BY DEF Accepted, PollAccepted, Idle, RowSteps
<1>n. q.step # "idle" => q.task \in TaskIds /\ submits[q.task] > 0
  BY <1>0, PollNamesTask DEF AcceptedInv, PolledAccepted, PollAccepted
<1>r. q.step \in RowSteps \union {"count", "test"} =>
         /\ q.row \in TaskRow /\ q.row.remote \in Nat
         /\ q.row.remote =< submits[q.task]
  <2>1. q.step \in RowSteps \union {"count", "test"} => q.row.remote =< submits[q.task]
    BY DEF AcceptedInv, HeldAccepted, Accepted
  <2> QED
    BY <1>0, <2>1, PollHoldsRow, PollHoldsCount, RemoteType
<1>e. q.step \in RowSteps => q \in [step : RowSteps, task : TaskIds, row : TaskRow]
  BY <1>0, PollHoldsRow
\* The poll keeps its task, and its row or no row.
<1>g. ASSUME q.step # "idle", UNCHANGED <<handler, worker, resume, polled, addChan>>,
             submits' = submits \/ submits' = [submits EXCEPT ![q.task] = @ + 1],
             \A t \in TaskIds : task'[t] = task[t] \/ task'[t].remote =< submits'[t],
             NEW state, PollerTo(p, state), state.task = q.task,
             \/ state.step \notin RowSteps \union {"save", "count", "test"}
             \/ /\ q.step \in RowSteps \union {"count", "test"}
                /\ state.row.remote = q.row.remote
             \/ state.row.remote =< submits'[q.task]
      PROVE  AcceptedInv'
  <2>1. /\ \A t \in TaskIds : submits[t] =< submits'[t]
        /\ submits[q.task] \in Nat /\ submits'[q.task] \in Nat
        /\ submits[q.task] =< submits'[q.task]
    BY <1>n, <1>g, SubmitsGrow
  <2>2. Accepted(state, submits')
    BY <1>r, <1>g, <2>1 DEF Accepted
  <2>3. PollAccepted(state, submits')
    BY <1>n, <1>g, <2>1 DEF PollAccepted
  <2> QED
    BY <1>g, <2>1, <2>2, <2>3, PollMoves
<1>1. ASSUME NEW t \in TaskIds, Tick(p, t)
      PROVE  AcceptedInv'
  <2>1. /\ UNCHANGED <<task, submits, handler, worker, resume, polled, addChan>>
        /\ t \in polled /\ PollerTo(p, [step |-> "read", task |-> t])
    BY <1>1 DEF Tick, vars, manager
  <2>2. /\ Accepted([step |-> "read", task |-> t], submits')
        /\ PollAccepted([step |-> "read", task |-> t], submits')
    BY <2>1 DEF Accepted, PollAccepted, AcceptedInv, PolledAccepted, RowSteps
  <2> QED
    BY <1>0, <2>1, <2>2, PollMoves
<1>2. CASE PollRead(p)
  <2>1. /\ q.step = "read"
        /\ UNCHANGED <<task, submits, handler, worker, resume, polled, addChan>>
    BY <1>2 DEF PollRead, vars, manager
  <2>2. CASE PollerTo(p, [step |-> "remove", task |-> q.task])
    <3> DEFINE state == [step |-> "remove", task |-> q.task]
    <3>1. state.step = "remove" /\ state.task = q.task
      OBVIOUS
    <3> HIDE DEF state
    <3> QED
      BY <1>g, <2>1, <2>2, <3>1 DEF state, RowSteps
  <2>3. CASE PollerTo(p, [step |-> "execute", task |-> q.task, row |-> task[q.task]])
    <3> DEFINE state == [step |-> "execute", task |-> q.task, row |-> task[q.task]]
    <3>1. poller'[p] = state
      BY <2>3 DEF PollerTo, RecoveryTypeOK
    <3>2. state \in PollerState
      BY <3>1 DEF RecoveryTypeOK
    <3>3. task[q.task] \in TaskRow
      BY <3>2, PollHoldsRow DEF RowSteps
    <3>4. task[q.task].remote =< submits'[q.task]
      BY <1>n, <2>1, <3>3, NoTaskAssumption DEF AcceptedInv, TableAccepted
    <3>5. state.task = q.task /\ state.row = task[q.task] /\ PollerTo(p, state)
      BY <2>3
    <3> HIDE DEF state
    <3> QED
      BY <1>g, <2>1, <3>4, <3>5
  <2> QED
    BY <1>2, <2>2, <2>3 DEF PollRead
<1>3. CASE PollExecute(p)
  <2>0. UNCHANGED <<worker, resume, polled, addChan>>
    BY <1>3 DEF PollExecute, manager
  <2>1. CASE Poll!Submit(p)
    <3>1. /\ q.step = "execute" /\ q.step \in RowSteps /\ q.step # "idle"
          /\ submits' = submits \/ submits' = [submits EXCEPT ![q.task] = @ + 1]
          /\ UNCHANGED <<task, handler>>
      BY <2>1, PollIsExecution DEF RowSteps
    <3>2. CASE PollerTo(p, [q EXCEPT !.step = "poll"])
      <4> DEFINE state == [q EXCEPT !.step = "poll"]
      <4>1. state.task = q.task /\ state.row = q.row /\ PollerTo(p, state)
        BY <1>e, <3>1, <3>2
      <4> HIDE DEF state
      <4> QED
        BY <1>g, <2>0, <3>1, <4>1
    <3>3. CASE /\ PollerTo(p, [q EXCEPT !.step = "save_remote",
                                        !.row.remote = submits[q.task] + 1])
               /\ submits' = [submits EXCEPT ![q.task] = @ + 1]
      <4> DEFINE state == [q EXCEPT !.step = "save_remote",
                                    !.row.remote = submits[q.task] + 1]
      <4>1. /\ state.task = q.task /\ PollerTo(p, state)
            /\ state.row = [q.row EXCEPT !.remote = submits[q.task] + 1]
        BY <1>e, <3>1, <3>3
      <4>2. [q.row EXCEPT !.remote = submits[q.task] + 1].remote = submits[q.task] + 1
        BY <1>r, <3>1, RemoteType
      <4>3. submits'[q.task] = submits[q.task] + 1 /\ submits'[q.task] \in Nat
        BY <1>0, <1>n, <3>1, <3>3
      <4> HIDE DEF state
      <4>4. state.row.remote =< submits'[q.task]
        BY <4>1, <4>2, <4>3
      <4> QED
        BY <1>g, <2>0, <3>1, <4>1, <4>4
    <3> QED
      BY <2>1, <3>2, <3>3, PollIsExecution
  <2>2. CASE Poll!SaveRemote(p)
    <3> DEFINE state == [q EXCEPT !.step = "poll"]
    <3>1. /\ q.step \in RowSteps /\ q.step # "idle" /\ Saved(q.task, q.row)
          /\ PollerTo(p, state) /\ UNCHANGED <<handler, submits>>
      BY <2>2, PollIsExecution DEF RowSteps, history
    <3>2. state.task = q.task /\ state.row = q.row
      BY <1>e, <3>1
    <3>3. \A x \in TaskIds : task'[x] = task[x] \/ task'[x].remote =< submits'[x]
      BY <1>0, <1>n, <1>r, <3>1, SavedAccepted
    <3> HIDE DEF state
    <3> QED
      BY <1>g, <2>0, <3>1, <3>2, <3>3
  <2>3. CASE Poll!Succeed(p)
    <3> DEFINE state == [q EXCEPT !.step = "done", !.row.status = "completed",
                                  !.row.result = TRUE]
    <3>1. /\ q.step \in RowSteps /\ q.step # "idle"
          /\ PollerTo(p, state) /\ UNCHANGED <<task, handler, submits>>
      BY <2>3, PollIsExecution DEF RowSteps, history
    <3>2. /\ state.task = q.task
          /\ state.row = [q.row EXCEPT !.status = "completed", !.result = TRUE]
      BY <1>e, <3>1
    <3>3. [q.row EXCEPT !.status = "completed", !.result = TRUE].remote = q.row.remote
      BY <1>r, <3>1, RemoteType
    <3> HIDE DEF state
    <3> QED
      BY <1>g, <2>0, <3>1, <3>2, <3>3
  <2>4. CASE Poll!Fail(p)
    <3> DEFINE state == [q EXCEPT !.step = "error"]
    <3>1. /\ q.step \in RowSteps /\ q.step # "idle" /\ PollerTo(p, state)
          /\ submits' = submits \/ submits' = [submits EXCEPT ![q.task] = @ + 1]
          /\ UNCHANGED <<task, handler>>
      BY <2>4, PollIsExecution DEF RowSteps
    <3>2. state.task = q.task /\ state.row = q.row
      BY <1>e, <3>1
    <3> HIDE DEF state
    <3> QED
      BY <1>g, <2>0, <3>1, <3>2
  <2> QED
    BY <1>3, <2>1, <2>2, <2>3, <2>4 DEF PollExecute
<1>4. CASE PollComplete(p) \/ PollGiveUp(p)
  <2> DEFINE state == [step |-> "remove", task |-> q.task]
  <2>1. /\ q.step \in RowSteps /\ q.step # "idle" /\ Saved(q.task, q.row)
        /\ PollerTo(p, state)
        /\ UNCHANGED <<handler, worker, submits, resume, polled, addChan>>
    BY <1>4 DEF PollComplete, PollGiveUp, RowSteps, history, manager
  <2>2. state.task = q.task /\ state.step \notin RowSteps \union {"save", "count", "test"}
    BY DEF RowSteps
  <2>3. \A x \in TaskIds : task'[x] = task[x] \/ task'[x].remote =< submits'[x]
    BY <1>0, <1>n, <1>r, <2>1, SavedAccepted
  <2> HIDE DEF state
  <2> QED
    BY <1>g, <2>1, <2>2, <2>3
<1>5. CASE PollFailed(p)
  <2> DEFINE state == [step |-> "count", task |-> q.task, row |-> q.row,
                       seen |-> polls[q.task]]
  <2>1. /\ q.step \in RowSteps /\ q.step # "idle" /\ PollerTo(p, state)
        /\ UNCHANGED <<task, handler, worker, submits, resume, polled, addChan>>
    BY <1>5 DEF PollFailed, RowSteps, vars, manager
  <2>2. state.task = q.task /\ state.row = q.row
    OBVIOUS
  <2> HIDE DEF state
  <2> QED
    BY <1>g, <2>1, <2>2
<1>6. CASE CountPoll(p)
  <2> DEFINE state == [step |-> "test", task |-> q.task, row |-> q.row]
  <2>1. /\ q.step = "count" /\ PollerTo(p, state)
        /\ UNCHANGED <<task, handler, worker, submits, resume, polled, addChan>>
    BY <1>6 DEF CountPoll, vars
  <2>2. state.task = q.task /\ state.row = q.row
    OBVIOUS
  <2> HIDE DEF state
  <2> QED
    BY <1>g, <2>1, <2>2
<1>7. CASE TestPolls(p)
  <2>1. /\ q.step = "test"
        /\ UNCHANGED <<task, handler, worker, submits, resume, polled, addChan>>
    BY <1>7 DEF TestPolls, vars, manager
  <2>2. CASE PollerTo(p, Idle)
    BY <1>0, <1>i, <2>1, <2>2, PollMoves
  <2>3. CASE ~ PollerTo(p, Idle)
    <3> DEFINE s == IF q.row.cost THEN "refund" ELSE "give_up"
               state == [step |-> s, task |-> q.task,
                         row |-> [q.row EXCEPT !.status = "failed"]]
    <3>1. PollerTo(p, state)
      BY <1>7, <2>3 DEF TestPolls
    <3> HIDE DEF s
    <3>2. state.task = q.task /\ state.row = [q.row EXCEPT !.status = "failed"]
      OBVIOUS
    <3>3. [q.row EXCEPT !.status = "failed"].remote = q.row.remote
      BY <1>r, <2>1, RemoteType
    <3> HIDE DEF state
    <3> QED
      BY <1>g, <2>1, <3>1, <3>2, <3>3
  <2> QED
    BY <2>2, <2>3
<1>8. CASE PollRefund(p)
  <2> DEFINE state == [q EXCEPT !.step = "give_up"]
  <2>1. Poll!Refund(p) /\ UNCHANGED <<worker, resume, polled, addChan>>
    BY <1>8 DEF PollRefund, manager
  <2>2. /\ q.step \in RowSteps /\ q.step # "idle" /\ PollerTo(p, state)
        /\ UNCHANGED <<task, handler, submits>>
    BY <2>1, PollIsExecution DEF RowSteps
  <2>3. state.task = q.task /\ state.row = q.row
    BY <1>e, <2>2
  <2> HIDE DEF state
  <2> QED
    BY <1>g, <2>1, <2>2, <2>3
<1>9. CASE PollRemove(p)
  <2>1. /\ PollerTo(p, Idle)
        /\ UNCHANGED <<task, handler, worker, submits, resume, polled, addChan>>
    BY <1>9 DEF PollRemove, vars
  <2> QED
    BY <1>0, <1>i, <2>1, PollMoves
<1> QED
  BY <1>1, <1>2, <1>3, <1>4, <1>5, <1>6, <1>7, <1>8, <1>9 DEF ContinuePoll

\* The steps of the resumption: it adds the tasks whose row names a job, and
\* saves the others as it has read them.
LEMMA ResumeStepAccepted ==
    ASSUME RecoveryTypeOK, RecoveryTypeOK', AcceptedInv, Resume
    PROVE  AcceptedInv'
<1>0. /\ TypeOK /\ submits \in [TaskIds -> Nat] /\ addChan \in Seq(TaskIds)
  BY DEF RecoveryTypeOK, TypeOK
<1>1. resume.step \in {"each", "push"} =>
         \A r \in resume.rows : /\ r[1] \in TaskIds /\ r[2] \in TaskRow
                                /\ r[2].remote \in Nat /\ r[2].remote =< submits[r[1]]
  <2>1. resume.step \in {"each", "push"} => resume.rows \subseteq TaskIds \X TaskRow
    BY DEF RecoveryTypeOK, ResumeState
  <2> QED
    BY <2>1, RemoteType DEF AcceptedInv, ResumeAccepted
\* All but the rows that are left and the channel stays.
<1>2. ASSUME UNCHANGED <<submits, handler, worker, poller, polled>>, ResumeAccepted',
             \A t \in TaskIds : task'[t] = task[t] \/ task'[t].remote =< submits'[t],
             \A i \in DOMAIN addChan' :
                \/ \E j \in DOMAIN addChan : addChan'[i] = addChan[j]
                \/ submits'[addChan'[i]] > 0
      PROVE  AcceptedInv'
  BY <1>0, <1>2, AcceptedStep
<1>3. CASE ListProcessing
  <2>1. /\ UNCHANGED <<task, submits, handler, worker, poller, polled, addChan>>
        /\ resume'.rows = {<<t, task[t]>> : t \in
                             {u \in TaskIds : StatusIn(u, {"processing"})}}
    BY <1>3 DEF ListProcessing, vars, manager
  <2>2. \A r \in resume'.rows : r[2].remote =< submits[r[1]]
    BY <2>1 DEF AcceptedInv, TableAccepted, StatusIn
  <2> QED
    BY <1>2, <2>1, <2>2 DEF ResumeAccepted
<1>4. CASE ListFails
  <2>1. /\ UNCHANGED <<task, submits, handler, worker, poller, polled, addChan>>
        /\ resume'.step = "done"
    BY <1>4 DEF ListFails, vars, manager
  <2> QED
    BY <1>2, <2>1 DEF ResumeAccepted
<1>5. CASE ResumePolling
  <2>1. PICK r \in resume.rows :
           /\ Submitted(r[2])
           /\ addChan' = Append(addChan, r[1])
           /\ resume' = [resume EXCEPT !.rows = @ \ {r}]
    BY <1>5 DEF ResumePolling
  <2>2. /\ resume.step = "each" /\ UNCHANGED <<task, submits, handler, worker, poller, polled>>
    BY <1>5 DEF ResumePolling, vars
  <2>3. r[1] \in TaskIds /\ submits[r[1]] > 0
    <3>1. /\ r[1] \in TaskIds /\ r[2].remote \in Nat /\ r[2].remote # 0
          /\ r[2].remote =< submits[r[1]]
      BY <1>1, <2>1, <2>2 DEF Submitted
    <3>2. submits[r[1]] \in Nat
      BY <1>0, <3>1
    <3> QED
      BY <3>1, <3>2
  <2>4. \A i \in DOMAIN addChan' :
           \/ i \in DOMAIN addChan /\ addChan'[i] = addChan[i]
           \/ addChan'[i] = r[1]
    BY <1>0, <2>1, <2>3, Channels
  <2>5. \A i \in DOMAIN addChan' :
           \/ \E j \in DOMAIN addChan : addChan'[i] = addChan[j]
           \/ submits'[addChan'[i]] > 0
    BY <2>2, <2>3, <2>4
  <2>6. ResumeAccepted'
    <3>1. resume'.rows \subseteq resume.rows
      <4>1. resume \in ResumeState
        BY DEF RecoveryTypeOK
      <4> QED
        BY <2>1, <2>2, <4>1 DEF ResumeState
    <3> QED
      BY <1>1, <2>2, <3>1 DEF ResumeAccepted
  <2> QED
    BY <1>2, <2>2, <2>5, <2>6
<1>6. CASE ResumeReset
  <2> DEFINE row(r) == [r[2] EXCEPT !.status = "pending_execution"]
  <2>1. PICK r \in resume.rows :
           /\ Saved(r[1], row(r))
           /\ resume' = [step |-> "push", task |-> r[1], rows |-> resume.rows \ {r}]
    BY <1>6 DEF ResumeReset
  <2>2. /\ resume.step = "each"
        /\ UNCHANGED <<submits, handler, worker, poller, polled, addChan>>
    BY <1>6 DEF ResumeReset, history, manager
  <2>3. r[1] \in TaskIds /\ r[2] \in TaskRow /\ r[2].remote =< submits[r[1]]
    BY <1>1, <2>2
  <2>4. row(r).remote =< submits[r[1]]
    BY <2>3, RemoteType
  <2> HIDE DEF row
  <2>5. \A x \in TaskIds : task'[x] = task[x] \/ task'[x].remote =< submits'[x]
    BY <1>0, <2>1, <2>2, <2>3, <2>4, SavedAccepted
  <2>6. resume'.rows \subseteq resume.rows
    BY <2>1
  <2> QED
    BY <1>1, <1>2, <2>2, <2>5, <2>6 DEF ResumeAccepted
<1>7. CASE ResumePush
  <2>1. /\ resume.step = "push" /\ resume'.rows = resume.rows
        /\ UNCHANGED <<task, submits, handler, worker, poller, polled, addChan>>
    BY <1>7 DEF ResumePush, history, manager
  <2> QED
    BY <1>1, <1>2, <2>1 DEF ResumeAccepted
<1> QED
  BY <1>3, <1>4, <1>5, <1>6, <1>7 DEF Resume

\* The manager's loop moves ids from the channel to the table.
LEMMA ManagerAccepted ==
    ASSUME RecoveryTypeOK, RecoveryTypeOK', AcceptedInv, ManagerLoop
    PROVE  AcceptedInv'
<1>0. /\ submits \in [TaskIds -> Nat] /\ addChan \in Seq(TaskIds)
  BY DEF RecoveryTypeOK, TypeOK
<1>1. UNCHANGED <<task, submits, handler, worker, poller, resume>>
  BY DEF ManagerLoop, AddEntry, RemoveEntry, vars
<1>2. \A t \in TaskIds : submits[t] =< submits'[t]
  BY <1>0, <1>1
<1>3. CASE AddEntry
  <2>1. addChan # <<>> /\ addChan' = Tail(addChan)
    BY <1>3 DEF AddEntry
  <2>2. /\ Head(addChan) = addChan[1] /\ 1 \in DOMAIN addChan
        /\ \A i \in DOMAIN addChan' :
              i + 1 \in DOMAIN addChan /\ addChan'[i] = addChan[i + 1]
    BY <1>0, <2>1, Channels
  <2>3. submits'[Head(addChan)] > 0
    BY <1>1, <2>2 DEF AcceptedInv, PolledAccepted
  <2>4. \A t \in polled' : t \in polled \/ submits'[t] > 0
    BY <1>3, <2>3 DEF AddEntry
  <2>5. \A i \in DOMAIN addChan' : \E j \in DOMAIN addChan : addChan'[i] = addChan[j]
    BY <2>2
  <2> QED
    BY <1>1, <1>2, <2>4, <2>5, AcceptedStep
<1>4. CASE RemoveEntry
  <2>1. polled' \subseteq polled /\ addChan' = addChan
    BY <1>4 DEF RemoveEntry
  <2> QED
    BY <1>1, <1>2, <2>1, AcceptedStep
<1> QED
  BY <1>3, <1>4 DEF ManagerLoop

\* A restart: only the table of tasks and the jobs of the service are left.
LEMMA CrashAccepted ==
    ASSUME AcceptedInv, Crash
    PROVE  AcceptedInv'
<1>1. /\ UNCHANGED <<task, submits>> /\ polled' = {} /\ addChan' = <<>>
      /\ resume'.step = "list"
  BY DEF Crash, history
<1>2. /\ \A h \in Handlers : handler'[h].step = "idle"
      /\ \A w \in Workers : worker'[w].step = "idle"
      /\ \A p \in Pollers : poller'[p].step = "idle"
  BY DEF Crash, Idle
<1>3. TableAccepted'
  BY <1>1 DEF AcceptedInv, TableAccepted
<1>4. HeldAccepted'
  BY <1>2 DEF HeldAccepted, Accepted, RowSteps
<1>5. ResumeAccepted'
  BY <1>1 DEF ResumeAccepted
<1>6. PolledAccepted'
  BY <1>1, <1>2 DEF PolledAccepted, PollAccepted
<1> QED
  BY <1>3, <1>4, <1>5, <1>6 DEF AcceptedInv

\* A poll asks only about tasks for which a job was accepted, whatever requests,
\* executions, resumption and polls save over each other, and however often the
\* process restarts (task_service.go:325-332, polling_manager.go:101-132).
THEOREM RecoveryPolls == RecoverySpec => []PollsFollowSubmission
<1>1. RecoveryInit => AcceptedInv
  <2> SUFFICES ASSUME RecoveryInit PROVE AcceptedInv
    OBVIOUS
  <2>1. /\ \A h \in Handlers : handler[h].step = "idle"
        /\ \A w \in Workers : worker[w].step = "idle"
        /\ \A p \in Pollers : poller[p].step = "idle"
    BY DEF RecoveryInit, Init, Idle
  <2>2. TableAccepted
    BY DEF RecoveryInit, Init, TableAccepted
  <2>3. HeldAccepted
    BY <2>1 DEF HeldAccepted, Accepted, RowSteps
  <2>4. ResumeAccepted
    BY DEF RecoveryInit, ResumeAccepted
  <2>5. PolledAccepted
    BY <2>1 DEF RecoveryInit, PolledAccepted, PollAccepted
  <2> QED
    BY <2>2, <2>3, <2>4, <2>5 DEF AcceptedInv
<1>2. RecoveryTypeOK /\ RecoveryTypeOK' /\ AcceptedInv /\ [RecoveryNext]_allVars
         => AcceptedInv'
  <2> SUFFICES ASSUME RecoveryTypeOK, RecoveryTypeOK', AcceptedInv,
                      [RecoveryNext]_allVars
               PROVE  AcceptedInv'
    OBVIOUS
  <2>1. CASE Next /\ UNCHANGED recoveryVars
    BY <2>1, RequestAccepted, ExecutionAccepted DEF Next
  <2>2. CASE UNCHANGED allVars
    BY <2>2 DEF allVars, vars, recoveryVars, manager, AcceptedInv, TableAccepted,
       HeldAccepted, ResumeAccepted, PolledAccepted
  <2> QED
    BY <2>1, <2>2, CrashAccepted, ResumeStepAccepted, ManagerAccepted,
       PollStepAccepted DEF RecoveryNext
<1>3. AcceptedInv => PollsFollowSubmission
  BY DEF AcceptedInv, PolledAccepted, PollAccepted, PollsFollowSubmission
<1> QED
  BY <1>1, <1>2, <1>3, RecoveryTypes, PTL DEF RecoverySpec

=============================================================================
