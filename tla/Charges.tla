------------------------------ MODULE Charges -------------------------------
(***************************************************************************)
(* What a task costs: Tasks and Wallet composed.  CreateTask debits the    *)
(* owner in the transaction that inserts the task; a task that fails for   *)
(* good gives its cost back through AdjustBalance, whose error is only     *)
(* logged; administrators credit and debit the owner meanwhile.  Tasks     *)
(* takes a debit or a refund for one step; here it takes the steps of      *)
(* Wallet, and loses the race for the owner's version as it does there.    *)
(***************************************************************************)
EXTENDS Tasks

CONSTANTS
    Owner,            \* the user whose tasks these are
    Others,           \* goroutines of administrators who move the balance
    Price,            \* what a task costs, if it costs something
    NoUser,           \* no such row, or no such cache entry
    Manual,           \* the reason an administrator gives
    MaxOtherVersion,  \* bound: administrators begin below this version
    MaxVersion        \* not reached: no operation begins on this version

ASSUME PriceAssumption == Price \in Nat \ {0}
ASSUME OwnerAssumption == Manual \notin TaskIds
\* Every task is created by way of BeginCharge or CreateForFree.
ASSUME CreationAssumption == "create" \notin Operations
ASSUME GoroutinesAssumption ==
    Handlers \intersect Workers = {} /\ (Handlers \union Workers) \intersect Others = {}

VARIABLES
    account, ledger, cache, req,  \* as in Wallet
    charging      \* charging[h]: the task request h is about to create

chargeVars == <<account, ledger, cache, req>>
allVars == <<vars, chargeVars, charging>>

\* The debit's reason names the model; the task it is for stands for that.
Purse == INSTANCE Wallet WITH
    Users      <- {Owner},
    Requests   <- Handlers \union Workers \union Others,
    Amounts    <- {Price},
    Limits     <- {0},
    Reasons    <- TaskIds \union {Manual},
    OrderIds   <- {},
    Operations <- {"deduct", "adjust"}

ASSUME NoOwnerAssumption == NoUser \notin Purse!Row

ChargesInit ==
    /\ Init
    /\ Purse!WalletInit
    /\ charging = [h \in Handlers |-> NoTask]

Free(g) == req[g] = Idle

\* The database gives an id once, also to a task that is not yet committed.
Unused(t) ==
    /\ task[t] = NoTask
    /\ \A h \in Handlers : charging[h] # NoTask => charging[h].task # t

-----------------------------------------------------------------------------
(* CreateTask.                                                             *)

\* The owner is read and has the funds; nothing is written yet.
BeginCharge(h, t, input) ==
    /\ handler[h] = Idle /\ Free(h)
    /\ Unused(t)
    /\ Purse!BeginDeduct(h, Owner, Price, "user_consume", t)
    /\ charging' = [charging EXCEPT ![h] = [task |-> t, input |-> input]]
    /\ UNCHANGED vars

\* A plausible slip: the balance is charged in a transaction of its own.
CommitChargeAlone(h) ==
    /\ charging[h] # NoTask
    /\ \/ /\ ~ Free(h)
          /\ Purse!DeductWrite(h) \/ Purse!Invalidate(h)
          /\ UNCHANGED <<vars, charging>>
       \/ /\ Free(h)
          /\ CreateTask(h, charging[h].task, charging[h].input, TRUE)
          /\ charging' = [charging EXCEPT ![h] = NoTask]
          /\ UNCHANGED chargeVars

\* The checked write, the transaction row, the task and the COMMIT; a
\* version conflict rolls all of it back.
CommitCharge(h) ==
    /\ charging[h] # NoTask
    /\ Purse!DeductWrite(h)
    /\ IF Purse!RowMatches(req[h].snap, account[Owner])
       THEN CreateTask(h, charging[h].task, charging[h].input, TRUE)
       ELSE UNCHANGED vars
    /\ charging' = [charging EXCEPT ![h] = NoTask]

\* The model has no price.
CreateForFree(h, t, input) ==
    /\ Free(h) /\ Unused(t)
    /\ CreateTask(h, t, input, FALSE)
    /\ UNCHANGED <<chargeVars, charging>>

-----------------------------------------------------------------------------
(* handleFailure, after the last retry.                                    *)

BeginRefund(w) ==
    /\ worker[w].step = "refund" /\ Free(w)
    /\ Purse!BeginAdjust(w, Owner, Price, "user_refund", worker[w].task)
    /\ UNCHANGED <<vars, charging>>

\* A plausible slip: a refund that is refused ends handleFailure.
CommitRefundOrStop(w) ==
    /\ worker[w].step = "refund" /\ req[w].step = "adjust"
    /\ Purse!AdjustWrite(w)
    /\ IF Purse!RowMatches(req[w].snap, account[Owner])
       THEN /\ refunds' = [refunds EXCEPT ![worker[w].task] = @ + 1]
            /\ WorkerTo(w, [worker[w] EXCEPT !.step = "give_up"])
       ELSE WorkerTo(w, Idle) /\ UNCHANGED refunds
    /\ UNCHANGED <<task, queue, handler, runs, failures, submits, dead, charging>>

\* Either the refund is committed, or its conflict is logged and forgotten.
CommitRefund(w) ==
    /\ worker[w].step = "refund" /\ req[w].step = "adjust"
    /\ Purse!AdjustWrite(w)
    /\ IF Purse!RowMatches(req[w].snap, account[Owner])
       THEN refunds' = [refunds EXCEPT ![worker[w].task] = @ + 1]
       ELSE UNCHANGED refunds
    /\ WorkerTo(w, [worker[w] EXCEPT !.step = "give_up"])
    /\ UNCHANGED <<task, queue, handler, runs, failures, submits, dead, charging>>

-----------------------------------------------------------------------------
(* The rest of Tasks, of Wallet, and of the administrators.                *)

\* Whoever has written the balance drops the cached copy before going on.
DropCopy(g) ==
    /\ Purse!Invalidate(g)
    /\ UNCHANGED <<vars, charging>>

BeginOther(r) ==
    /\ account[Owner].version < MaxOtherVersion
    /\ \/ Purse!BeginAdjust(r, Owner, Price, "admin_adjustment", Manual)
       \/ Purse!BeginDeduct(r, Owner, Price, "admin_adjustment", Manual)
    /\ UNCHANGED <<vars, charging>>

CommitOther(r) ==
    /\ Purse!DeductWrite(r) \/ Purse!AdjustWrite(r)
    /\ UNCHANGED <<vars, charging>>

BeginRequest(h) ==
    \E t \in TaskIds :
       \/ \E input \in Kinds : BeginCharge(h, t, input) \/ CreateForFree(h, t, input)
       \/ Free(h) /\ BeginHandler(h, t) /\ UNCHANGED <<chargeVars, charging>>

GoOnWithRequest(h) ==
    \/ CommitCharge(h)
    \/ DropCopy(h)
    \/ Free(h) /\ ContinueHandler(h) /\ UNCHANGED <<chargeVars, charging>>

\* Every step of an execution but the refund, which is taken apart.
GoOnWithTask(w) ==
    \/ BeginRefund(w)
    \/ CommitRefund(w)
    \/ DropCopy(w)
    \/ /\ Free(w) /\ worker[w].step # "refund"
       /\ ContinueWorker(w)
       /\ UNCHANGED <<chargeVars, charging>>

PopTask(w) == Free(w) /\ Pop(w) /\ UNCHANGED <<chargeVars, charging>>

ChargesNext ==
    \/ \E h \in Handlers : BeginRequest(h) \/ GoOnWithRequest(h)
    \/ \E w \in Workers : PopTask(w) \/ GoOnWithTask(w)
    \/ \E r \in Others : BeginOther(r) \/ CommitOther(r) \/ DropCopy(r)

ChargesSpec == ChargesInit /\ [][ChargesNext]_allVars

\* As FairSpec of Tasks: every goroutine is run again.
FairChargesSpec ==
    /\ ChargesSpec
    /\ \A h \in Handlers : WF_allVars(GoOnWithRequest(h))
    /\ \A w \in Workers : WF_allVars(GoOnWithTask(w))
    /\ WF_allVars(\E w \in Workers : PopTask(w))

-----------------------------------------------------------------------------
(* Properties.                                                             *)

\* The owner's ledger rows of one type that name task t.
RowsOf(t, type) ==
    {i \in DOMAIN ledger[Owner] :
       ledger[Owner][i].reason = t /\ ledger[Owner][i].type = type}

\* A task that costs something exists exactly when it has been paid for,
\* once: neither is there without the other, whoever else moves the balance
\* between the funds check and the commit (task_service.go:66-129).
PaidExactlyOnce ==
    \A t \in TaskIds :
       Cardinality(RowsOf(t, "user_consume")) =
          IF task[t] # NoTask /\ task[t].cost THEN 1 ELSE 0

\* The owner gets back nothing for a task that was not paid for, and for
\* one that was at most its cost for each request let through to run it,
\* whatever races the refund (task_service.go:105-129, 454-465).  A rerun is
\* not charged and may give the cost back once more.
RefundsAreOfPaidRuns ==
    \A t \in TaskIds :
       /\ RowsOf(t, "user_refund") # {} => RowsOf(t, "user_consume") # {}
       /\ Cardinality(RowsOf(t, "user_refund")) =< runs[t]

\* Tasks and administrators together still use the wallet as the atomic
\* ledger: every charge and every refund is one of its steps.
ChargesImplementLedger == Purse!ImplementsLedger

AsTasks == INSTANCE Tasks WITH Operations <- Operations \union {"create"}

\* For the tasks a charge and a refund are one step each, taken or not, as
\* Tasks has them: what they consist of, and what races them, moves no task
\* and no execution anywhere else (task_service.go:66-129, 454-468).
ChargesImplementTasks == AsTasks!Spec

=============================================================================
