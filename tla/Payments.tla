------------------------------ MODULE Payments ------------------------------
(***************************************************************************)
(* The payment methods of services/payment_service.go, the driver of       *)
(* payment/epay/epay.go, and the gateway behind it, composed with Orders:  *)
(* a user orders a top-up, is sent to the gateway, pays there, and the     *)
(* gateway repeats its callback until it is answered with "success",       *)
(* while administrators create, update, disable and delete the methods.    *)
(*                                                                         *)
(* The callback names the method by the uuid in its path.  Its signature   *)
(* is made with the key of the gateway account the order was paid to and   *)
(* checked with the key the method is configured with by then.             *)
(***************************************************************************)
EXTENDS Orders

CONSTANTS
    Methods,      \* the rows of payment_configs; ids and uuids are not reused
    Accounts,     \* complete configurations: url, pid and key of an account
    Customers,    \* the requests of users who want to pay
    Editors,      \* the requests of administrators who update a method
    NoMethod,     \* no such row
    NoBill,       \* the gateway was never asked for this order
    Incomplete,   \* one without url, pid or key, or of an unknown driver
    Keep,         \* a field an update does not name
    MaxEdits,     \* bound: updates that begin
    MaxFaults     \* bound: jobs and requests that fail

ASSUME ConfigsAssumption == Incomplete \notin Accounts /\ Keep \notin Accounts
ASSUME BoundsAssumption == MaxEdits \in Nat /\ MaxFaults \in Nat

Configs == Accounts \union {Incomplete}

MethodRow == [config : Configs, enabled : BOOLEAN]

ASSUME NoMethodAssumption == NoMethod \notin MethodRow

\* What the gateway knows of an order: where its callbacks go, and whose
\* key it signs them with.
Bill == [status : {"open", "paid", "acknowledged"}, method : Methods,
         account : Accounts]

ASSUME NoBillAssumption == NoBill \notin Bill

VARIABLES
    method,       \* method[m]: the committed row of m, or NoMethod
    deleted,      \* the methods that were deleted
    customer,     \* customer[c]: where the request of a paying user is
    editor,       \* editor[e]: where an administrator's update is
    bill,         \* bill[o]: the gateway's view of order o, or NoBill
    callback,     \* callback[j]: the order whose callback job j answers
    edits,        \* how many updates have begun
    faults        \* how many jobs and requests have failed

methodVars == <<method, deleted, editor, edits>>
payVars == <<customer, bill, callback, faults>>
paymentsVars == <<vars, methodVars, payVars>>

PaymentsInit ==
    /\ Init
    /\ method = [m \in Methods |-> NoMethod]
    /\ deleted = {}
    /\ customer = [c \in Customers |-> Idle]
    /\ editor = [e \in Editors |-> Idle]
    /\ bill = [o \in OrderIds |-> NoBill]
    /\ callback = [j \in Jobs |-> NoOrder]
    /\ edits = 0
    /\ faults = 0

-----------------------------------------------------------------------------
(* CreatePaymentConfig, UpdatePaymentConfig, DeletePaymentConfig.          *)

\* The configuration is not looked at.  The column enable has the default
\* true, so the ORM stores true for the zero value of a request that
\* creates a disabled method: what the request says makes no difference.
CreateMethod(m, config) ==
    /\ method[m] = NoMethod /\ m \notin deleted
    /\ method' = [method EXCEPT ![m] = [config |-> config, enabled |-> TRUE]]
    /\ UNCHANGED <<vars, deleted, editor, edits, payVars>>

BeginEdit(e, m, config, enabled) ==
    /\ editor[e] = Idle
    /\ method[m] # NoMethod
    /\ edits < MaxEdits
    /\ edits' = edits + 1
    /\ editor' = [editor EXCEPT ![e] =
          [step |-> "update", method |-> m, row |-> method[m],
           config |-> config, enabled |-> enabled]]
    /\ UNCHANGED <<vars, method, deleted, payVars>>

Given(field, current) == IF field = Keep THEN current ELSE field

\* A plausible slip: the row is saved as it was read, and inserted if it is
\* gone, as other services of this program do.
WrittenAsRead(request, current) ==
    [request.row EXCEPT !.config = Given(request.config, @),
                        !.enabled = Given(request.enabled, @)]

\* Updates of the columns that are given, in whatever the row is by now; no
\* row is no error.
Written(request, current) ==
    IF current = NoMethod THEN NoMethod
    ELSE [current EXCEPT !.config = Given(request.config, @),
                         !.enabled = Given(request.enabled, @)]

WriteEdit(e) ==
    LET request == editor[e] IN
    /\ request # Idle
    /\ method' = [method EXCEPT ![request.method] = Written(request, @)]
    /\ editor' = [editor EXCEPT ![e] = Idle]
    /\ UNCHANGED <<vars, deleted, edits, payVars>>

DeleteMethod(m) ==
    /\ method[m] # NoMethod
    /\ method' = [method EXCEPT ![m] = NoMethod]
    /\ deleted' = deleted \union {m}
    /\ UNCHANGED <<vars, editor, edits, payVars>>

-----------------------------------------------------------------------------
(* A user pays: GetPaymentMethods, CreatePayment, and the gateway's page.  *)

\* The user picks from the list of enabled methods.
PickMethod(c, m) ==
    /\ customer[c] = Idle
    /\ method[m] # NoMethod /\ method[m].enabled
    /\ customer' = [customer EXCEPT ![c] = [step |-> "picked", method |-> m]]
    /\ UNCHANGED <<vars, methodVars, bill, callback, faults>>

\* CreatePayment inserts the order first, whatever the method is by now.
PlaceOrder(c, o, u, amount) ==
    /\ customer[c].step = "picked"
    /\ CreateOrder(o, u, amount, "payment")
    /\ customer' = [customer EXCEPT ![c] =
          [step |-> "jump", order |-> o, method |-> customer[c].method]]
    /\ UNCHANGED <<methodVars, bill, callback, faults>>

\* The driver exists and its SetConfig accepts the configuration.
Configured(m) == method[m] # NoMethod /\ method[m].config # Incomplete

\* GetPaymentJumpURL, with the signed URL of the driver's Pay.
JumpToGateway(c) ==
    LET m == customer[c].method IN
    /\ customer[c].step = "jump"
    /\ Configured(m) /\ method[m].enabled
    /\ bill' = [bill EXCEPT ![customer[c].order] =
          [status |-> "open", method |-> m, account |-> method[m].config]]
    /\ customer' = [customer EXCEPT ![c] = Idle]
    /\ UNCHANGED <<vars, methodVars, callback, faults>>

\* Unknown, disabled, or not configured: an error, and the order stays.
JumpRefused(c) ==
    LET m == customer[c].method IN
    /\ customer[c].step = "jump"
    /\ ~ (Configured(m) /\ method[m].enabled)
    /\ customer' = [customer EXCEPT ![c] = Idle]
    /\ UNCHANGED <<vars, methodVars, bill, callback, faults>>

\* The user leaves, or the request fails.
CustomerLeaves(c) ==
    /\ customer[c] # Idle
    /\ customer' = [customer EXCEPT ![c] = Idle]
    /\ UNCHANGED <<vars, methodVars, bill, callback, faults>>

\* The URL stays good whatever becomes of the method and the order.
PayAtGateway(o) ==
    /\ bill[o] # NoBill /\ bill[o].status = "open"
    /\ bill' = [bill EXCEPT ![o].status = "paid"]
    /\ UNCHANGED <<vars, methodVars, customer, callback, faults>>

-----------------------------------------------------------------------------
(* The callback: Notify, HandlePaymentNotify and CompleteOrder.            *)

\* The method is there, with the key that signs the order's callbacks.
SameAccount(o) ==
    LET m == bill[o].method IN
    Configured(m) /\ method[m].config = bill[o].account

\* A plausible slip: a callback is held to what a new payment is held to.
VerifiableIfEnabled(o) == SameAccount(o) /\ method[bill[o].method].enabled

\* The method is found by its uuid, enabled or not.
Verifiable(o) == SameAccount(o)

\* Paid for, and the gateway has not been answered "success".
Paid(o) == bill[o] # NoBill /\ bill[o].status = "paid"

\* The gateway calls, and calls again, until it is answered "success".  A
\* callback that is not verified is answered with an error and changes
\* nothing.
Deliver(j, o) ==
    /\ job[j] = Idle /\ callback[j] = NoOrder
    /\ Paid(o) /\ Verifiable(o)
    /\ callback' = [callback EXCEPT ![j] = o]
    /\ UNCHANGED <<vars, methodVars, customer, bill, faults>>

\* The external id is stored.
StoreExternal(j) ==
    /\ job[j] = Idle /\ callback[j] # NoOrder
    /\ Notify(j, callback[j])
    /\ UNCHANGED <<methodVars, payVars>>

\* A plausible slip: whatever CompleteOrder returns is answered "success".
AnswersOnce(j) == job[j] # Idle /\ job'[j] = Idle

\* HandlePaymentNotify returns no error: CompleteOrder has committed.
Answers(j) == job[j].step = "commit" /\ job'[j] = Idle

\* The callback ends with its job; the answer may be lost on its way.
AnswerCallback(j) ==
    /\ callback' = [callback EXCEPT ![j] =
          IF job'[j] = Idle THEN NoOrder ELSE @]
    /\ \/ UNCHANGED bill
       \/ /\ callback[j] # NoOrder /\ Answers(j)
          /\ bill' = [bill EXCEPT ![callback[j]].status = "acknowledged"]
    /\ UNCHANGED <<methodVars, customer, faults>>

\* Any failure of the job: the gateway gets an error or nothing.
JobFails(j) ==
    /\ faults < MaxFaults
    /\ faults' = faults + 1
    /\ AbandonJob(j)
    /\ callback' = [callback EXCEPT ![j] = NoOrder]
    /\ UNCHANGED <<methodVars, customer, bill>>

-----------------------------------------------------------------------------

\* The operations of Wallet and of administrators on orders go on.
AdminStep ==
    /\ \/ WalletStep
       \/ \E o \in OrderIds, u \in Users, amount \in Amounts :
             CreateOrder(o, u, amount, "manual")
       \/ \E j \in Jobs, o \in OrderIds :
             callback[j] = NoOrder /\ (AdminComplete(j, o) \/ CancelRead(j, o))
    /\ UNCHANGED <<methodVars, payVars>>

\* An update names the configuration or the flag; one that names both is
\* left out.
MethodStep ==
    \/ \E m \in Methods :
          \/ \E config \in Configs : CreateMethod(m, config)
          \/ \E e \in Editors :
                \/ \E config \in Configs : BeginEdit(e, m, config, Keep)
                \/ \E enabled \in BOOLEAN : BeginEdit(e, m, Keep, enabled)
          \/ DeleteMethod(m)
    \/ \E e \in Editors : WriteEdit(e)

CustomerStep ==
    \E c \in Customers :
       \/ \E m \in Methods : PickMethod(c, m)
       \/ \E o \in OrderIds, u \in Users, amount \in Amounts :
             PlaceOrder(c, o, u, amount)
       \/ JumpToGateway(c)
       \/ JumpRefused(c)
       \/ CustomerLeaves(c)

JobStep(j) == StoreExternal(j) \/ (ContinueJob(j) /\ AnswerCallback(j))

PaymentsNext ==
    \/ AdminStep
    \/ MethodStep
    \/ CustomerStep
    \/ \E o \in OrderIds : PayAtGateway(o) \/ \E j \in Jobs : Deliver(j, o)
    \/ \E j \in Jobs : JobStep(j) \/ JobFails(j)

PaymentsSpec == PaymentsInit /\ [][PaymentsNext]_paymentsVars

\* Every goroutine is run again, and the gateway does not give up: it
\* delivers a callback that can be delivered again and again.
FairPaymentsSpec ==
    /\ PaymentsSpec
    /\ \A j \in Jobs : SF_paymentsVars(JobStep(j))
    /\ \A o \in OrderIds : SF_paymentsVars(\E j \in Jobs : Deliver(j, o))

-----------------------------------------------------------------------------
(* Properties.                                                             *)

\* A method that was deleted stays deleted, although an update that has read
\* it before may write after (payment_service.go:59-83).
DeletedMethodsStay == \A m \in deleted : method[m] = NoMethod

\* The gateway hears "success" only of an order that is credited, since that
\* answer ends its callbacks, and with them the user's money would be lost
\* (api/v1/payment/handler.go:113-119).
AcknowledgedIsCredited ==
    \A o \in OrderIds :
       bill[o] # NoBill /\ bill[o].status = "acknowledged" => CreditsOf(o) # {}

\* What a user has paid is credited in the end, although the method is
\* disabled, callbacks fail and administrators complete the order meanwhile;
\* unless an administrator cancels it, or the method is gone or configured
\* with another key for good (payment_service.go:148-184).
PaidIsCredited ==
    \A o \in OrderIds :
       Paid(o) ~> \/ order[o] # NoOrder /\ CreditsOf(o) # {}
                  \/ order[o] # NoOrder /\ order[o].status = "cancelled"
                  \/ [](~ (Paid(o) /\ SameAccount(o)))

=============================================================================
