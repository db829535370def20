--------------------------- MODULE AccountLedger ---------------------------
(***************************************************************************)
(* What internal/services/user_service.go promises its callers about       *)
(* money, with the transactions, versions and cache of the code left out:  *)
(* every operation on an account is atomic, the balance is whatever the    *)
(* account's statement says it is, and a debit is refused when balance     *)
(* and credit together do not cover it.  Wallet implements this module.    *)
(***************************************************************************)
EXTENDS Integers, Sequences

CONSTANTS
    Users,      \* the accounts
    Amounts,    \* what one operation may move, all positive
    Limits,     \* the credit limits an administrator may set
    Types,      \* the kinds a statement row may have
    Reasons     \* what the reason of a row may name

VARIABLES
    open,       \* open[u]: the account exists
    limit,      \* limit[u]: its credit limit
    statement   \* statement[u]: its rows, oldest first

vars == <<open, limit, statement>>

\* The balance is not stored: it is where the last row of the statement ended.
Balance(u) ==
    IF statement[u] = <<>> THEN 0 ELSE statement[u][Len(statement[u])].after

Init ==
    /\ open = [u \in Users |-> TRUE]
    /\ limit = [u \in Users |-> 0]
    /\ statement = [u \in Users |-> <<>>]

Record(u, amount, type, reason) ==
    /\ open[u]
    /\ statement' = [statement EXCEPT ![u] = Append(@,
          [amount |-> amount, before |-> Balance(u), after |-> Balance(u) + amount,
           type |-> type, reason |-> reason])]
    /\ UNCHANGED <<open, limit>>

Debit(u, amount, type, reason) ==
    /\ Balance(u) + limit[u] >= amount
    /\ Record(u, -amount, type, reason)

Credit(u, amount, type, reason) == Record(u, amount, type, reason)

SetLimit(u, newLimit) ==
    /\ open[u]
    /\ limit' = [limit EXCEPT ![u] = newLimit]
    /\ UNCHANGED <<open, statement>>

\* An account is closed with its statement, whatever the statement holds.
Close(u) ==
    /\ open[u]
    /\ open' = [open EXCEPT ![u] = FALSE]
    /\ limit' = [limit EXCEPT ![u] = 0]
    /\ statement' = [statement EXCEPT ![u] = <<>>]

Next ==
    \E u \in Users :
       \/ \E amount \in Amounts, type \in Types, reason \in Reasons :
             \/ Debit(u, amount, type, reason)
             \/ Credit(u, amount, type, reason)
       \/ \E newLimit \in Limits : SetLimit(u, newLimit)
       \/ Close(u)

Spec == Init /\ [][Next]_vars

=============================================================================
