------------------------------- MODULE Ledger -------------------------------
(***************************************************************************)
(* What settlement promises, without saying how: every consumed request is *)
(* charged to its user at most once, and a keyed balance adjustment is     *)
(* applied at most once as long as its key is remembered.  The history of  *)
(* adjustments and the set of charges explain every change of a balance.   *)
(***************************************************************************)
EXTENDS Integers

CONSTANTS
    Requests,   \* upstream requests that may consume
    Users,
    UserOf,     \* the user a request is charged to
    Debit,      \* what a request costs, in balance units
    Calls,      \* adjustments that administrators ask for
    Keys,       \* their idempotency keys
    KeyOf,      \* the key of a call, None if it has none
    AdjUser,    \* the user whose balance it adjusts
    None

VARIABLES
    charged,    \* requests whose debit is in the books
    balance,    \* users.balance
    history,    \* per user, the sum of the recorded adjustments
    adjusted,   \* calls whose adjustment is in the books
    remembered  \* keys of the adjustments of the last 24 hours

ledgerVars == <<charged, balance, history, adjusted, remembered>>

Init ==
    /\ charged = {}
    /\ balance = [u \in Users |-> 0]
    /\ history = [u \in Users |-> 0]
    /\ adjusted = {}
    /\ remembered = {}

Charge(r) ==
    /\ r \notin charged
    /\ charged' = charged \cup {r}
    /\ balance' = [balance EXCEPT ![UserOf[r]] = @ - Debit[r]]
    /\ UNCHANGED <<history, adjusted, remembered>>

\* The recorded amount is the change of the balance, and the result is
\* never negative, although a charge may leave a debt.
Adjust(c, delta) ==
    /\ c \notin adjusted
    /\ adjusted' = adjusted \cup {c}
    /\ KeyOf[c] \notin remembered
    /\ remembered' = remembered \cup ({KeyOf[c]} \ {None})
    /\ balance[AdjUser[c]] + delta >= 0
    /\ balance' = [balance EXCEPT ![AdjUser[c]] = @ + delta]
    /\ history' = [history EXCEPT ![AdjUser[c]] = @ + delta]
    /\ UNCHANGED charged

\* A key is forgotten after 24 hours, which moves no money.
Forget(k) ==
    /\ remembered' = remembered \ {k}
    /\ UNCHANGED <<charged, balance, history, adjusted>>

\* The delta of an adjustment is the change it makes to its user's balance.
Next ==
    \/ \E r \in Requests : Charge(r)
    \/ \E c \in Calls : Adjust(c, balance'[AdjUser[c]] - balance[AdjUser[c]])
    \/ \E k \in Keys : Forget(k)

Spec == Init /\ [][Next]_ledgerVars
=============================================================================
