------------------------------- MODULE Escrow -------------------------------
(***************************************************************************)
(* What batch images promise about money: the amount of a job is frozen    *)
(* once, and thawed once, either less what was delivered or in full.       *)
(***************************************************************************)
EXTENDS Integers

CONSTANTS
    Jobs, Users,
    UserOf,     \* who pays for a job
    Hold,       \* what a job freezes
    Balance     \* the initial balances

VARIABLES
    deal,       \* "none", "held", "captured" or "released"
    balance,
    frozen

escrowVars == <<deal, balance, frozen>>

Init ==
    /\ deal = [j \in Jobs |-> "none"]
    /\ balance = Balance
    /\ frozen = [u \in Users |-> 0]

\* A job is held only against money the user has.
Freeze(j) ==
    /\ deal[j] = "none" /\ balance[UserOf[j]] >= Hold[j]
    /\ deal' = [deal EXCEPT ![j] = "held"]
    /\ balance' = [balance EXCEPT ![UserOf[j]] = @ - Hold[j]]
    /\ frozen' = [frozen EXCEPT ![UserOf[j]] = @ + Hold[j]]

\* What is left of the hold goes back: all of it unless something was
\* delivered, and never more than was held.
Thaw(j, end, cost) ==
    /\ deal[j] = "held"
    /\ 0 <= cost /\ cost <= Hold[j]
    /\ end = "released" => cost = 0
    /\ deal' = [deal EXCEPT ![j] = end]
    /\ balance' = [balance EXCEPT ![UserOf[j]] = @ + Hold[j] - cost]
    /\ frozen' = [frozen EXCEPT ![UserOf[j]] = @ - Hold[j]]

\* The cost of a job is what its user's total loses by it.
Next ==
    \E j \in Jobs :
        \/ Freeze(j)
        \/ \E end \in {"captured", "released"} :
             Thaw(j, end, balance[UserOf[j]] + Hold[j] - balance'[UserOf[j]])

Spec == Init /\ [][Next]_escrowVars
=============================================================================
