------------------------------ MODULE PaidTask ------------------------------
(***************************************************************************)
(* What the asynchronous tasks of the gateway promise: a task is sent to   *)
(* the provider at most once, only a task that was sent is charged, and    *)
(* its result is published only when it is charged.                        *)
(***************************************************************************)
EXTENDS Naturals

CONSTANT Tasks

VARIABLES
    sent,       \* how often the task was sent
    charged,    \* whether its receipt is in the books
    outcome     \* "open", "result" or "failure"

taskVars == <<sent, charged, outcome>>

Init ==
    /\ sent = [t \in Tasks |-> 0]
    /\ charged = [t \in Tasks |-> FALSE]
    /\ outcome = [t \in Tasks |-> "open"]

Send(t) ==
    /\ sent[t] = 0 /\ outcome[t] = "open"
    /\ sent' = [sent EXCEPT ![t] = 1]
    /\ UNCHANGED <<charged, outcome>>

\* A failed task may be charged later: what it consumed is billed.
Charge(t) ==
    /\ sent[t] = 1
    /\ charged' = [charged EXCEPT ![t] = TRUE]
    /\ UNCHANGED <<sent, outcome>>

End(t, o) ==
    /\ outcome[t] = "open"
    /\ o = "result" => sent[t] = 1 /\ charged[t]
    /\ outcome' = [outcome EXCEPT ![t] = o]
    /\ UNCHANGED <<sent, charged>>

Next == \E t \in Tasks : Send(t) \/ Charge(t) \/ End(t, "result") \/ End(t, "failure")

Spec == Init /\ [][Next]_taskVars
=============================================================================
