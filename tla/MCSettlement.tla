---------------------------- MODULE MCSettlement ----------------------------
(* Small instances of Settlement for TLC.                                  *)
EXTENDS Settlement, TLC

CONSTANTS r1, r2, u1, u2, c1, c2, c3, k1, k2

MCUserOf == [r \in Requests |-> u1]
MCDebit == [r \in Requests |-> IF r = r1 THEN 1 ELSE 2]
MCTouches == [r \in Requests |-> IF r = r1 THEN {"key_quota", "account_quota"} ELSE {"key_windows"}]
\* c1 and c2 are a call and its retry, c3 is another administrator, who sends
\* no key.
MCKeyOf == [c \in Calls |-> IF c = c3 THEN None ELSE k1]
MCAdjUser == [c \in Calls |-> u1]
MCOperation == [c \in Calls |-> IF c = c3 THEN "subtract" ELSE "set"]
MCAmount == [c \in Calls |-> IF c = c3 THEN 1 ELSE 3]

\* The ledger run has adjustments beside one task and one fault, or receipts of
\* both requests and MaxFaults faults.
Scope ==
    \/ consumed \subseteq Durable /\ faults <= 1
    \/ \A c \in Calls : pc[c] = "idle"

LedgerSpec == Init /\ [][Next /\ Scope']_vars /\ Fairness

WorkerSymmetry == Permutations(Workers)
=============================================================================
