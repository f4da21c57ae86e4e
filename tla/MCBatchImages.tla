--------------------------- MODULE MCBatchImages ---------------------------
(* Small instances of BatchImages for TLC.                                 *)
EXTENDS BatchImages, TLC

CONSTANTS j1, j2, j3, j4, u1, k1, k2, e1, p1, p2

\* Submissions of one user: j1 and j2 repeat one with its Idempotency-Key, j3
\* comes by the user's other API key, and j4 by the first one again, without an
\* Idempotency-Key.
MCUserOf == [j \in Jobs |-> u1]
MCApiKeyOf == [j \in Jobs |-> IF j = j3 THEN k2 ELSE k1]
MCIdemOf == [j \in Jobs |-> IF j \in {j3, j4} THEN None ELSE e1]
MCHold == [j \in Jobs |-> 2]
MCCost == [j \in Jobs |-> [n \in 0..2 |-> n]]
MCItems == [j \in Jobs |-> 2]
MCOneItem == [j \in Jobs |-> 1]
MCBalance == [u \in Users |-> 6]

\* The run of batch_jobs explores the submissions of all four, with cancellations,
\* before the worker takes part; the life of j1 and its repetition with MaxFaults
\* faults; and j1 and j3, which is left alone, as they wait for one place in the
\* worker's page, with one fault or intervention.
OnlySubmissions ==
    /\ faults = 0 /\ hidden \cup expired \cup purged = {}
    /\ \A i \in Processes : pc[i] \in {"idle", "cancelling"}
OneKey == \A j \in {j3, j4} : call[j] = "new"
TwoKeys ==
    /\ faults <= 1 /\ deleted = {}
    /\ \A j \in {j2, j4} : call[j] = "new"
    /\ j3 \notin hidden \cup intent \cup revoked \cup expired \cup purged
    /\ provider[j3] # "failed"
    /\ \A i \in Processes : pc[i] = "cancelling" => job[i] # j3

JobsNext == Next /\ (OnlySubmissions \/ OneKey \/ TwoKeys)'
JobsSpec == Init /\ [][JobsNext]_vars /\ Fairness

ProcessSymmetry == Permutations(Processes)
=============================================================================
