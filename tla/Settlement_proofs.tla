------------------------- MODULE Settlement_proofs -------------------------
(***************************************************************************)
(* Proofs about Settlement for any number of requests, users, workers,     *)
(* adjustments and faults.                                                 *)
(***************************************************************************)
EXTENDS Settlement, TLAPS

(***************************************************************************)
(* What an open transaction knows.  The exactly-once property is not       *)
(* inductive alone: Commit posts a receipt without looking at dedup again, *)
(* so the invariant has to say that a claimed dedup row is nobody else's   *)
(* and not committed yet, and that a locked users row was locked after the *)
(* archive was checked.                                                    *)
(***************************************************************************)
ControlInv ==
    /\ \A r \in Requests : /\ pc[r] \in {"idle", "save", "apply", "cleanup", "finish", "done"}
                           /\ job[r] = r
                           /\ pc[r] # "idle" => r \in consumed
    /\ \A w \in Workers : /\ pc[w] \in {"idle", "next", "apply", "cleanup"}
                          /\ pc[w] \in {"apply", "cleanup"} => job[w] \in Requests
    /\ \A c \in Calls : pc[c] \in {"idle", "adjust", "done"}
    /\ \A a \in Appliers : pc[a] = "cleanup" => job[a] \in Charged
    /\ \A r \in Requests : pc[r] = "finish" => r \in Charged

ClaimInv ==
    /\ \A a \in Appliers :
         claim[a] # None => claim[a] = job[a] /\ claim[a] \notin dedup /\ pc[a] = "apply"
    /\ \A a, b \in Appliers : claim[a] # None /\ claim[a] = claim[b] => a = b
    /\ \A c \in Calls : claim[c] = None

RowInv ==
    /\ \A a \in Appliers :
         row[a] # None => claim[a] # None /\ claim[a] \notin archived /\ row[a] = UserOf[claim[a]]
    /\ \A a, b \in Actors : row[a] # None /\ row[a] = row[b] => a = b
    /\ \A c \in Calls : row[c] # None =>
         /\ pc[c] = "adjust" /\ row[c] = AdjUser[c] /\ old[c] = balance[AdjUser[c]]

KeyInv ==
    /\ \A c \in Calls : pc[c] = "adjust" => KeyOf[c] \notin records
    /\ \A c \in adjusted : pc[c] = "done"
    /\ \A c, d \in Calls :
         pc[c] = "adjust" /\ pc[d] = "adjust" /\ KeyOf[c] = KeyOf[d] /\ KeyOf[c] # None => c = d

StoredInv ==
    /\ \A r \in Requests : stored[r] => r \in consumed
    /\ checkpoint \subseteq consumed

IInv ==
    /\ TypeOK /\ ControlInv /\ ClaimInv /\ RowInv /\ KeyInv /\ StoredInv
    /\ ExactlyOnce /\ SuccessIsCharged /\ Recoverable

\* Before the first request every book is empty and no transaction is open.
LEMMA InitInv == Init => IInv
  BY SettlementAssumption
  DEF Init, IInv, TypeOK, ControlInv, ClaimInv, RowInv, KeyInv, StoredInv, ExactlyOnce, SuccessIsCharged, Recoverable,
      Actors, Appliers, Charged, Books, OptionalBooks, BooksOf

\* Observing usage writes no book and leaves a checkpoint for durable tasks only.
LEMMA ObserveInv ==
  ASSUME IInv, NEW r \in Requests, Observe(r)
  PROVE  IInv'
<1> USE SettlementAssumption DEF IInv, Observe, redis, books, tx, Actors, Appliers, Charged, Goto
<1>1. TypeOK'
  BY DEF TypeOK, ControlInv, ClaimInv, RowInv, KeyInv, StoredInv
<1>2. (ControlInv /\ StoredInv)'
  BY DEF TypeOK, ControlInv, ClaimInv, RowInv, KeyInv, StoredInv
<1>3. (ClaimInv /\ RowInv /\ KeyInv)'
  BY DEF TypeOK, ControlInv, ClaimInv, RowInv, KeyInv, StoredInv
<1>4. (ExactlyOnce /\ SuccessIsCharged /\ Recoverable)'
  BY DEF TypeOK, ControlInv, ClaimInv, RowInv, KeyInv, StoredInv, ExactlyOnce, SuccessIsCharged, Recoverable
<1> QED
  BY <1>1, <1>2, <1>3, <1>4

\* Settling a checkpoint again starts from saveReceipt with nothing claimed.
LEMMA RetryTaskInv ==
  ASSUME IInv, NEW r \in Requests, RetryTask(r)
  PROVE  IInv'
<1> USE SettlementAssumption DEF IInv, RetryTask, redis, books, tx, Actors, Appliers, Charged, Goto
<1>1. TypeOK'
  BY DEF TypeOK, ControlInv, ClaimInv, RowInv, KeyInv, StoredInv
<1>2. (ControlInv /\ StoredInv)'
  BY DEF TypeOK, ControlInv, ClaimInv, RowInv, KeyInv, StoredInv
<1>3. (ClaimInv /\ RowInv /\ KeyInv)'
  BY DEF TypeOK, ControlInv, ClaimInv, RowInv, KeyInv, StoredInv
<1>4. (ExactlyOnce /\ SuccessIsCharged /\ Recoverable)'
  BY DEF TypeOK, ControlInv, ClaimInv, RowInv, KeyInv, StoredInv, ExactlyOnce, SuccessIsCharged, Recoverable
<1> QED
  BY <1>1, <1>2, <1>3, <1>4

\* After HSet, stored is set only when the receipt is in the hash.
LEMMA SavePendingInv ==
  ASSUME IInv, NEW r \in Requests, SavePending(r)
  PROVE  IInv'
<1> USE SettlementAssumption DEF IInv, SavePending, redis, books, tx, Actors, Appliers, Charged, Goto
<1>1. CASE NoFault /\ pending' = pending \cup {r} /\ stored' = [stored EXCEPT ![r] = TRUE]
  <2> USE DEF NoFault
  <2>1. TypeOK'
    BY <1>1 DEF TypeOK, ControlInv, ClaimInv, RowInv, KeyInv, StoredInv
  <2>2. (ControlInv /\ StoredInv)'
    BY <1>1 DEF TypeOK, ControlInv, ClaimInv, RowInv, KeyInv, StoredInv
  <2>3. (ClaimInv /\ RowInv /\ KeyInv)'
    BY <1>1 DEF TypeOK, ControlInv, ClaimInv, RowInv, KeyInv, StoredInv
  <2>4. (ExactlyOnce /\ SuccessIsCharged /\ Recoverable)'
    BY <1>1 DEF TypeOK, ControlInv, ClaimInv, RowInv, KeyInv, StoredInv, ExactlyOnce, SuccessIsCharged, Recoverable
  <2> QED
    BY <2>1, <2>2, <2>3, <2>4
<1>2. CASE Fault /\ pending' \in {pending, pending \cup {r}} /\ stored' = [stored EXCEPT ![r] = FALSE]
  <2> USE DEF Fault
  <2>1. TypeOK'
    BY <1>2 DEF TypeOK, ControlInv, ClaimInv, RowInv, KeyInv, StoredInv
  <2>2. (ControlInv /\ StoredInv)'
    BY <1>2 DEF TypeOK, ControlInv, ClaimInv, RowInv, KeyInv, StoredInv
  <2>3. (ClaimInv /\ RowInv /\ KeyInv)'
    BY <1>2 DEF TypeOK, ControlInv, ClaimInv, RowInv, KeyInv, StoredInv
  <2>4. (ExactlyOnce /\ SuccessIsCharged /\ Recoverable)'
    BY <1>2 DEF TypeOK, ControlInv, ClaimInv, RowInv, KeyInv, StoredInv, ExactlyOnce, SuccessIsCharged, Recoverable
  <2> QED
    BY <2>1, <2>2, <2>3, <2>4
<1> QED
  BY <1>1, <1>2

\* A receipt found in the dedup table is charged, so success may be reported.
LEMMA AlreadyAppliedInv ==
  ASSUME IInv, NEW a \in Appliers, AlreadyApplied(a)
  PROVE  IInv'
<1> USE SettlementAssumption DEF IInv, AlreadyApplied, redis, books, tx, Actors, Appliers, Charged, Return, Goto
<1>1. TypeOK'
  BY DEF TypeOK, ControlInv, ClaimInv, RowInv, KeyInv, StoredInv
<1>2. (ControlInv /\ StoredInv)'
  BY DEF TypeOK, ControlInv, ClaimInv, RowInv, KeyInv, StoredInv
<1>3. (ClaimInv /\ RowInv /\ KeyInv)'
  BY DEF TypeOK, ControlInv, ClaimInv, RowInv, KeyInv, StoredInv
<1>4. (ExactlyOnce /\ SuccessIsCharged /\ Recoverable)'
  BY DEF TypeOK, ControlInv, ClaimInv, RowInv, KeyInv, StoredInv, ExactlyOnce, SuccessIsCharged, Recoverable
<1> QED
  BY <1>1, <1>2, <1>3, <1>4

\* The unique index lets one transaction at a time hold the dedup row of a receipt.
LEMMA InsertDedupInv ==
  ASSUME IInv, NEW a \in Appliers, InsertDedup(a)
  PROVE  IInv'
<1> USE SettlementAssumption DEF IInv, InsertDedup, redis, books, tx, Actors, Appliers, Charged
<1>1. TypeOK'
  BY DEF TypeOK, ControlInv, ClaimInv, RowInv, KeyInv, StoredInv
<1>2. (ControlInv /\ StoredInv)'
  BY DEF TypeOK, ControlInv, ClaimInv, RowInv, KeyInv, StoredInv
<1>3. (ClaimInv /\ RowInv /\ KeyInv)'
  BY DEF TypeOK, ControlInv, ClaimInv, RowInv, KeyInv, StoredInv
<1>4. (ExactlyOnce /\ SuccessIsCharged /\ Recoverable)'
  BY DEF TypeOK, ControlInv, ClaimInv, RowInv, KeyInv, StoredInv, ExactlyOnce, SuccessIsCharged, Recoverable
<1> QED
  BY <1>1, <1>2, <1>3, <1>4

\* A receipt found in the archive is charged, so success may be reported.
LEMMA ArchivedAppliedInv ==
  ASSUME IInv, NEW a \in Appliers, ArchivedApplied(a)
  PROVE  IInv'
<1> USE SettlementAssumption DEF IInv, ArchivedApplied, redis, books, tx, Actors, Appliers, Charged, Return, Goto
<1>1. TypeOK'
  BY DEF TypeOK, ControlInv, ClaimInv, RowInv, KeyInv, StoredInv
<1>2. (ControlInv /\ StoredInv)'
  BY DEF TypeOK, ControlInv, ClaimInv, RowInv, KeyInv, StoredInv
<1>3. (ClaimInv /\ RowInv /\ KeyInv)'
  BY DEF TypeOK, ControlInv, ClaimInv, RowInv, KeyInv, StoredInv
<1>4. (ExactlyOnce /\ SuccessIsCharged /\ Recoverable)'
  BY DEF TypeOK, ControlInv, ClaimInv, RowInv, KeyInv, StoredInv, ExactlyOnce, SuccessIsCharged, Recoverable
<1> QED
  BY <1>1, <1>2, <1>3, <1>4

\* The users row is locked by one transaction, after the archive was checked.
LEMMA LockUserInv ==
  ASSUME IInv, NEW a \in Appliers, LockUser(a)
  PROVE  IInv'
<1> USE SettlementAssumption DEF IInv, LockUser, redis, books, tx, Actors, Appliers, Charged
<1>1. TypeOK'
  BY DEF TypeOK, ControlInv, ClaimInv, RowInv, KeyInv, StoredInv
<1>2. (ControlInv /\ StoredInv)'
  BY DEF TypeOK, ControlInv, ClaimInv, RowInv, KeyInv, StoredInv
<1>3. (ClaimInv /\ RowInv /\ KeyInv)'
  BY DEF TypeOK, ControlInv, ClaimInv, RowInv, KeyInv, StoredInv
<1>4. (ExactlyOnce /\ SuccessIsCharged /\ Recoverable)'
  BY DEF TypeOK, ControlInv, ClaimInv, RowInv, KeyInv, StoredInv, ExactlyOnce, SuccessIsCharged, Recoverable
<1> QED
  BY <1>1, <1>2, <1>3, <1>4

\* The commit posts a receipt that no book holds, also when its answer is lost.
LEMMA CommitInv ==
  ASSUME IInv, NEW a \in Appliers, Commit(a)
  PROVE  IInv'
<1> USE SettlementAssumption DEF IInv, Commit, redis, books, tx, Actors, Appliers, Charged
<1> DEFINE r == claim[a]
<1>1. /\ r \in Requests /\ r = job[a] /\ r \notin Charged
      /\ UserOf[r] \in Users /\ Debit[r] \in Nat /\ row[a] = UserOf[r]
  BY DEF TypeOK, ClaimInv, RowInv
<1>2. /\ balance' \in [Users -> Int]
      /\ posted' \in [Books -> [Requests -> Nat]]
      /\ dedup' = dedup \cup {r} /\ dedup' \subseteq Requests
      /\ UNCHANGED <<archived, history, adjusted, records, deleted>>
  BY <1>1 DEF Post, TypeOK
<1>3. faults' \in 0..MaxFaults
  <2>1. Fault \/ NoFault
    OBVIOUS
  <2> QED
    BY <2>1 DEF Fault, NoFault, TypeOK
<1>4. /\ claim' = [claim EXCEPT ![a] = None]
      /\ row' = [row EXCEPT ![a] = None]
      /\ \/ pc' = [pc EXCEPT ![a] = "cleanup"] /\ UNCHANGED <<page, reply>>
         \/ /\ a \in Workers /\ pc' = [pc EXCEPT ![a] = "idle"]
            /\ page' = [page EXCEPT ![a] = {}] /\ UNCHANGED reply
         \/ /\ a \in Requests /\ pc' = [pc EXCEPT ![a] = "done"]
            /\ UNCHANGED page /\ reply' = [reply EXCEPT ![a] = "error"]
  BY DEF Return, Goto
<1> HIDE DEF r
<1>5. TypeOK'
  <2>1. /\ pc' \in [Actors -> {"idle", "save", "next", "apply", "cleanup", "finish", "adjust", "done"}]
        /\ page' \in [Workers -> SUBSET Requests]
        /\ reply' \in [Requests -> {"none", "ok", "error"}]
    BY <1>4 DEF TypeOK
  <2>2. /\ claim' \in [Actors -> Requests \cup {None}]
        /\ row' \in [Actors -> Users \cup {None}]
    BY <1>4 DEF TypeOK
  <2> QED
    BY <1>2, <1>3, <2>1, <2>2 DEF TypeOK
<1>6. (ControlInv /\ StoredInv)'
  <2>1. UNCHANGED <<consumed, checkpoint, job, stored>> /\ Charged' = Charged \cup {r}
    BY <1>2
  <2>2. a \in Requests => a \in consumed
    BY <1>4 DEF ControlInv
  <2>3. pc[a] = "apply"
    OBVIOUS
  <2>4. CASE pc' = [pc EXCEPT ![a] = "cleanup"]
    BY <1>1, <2>1, <2>2, <2>3, <2>4 DEF TypeOK, ControlInv, StoredInv
  <2>5. CASE a \in Workers /\ pc' = [pc EXCEPT ![a] = "idle"]
    BY <1>1, <2>1, <2>5 DEF TypeOK, ControlInv, StoredInv
  <2>6. CASE a \in Requests /\ pc' = [pc EXCEPT ![a] = "done"]
    BY <1>1, <2>1, <2>2, <2>3, <2>6 DEF TypeOK, ControlInv, StoredInv
  <2> QED
    BY <1>4, <2>4, <2>5, <2>6
<1>7. ClaimInv'
  BY <1>1, <1>2, <1>4 DEF TypeOK, ClaimInv, r
<1>8. RowInv'
  \* An adjustment that has read this balance would hold the row lock too.
  <2>1. ASSUME NEW c \in Calls, row[c] # None
        PROVE  balance'[AdjUser[c]] = balance[AdjUser[c]]
    <3>1. c # a /\ row[c] = AdjUser[c]
      BY <2>1 DEF RowInv
    <3>2. AdjUser[c] # UserOf[r]
      BY <1>1, <2>1, <3>1 DEF RowInv
    <3> QED
      BY <3>2 DEF Post, TypeOK, r
  <2> QED
    BY <1>1, <1>2, <1>4, <2>1 DEF TypeOK, ControlInv, ClaimInv, RowInv
<1>9. KeyInv'
  BY <1>1, <1>2, <1>4, ZenonT(40) DEF TypeOK, KeyInv
<1>10. ExactlyOnce'
  BY <1>1, <1>2 DEF TypeOK, Post, ExactlyOnce, BooksOf, Books, OptionalBooks, r
<1>11. (SuccessIsCharged /\ Recoverable)'
  BY <1>1, <1>2, <1>4 DEF TypeOK, SuccessIsCharged, Recoverable
<1> QED
  BY <1>5, <1>6, <1>7, <1>8, <1>9, <1>10, <1>11

\* A rollback gives up claim and row lock and changes no book.
LEMMA ApplyFailsInv ==
  ASSUME IInv, NEW a \in Appliers, ApplyFails(a)
  PROVE  IInv'
<1> USE SettlementAssumption DEF IInv, ApplyFails, redis, books, tx, Actors, Appliers, Charged, Return, Goto, Fault
<1>1. TypeOK'
  BY DEF TypeOK, ControlInv, ClaimInv, RowInv, KeyInv, StoredInv
<1>2. (ControlInv /\ StoredInv)'
  BY DEF TypeOK, ControlInv, ClaimInv, RowInv, KeyInv, StoredInv
<1>3. (ClaimInv /\ RowInv /\ KeyInv)'
  BY DEF TypeOK, ControlInv, ClaimInv, RowInv, KeyInv, StoredInv
<1>4. (ExactlyOnce /\ SuccessIsCharged /\ Recoverable)'
  BY DEF TypeOK, ControlInv, ClaimInv, RowInv, KeyInv, StoredInv, ExactlyOnce, SuccessIsCharged, Recoverable
<1> QED
  BY <1>1, <1>2, <1>3, <1>4

\* The handler removes a receipt from the hash, and reports success, once it is charged.
LEMMA DropPendingInv ==
  ASSUME IInv, NEW r \in Requests, DropPending(r)
  PROVE  IInv'
<1> USE SettlementAssumption DEF IInv, DropPending, redis, books, tx, Actors, Appliers, Charged, Goto, Fault, NoFault
<1>1. TypeOK'
  BY DEF TypeOK, ControlInv, ClaimInv, RowInv, KeyInv, StoredInv
<1>2. (ControlInv /\ StoredInv)'
  BY DEF TypeOK, ControlInv, ClaimInv, RowInv, KeyInv, StoredInv
<1>3. (ClaimInv /\ RowInv /\ KeyInv)'
  BY DEF TypeOK, ControlInv, ClaimInv, RowInv, KeyInv, StoredInv
<1>4. (ExactlyOnce /\ SuccessIsCharged /\ Recoverable)'
  BY DEF TypeOK, ControlInv, ClaimInv, RowInv, KeyInv, StoredInv, ExactlyOnce, SuccessIsCharged, Recoverable
<1> QED
  BY <1>1, <1>2, <1>3, <1>4

\* A task gives its checkpoint up once it is charged.
LEMMA FinishTaskInv ==
  ASSUME IInv, NEW r \in Requests, FinishTask(r)
  PROVE  IInv'
<1> USE SettlementAssumption DEF IInv, FinishTask, redis, books, tx, Actors, Appliers, Charged, Goto, Fault, NoFault
<1>1. TypeOK'
  BY DEF TypeOK, ControlInv, ClaimInv, RowInv, KeyInv, StoredInv
<1>2. (ControlInv /\ StoredInv)'
  BY DEF TypeOK, ControlInv, ClaimInv, RowInv, KeyInv, StoredInv
<1>3. (ClaimInv /\ RowInv /\ KeyInv)'
  BY DEF TypeOK, ControlInv, ClaimInv, RowInv, KeyInv, StoredInv
<1>4. (ExactlyOnce /\ SuccessIsCharged /\ Recoverable)'
  BY DEF TypeOK, ControlInv, ClaimInv, RowInv, KeyInv, StoredInv, ExactlyOnce, SuccessIsCharged, Recoverable
<1> QED
  BY <1>1, <1>2, <1>3, <1>4

\* HScan only reads the hash.
LEMMA ScanInv ==
  ASSUME IInv, NEW w \in Workers, Scan(w)
  PROVE  IInv'
<1> USE SettlementAssumption DEF IInv, Scan, redis, books, tx, Actors, Appliers, Charged, Goto
<1>1. TypeOK'
  BY DEF TypeOK, ControlInv, ClaimInv, RowInv, KeyInv, StoredInv
<1>2. (ControlInv /\ StoredInv)'
  BY DEF TypeOK, ControlInv, ClaimInv, RowInv, KeyInv, StoredInv
<1>3. (ClaimInv /\ RowInv /\ KeyInv)'
  BY DEF TypeOK, ControlInv, ClaimInv, RowInv, KeyInv, StoredInv
<1>4. (ExactlyOnce /\ SuccessIsCharged /\ Recoverable)'
  BY DEF TypeOK, ControlInv, ClaimInv, RowInv, KeyInv, StoredInv, ExactlyOnce, SuccessIsCharged, Recoverable
<1> QED
  BY <1>1, <1>2, <1>3, <1>4

\* A worker takes up a receipt of its page without removing it from the hash.
LEMMA NextReceiptInv ==
  ASSUME IInv, NEW w \in Workers, NextReceipt(w)
  PROVE  IInv'
<1> USE SettlementAssumption DEF IInv, NextReceipt, redis, books, tx, Actors, Appliers, Charged, Goto
<1>1. ASSUME NEW r \in page[w],
             job' = [job EXCEPT ![w] = r],
             page' = [page EXCEPT ![w] = @ \ {r}],
             Goto(w, "apply")
      PROVE  IInv'
  <2>0. r \in Requests
    BY <1>1 DEF TypeOK
  <2>1. TypeOK'
    BY <1>1, <2>0 DEF TypeOK, ControlInv, ClaimInv, RowInv, KeyInv, StoredInv
  <2>2. (ControlInv /\ StoredInv)'
    BY <1>1, <2>0 DEF TypeOK, ControlInv, ClaimInv, RowInv, KeyInv, StoredInv
  <2>3. (ClaimInv /\ RowInv /\ KeyInv)'
    BY <1>1, <2>0 DEF TypeOK, ControlInv, ClaimInv, RowInv, KeyInv, StoredInv
  <2>4. (ExactlyOnce /\ SuccessIsCharged /\ Recoverable)'
    BY <1>1, <2>0 DEF TypeOK, ControlInv, ClaimInv, RowInv, KeyInv, StoredInv, ExactlyOnce, SuccessIsCharged, Recoverable
  <2> QED
    BY <2>1, <2>2, <2>3, <2>4
<1>2. CASE page[w] = {} /\ Goto(w, "idle") /\ UNCHANGED <<job, page>>
  <2>1. TypeOK'
    BY <1>2 DEF TypeOK, ControlInv, ClaimInv, RowInv, KeyInv, StoredInv
  <2>2. (ControlInv /\ StoredInv)'
    BY <1>2 DEF TypeOK, ControlInv, ClaimInv, RowInv, KeyInv, StoredInv
  <2>3. (ClaimInv /\ RowInv /\ KeyInv)'
    BY <1>2 DEF TypeOK, ControlInv, ClaimInv, RowInv, KeyInv, StoredInv
  <2>4. (ExactlyOnce /\ SuccessIsCharged /\ Recoverable)'
    BY <1>2 DEF TypeOK, ControlInv, ClaimInv, RowInv, KeyInv, StoredInv, ExactlyOnce, SuccessIsCharged, Recoverable
  <2> QED
    BY <2>1, <2>2, <2>3, <2>4
<1> QED
  BY <1>1, <1>2

\* A worker removes a receipt from the hash once it is charged.
LEMMA DropRecoveredInv ==
  ASSUME IInv, NEW w \in Workers, DropRecovered(w)
  PROVE  IInv'
<1> USE SettlementAssumption DEF IInv, DropRecovered, redis, books, tx, Actors, Appliers, Charged, Goto
<1>1. CASE NoFault /\ pending' = pending \ {job[w]} /\ Goto(w, "next") /\ UNCHANGED page
  <2> USE DEF NoFault
  <2>1. TypeOK'
    BY <1>1 DEF TypeOK, ControlInv, ClaimInv, RowInv, KeyInv, StoredInv
  <2>2. (ControlInv /\ StoredInv)'
    BY <1>1 DEF TypeOK, ControlInv, ClaimInv, RowInv, KeyInv, StoredInv
  <2>3. (ClaimInv /\ RowInv /\ KeyInv)'
    BY <1>1 DEF TypeOK, ControlInv, ClaimInv, RowInv, KeyInv, StoredInv
  <2>4. (ExactlyOnce /\ SuccessIsCharged /\ Recoverable)'
    BY <1>1 DEF TypeOK, ControlInv, ClaimInv, RowInv, KeyInv, StoredInv, ExactlyOnce, SuccessIsCharged, Recoverable
  <2> QED
    BY <2>1, <2>2, <2>3, <2>4
<1>2. CASE Fault /\ UNCHANGED pending /\ Goto(w, "idle") /\ page' = [page EXCEPT ![w] = {}]
  <2> USE DEF Fault
  <2>1. TypeOK'
    BY <1>2 DEF TypeOK, ControlInv, ClaimInv, RowInv, KeyInv, StoredInv
  <2>2. (ControlInv /\ StoredInv)'
    BY <1>2 DEF TypeOK, ControlInv, ClaimInv, RowInv, KeyInv, StoredInv
  <2>3. (ClaimInv /\ RowInv /\ KeyInv)'
    BY <1>2 DEF TypeOK, ControlInv, ClaimInv, RowInv, KeyInv, StoredInv
  <2>4. (ExactlyOnce /\ SuccessIsCharged /\ Recoverable)'
    BY <1>2 DEF TypeOK, ControlInv, ClaimInv, RowInv, KeyInv, StoredInv, ExactlyOnce, SuccessIsCharged, Recoverable
  <2> QED
    BY <2>1, <2>2, <2>3, <2>4
<1> QED
  BY <1>1, <1>2

\* The advisory lock leaves one call of a key that found no record.
LEMMA BeginAdjustInv ==
  ASSUME IInv, NEW c \in Calls, BeginAdjust(c)
  PROVE  IInv'
<1> USE SettlementAssumption DEF IInv, BeginAdjust, redis, books, tx, Actors, Appliers, Charged, Goto
<1>1. TypeOK'
  BY DEF TypeOK, ControlInv, ClaimInv, RowInv, KeyInv, StoredInv
<1>2. (ControlInv /\ StoredInv)'
  BY DEF TypeOK, ControlInv, ClaimInv, RowInv, KeyInv, StoredInv
<1>3. (ClaimInv /\ RowInv /\ KeyInv)'
  BY DEF TypeOK, ControlInv, ClaimInv, RowInv, KeyInv, StoredInv
<1>4. (ExactlyOnce /\ SuccessIsCharged /\ Recoverable)'
  BY DEF TypeOK, ControlInv, ClaimInv, RowInv, KeyInv, StoredInv, ExactlyOnce, SuccessIsCharged, Recoverable
<1> QED
  BY <1>1, <1>2, <1>3, <1>4

\* The balance read FOR UPDATE stays current while the row is locked.
LEMMA ReadBalanceInv ==
  ASSUME IInv, NEW c \in Calls, ReadBalance(c)
  PROVE  IInv'
<1> USE SettlementAssumption DEF IInv, ReadBalance, redis, books, tx, Actors, Appliers, Charged
<1>0. AdjUser[c] \in Users /\ balance[AdjUser[c]] \in Int
  BY DEF TypeOK
<1>1. TypeOK'
  BY <1>0 DEF TypeOK
<1>2. (ControlInv /\ StoredInv)'
  BY DEF TypeOK, ControlInv, ClaimInv, RowInv, KeyInv, StoredInv
<1>3. (ClaimInv /\ RowInv /\ KeyInv)'
  BY DEF TypeOK, ControlInv, ClaimInv, RowInv, KeyInv, StoredInv
<1>4. (ExactlyOnce /\ SuccessIsCharged /\ Recoverable)'
  BY DEF TypeOK, ControlInv, ClaimInv, RowInv, KeyInv, StoredInv, ExactlyOnce, SuccessIsCharged, Recoverable
<1> QED
  BY <1>1, <1>2, <1>3, <1>4

\* The adjustment records its key once and touches no receipt.
LEMMA CommitAdjustInv ==
  ASSUME IInv, NEW c \in Calls, CommitAdjust(c)
  PROVE  IInv'
<1> USE SettlementAssumption DEF IInv, CommitAdjust, redis, books, tx, Actors, Appliers, Charged, Goto, Adjusted
<1>1. TypeOK'
  BY DEF TypeOK, ControlInv, ClaimInv, RowInv, KeyInv, StoredInv
<1>2. (ControlInv /\ StoredInv)'
  BY DEF TypeOK, ControlInv, ClaimInv, RowInv, KeyInv, StoredInv
<1>3. (ClaimInv /\ RowInv /\ KeyInv)'
  BY DEF TypeOK, ControlInv, ClaimInv, RowInv, KeyInv, StoredInv
<1>4. (ExactlyOnce /\ SuccessIsCharged /\ Recoverable)'
  BY DEF TypeOK, ControlInv, ClaimInv, RowInv, KeyInv, StoredInv, ExactlyOnce, SuccessIsCharged, Recoverable
<1> QED
  BY <1>1, <1>2, <1>3, <1>4

\* An abandoned adjustment changes no book.
LEMMA AbortAdjustInv ==
  ASSUME IInv, NEW c \in Calls, AbortAdjust(c)
  PROVE  IInv'
<1> USE SettlementAssumption DEF IInv, AbortAdjust, redis, books, tx, Actors, Appliers, Charged, Goto, Fault, NoFault
<1>1. TypeOK'
  BY DEF TypeOK, ControlInv, ClaimInv, RowInv, KeyInv, StoredInv
<1>2. (ControlInv /\ StoredInv)'
  BY DEF TypeOK, ControlInv, ClaimInv, RowInv, KeyInv, StoredInv
<1>3. (ClaimInv /\ RowInv /\ KeyInv)'
  BY DEF TypeOK, ControlInv, ClaimInv, RowInv, KeyInv, StoredInv
<1>4. (ExactlyOnce /\ SuccessIsCharged /\ Recoverable)'
  BY DEF TypeOK, ControlInv, ClaimInv, RowInv, KeyInv, StoredInv, ExactlyOnce, SuccessIsCharged, Recoverable
<1> QED
  BY <1>1, <1>2, <1>3, <1>4

\* An expired record is no longer looked at; who holds its key found none.
LEMMA ExpireRecordInv ==
  ASSUME IInv, NEW k \in Keys, ExpireRecord(k)
  PROVE  IInv'
<1> USE SettlementAssumption DEF IInv, ExpireRecord, redis, books, tx, Actors, Appliers, Charged
<1>1. TypeOK'
  BY DEF TypeOK, ControlInv, ClaimInv, RowInv, KeyInv, StoredInv
<1>2. (ControlInv /\ StoredInv)'
  BY DEF TypeOK, ControlInv, ClaimInv, RowInv, KeyInv, StoredInv
<1>3. (ClaimInv /\ RowInv /\ KeyInv)'
  BY DEF TypeOK, ControlInv, ClaimInv, RowInv, KeyInv, StoredInv
<1>4. (ExactlyOnce /\ SuccessIsCharged /\ Recoverable)'
  BY DEF TypeOK, ControlInv, ClaimInv, RowInv, KeyInv, StoredInv, ExactlyOnce, SuccessIsCharged, Recoverable
<1> QED
  BY <1>1, <1>2, <1>3, <1>4

\* Deletion waits for the row lock and changes no book.
LEMMA DeleteUserInv ==
  ASSUME IInv, NEW u \in Users, DeleteUser(u)
  PROVE  IInv'
<1> USE SettlementAssumption DEF IInv, DeleteUser, redis, books, tx, Actors, Appliers, Charged
<1>1. TypeOK'
  BY DEF TypeOK, ControlInv, ClaimInv, RowInv, KeyInv, StoredInv
<1>2. (ControlInv /\ StoredInv)'
  BY DEF TypeOK, ControlInv, ClaimInv, RowInv, KeyInv, StoredInv
<1>3. (ClaimInv /\ RowInv /\ KeyInv)'
  BY DEF TypeOK, ControlInv, ClaimInv, RowInv, KeyInv, StoredInv
<1>4. (ExactlyOnce /\ SuccessIsCharged /\ Recoverable)'
  BY DEF TypeOK, ControlInv, ClaimInv, RowInv, KeyInv, StoredInv, ExactlyOnce, SuccessIsCharged, Recoverable
<1> QED
  BY <1>1, <1>2, <1>3, <1>4

\* Moving a dedup row to the archive leaves the set of charged receipts alone.
LEMMA ArchiveDedupInv ==
  ASSUME IInv, NEW r \in Requests, ArchiveDedup(r)
  PROVE  IInv'
<1> USE SettlementAssumption DEF IInv, ArchiveDedup, redis, books, tx, Actors, Appliers, Charged
<1>1. TypeOK'
  BY DEF TypeOK, ControlInv, ClaimInv, RowInv, KeyInv, StoredInv
<1>2. (ControlInv /\ StoredInv)'
  BY DEF TypeOK, ControlInv, ClaimInv, RowInv, KeyInv, StoredInv
<1>3. (ClaimInv /\ RowInv /\ KeyInv)'
  BY DEF TypeOK, ControlInv, ClaimInv, RowInv, KeyInv, StoredInv
<1>4. (ExactlyOnce /\ SuccessIsCharged /\ Recoverable)'
  BY DEF TypeOK, ControlInv, ClaimInv, RowInv, KeyInv, StoredInv, ExactlyOnce, SuccessIsCharged, Recoverable
<1> QED
  BY <1>1, <1>2, <1>3, <1>4

\* A crash drops open transactions and keeps Redis and the books.
LEMMA CrashInv ==
  ASSUME IInv, Crash
  PROVE  IInv'
<1> USE SettlementAssumption DEF IInv, Crash, redis, books, tx, Actors, Appliers, Charged, Fault
<1>1. TypeOK'
  BY DEF TypeOK, ControlInv, ClaimInv, RowInv, KeyInv, StoredInv
<1>2. (ControlInv /\ StoredInv)'
  BY DEF TypeOK, ControlInv, ClaimInv, RowInv, KeyInv, StoredInv
<1>3. (ClaimInv /\ RowInv /\ KeyInv)'
  BY DEF TypeOK, ControlInv, ClaimInv, RowInv, KeyInv, StoredInv
<1>4. (ExactlyOnce /\ SuccessIsCharged /\ Recoverable)'
  BY DEF TypeOK, ControlInv, ClaimInv, RowInv, KeyInv, StoredInv, ExactlyOnce, SuccessIsCharged, Recoverable
<1> QED
  BY <1>1, <1>2, <1>3, <1>4
\* Every step preserves the inductive invariant.
LEMMA NextInv == IInv /\ [Next]_vars => IInv'
<1> SUFFICES ASSUME IInv, [Next]_vars
             PROVE  IInv'
  OBVIOUS
<1>1. ASSUME NEW r \in Requests, Observe(r) \/ RetryTask(r) \/ Handler(r) \/ ArchiveDedup(r)
      PROVE  IInv'
  BY <1>1, ObserveInv, RetryTaskInv, SavePendingInv, DropPendingInv, FinishTaskInv, ArchiveDedupInv
  DEF Handler
<1>2. ASSUME NEW a \in Appliers, Apply(a)
      PROVE  IInv'
  BY <1>2, AlreadyAppliedInv, InsertDedupInv, ArchivedAppliedInv, LockUserInv, CommitInv, ApplyFailsInv
  DEF Apply
<1>3. ASSUME NEW w \in Workers, Worker(w)
      PROVE  IInv'
  BY <1>3, ScanInv, NextReceiptInv, DropRecoveredInv DEF Worker
<1>4. ASSUME NEW c \in Calls, Admin(c)
      PROVE  IInv'
  BY <1>4, BeginAdjustInv, ReadBalanceInv, CommitAdjustInv, AbortAdjustInv DEF Admin, Adjust
<1>8. ASSUME NEW k \in Keys, ExpireRecord(k)
      PROVE  IInv'
  BY <1>8, ExpireRecordInv
<1>5. ASSUME NEW u \in Users, DeleteUser(u)
      PROVE  IInv'
  BY <1>5, DeleteUserInv
<1>6. CASE Crash
  BY <1>6, CrashInv
<1>7. CASE UNCHANGED vars
  BY <1>7 DEF vars, redis, books, tx, IInv, TypeOK, ControlInv, ClaimInv, RowInv, KeyInv, StoredInv,
              ExactlyOnce, SuccessIsCharged, Recoverable, Charged
<1> QED
  BY <1>1, <1>2, <1>3, <1>4, <1>5, <1>6, <1>7, <1>8 DEF Next

\* The inductive invariant holds in every reachable state.
LEMMA Invariance == Spec => []IInv
<1>1. Init => IInv
  BY InitInv
<1>2. IInv /\ [Next]_vars => IInv'
  BY NextInv
<1> QED
  BY <1>1, <1>2, PTL DEF Spec

-----------------------------------------------------------------------------
(* Theorems                                                                *)

\* Every reachable state of settlement is well typed.
THEOREM TypeCorrect == Spec => []TypeOK
<1>1. IInv => TypeOK
  BY DEF IInv
<1> QED
  BY <1>1, Invariance, PTL

\* However handlers, task retries and recovery workers replay a receipt, and
\* wherever they crash, applyReceipt posts it to each of its books exactly
\* once if at all.
THEOREM ReceiptsPostExactlyOnce == Spec => []ExactlyOnce
<1>1. IInv => ExactlyOnce
  BY DEF IInv
<1> QED
  BY <1>1, Invariance, PTL

\* A client whose request saveReceipt reported settled has been charged.
THEOREM SuccessMeansCharged == Spec => []SuccessIsCharged
<1>1. IInv => SuccessIsCharged
  BY DEF IInv
<1> QED
  BY <1>1, Invariance, PTL

\* No HDel of the handler or of a worker forgets an uncharged receipt.
THEOREM UnchargedIsRecoverable == Spec => []Recoverable
<1>1. IInv => Recoverable
  BY DEF IInv
<1> QED
  BY <1>1, Invariance, PTL

-----------------------------------------------------------------------------
(* Refinement                                                              *)

\* Commit is a charge of the ledger.
LEMMA CommitCharges ==
  ASSUME IInv, NEW a \in Appliers, Commit(a)
  PROVE  L!Charge(claim[a]) /\ claim[a] \in Requests
<1>1. claim[a] \in Requests /\ claim[a] \notin Charged
  BY SettlementAssumption DEF IInv, Commit, TypeOK, ClaimInv, RowInv, Actors, Charged
<1>2. Charged' = Charged \cup {claim[a]}
  BY DEF Commit, Post, Charged
<1> QED
  BY <1>1, <1>2 DEF Commit, Post, L!Charge

\* CommitAdjust is an adjustment of the ledger under a key it does not remember.
LEMMA CommitAdjustAdjusts ==
  ASSUME IInv, NEW c \in Calls, CommitAdjust(c)
  PROVE  L!Adjust(c, balance'[AdjUser[c]] - balance[AdjUser[c]])
<1> DEFINE u == AdjUser[c]
<1>1. u \in Users /\ KeyOf[c] \notin records /\ c \notin adjusted /\ old[c] = balance[u] /\ balance[u] \in Int
  BY SettlementAssumption DEF IInv, CommitAdjust, TypeOK, RowInv, KeyInv
<1>2. Amount[c] \in Nat /\ Adjusted(c) \in Int
  BY <1>1, SettlementAssumption DEF Adjusted
<1>3. balance'[u] = Adjusted(c)
  BY <1>1 DEF CommitAdjust, IInv, TypeOK
<1>4. balance' = [balance EXCEPT ![u] = balance[u] + (balance'[u] - balance[u])]
  <2>1. balance[u] + (balance'[u] - balance[u]) = Adjusted(c)
    BY <1>1, <1>2, <1>3
  <2> QED
    BY <2>1 DEF CommitAdjust
<1>5. history' = [history EXCEPT ![u] = history[u] + (balance'[u] - balance[u])]
  BY <1>1, <1>3 DEF CommitAdjust
<1>6. balance[u] + (balance'[u] - balance[u]) >= 0
  BY <1>1, <1>2, <1>3 DEF CommitAdjust
<1>7. /\ records' = records \cup ({KeyOf[c]} \ {None}) /\ adjusted' = adjusted \cup {c}
      /\ Charged' = Charged
  BY DEF CommitAdjust, redis, Charged
<1> QED
  BY <1>1, <1>4, <1>5, <1>6, <1>7 DEF L!Adjust

\* Every step of settlement is a step of the ledger or leaves it unchanged.
LEMMA StepSimulation == IInv /\ [Next]_vars => [L!Next]_(L!ledgerVars)
<1> SUFFICES ASSUME IInv, [Next]_vars
             PROVE  L!Next \/ UNCHANGED L!ledgerVars
  OBVIOUS
<1> USE DEF L!ledgerVars, Charged, redis, books
<1>1. ASSUME NEW r \in Requests, Observe(r) \/ RetryTask(r) \/ Handler(r)
      PROVE  UNCHANGED L!ledgerVars
  BY <1>1 DEF Observe, RetryTask, Handler, SavePending, DropPending, FinishTask
<1>2. ASSUME NEW r \in Requests, ArchiveDedup(r)
      PROVE  UNCHANGED L!ledgerVars
  BY <1>2 DEF ArchiveDedup
<1>3. ASSUME NEW a \in Appliers, Apply(a)
      PROVE  L!Next \/ UNCHANGED L!ledgerVars
  <2>1. CASE Commit(a)
    BY <2>1, CommitCharges DEF L!Next
  <2>2. CASE AlreadyApplied(a) \/ InsertDedup(a) \/ ArchivedApplied(a) \/ LockUser(a) \/ ApplyFails(a)
    BY <2>2 DEF AlreadyApplied, InsertDedup, ArchivedApplied, LockUser, ApplyFails
  <2> QED
    BY <1>3, <2>1, <2>2 DEF Apply
<1>4. ASSUME NEW w \in Workers, Worker(w)
      PROVE  UNCHANGED L!ledgerVars
  BY <1>4 DEF Worker, Scan, NextReceipt, DropRecovered
<1>5. ASSUME NEW c \in Calls, Admin(c)
      PROVE  L!Next \/ UNCHANGED L!ledgerVars
  <2>1. CASE CommitAdjust(c)
    BY <2>1, CommitAdjustAdjusts DEF L!Next
  <2>2. CASE BeginAdjust(c) \/ ReadBalance(c) \/ AbortAdjust(c)
    BY <2>2 DEF BeginAdjust, ReadBalance, AbortAdjust
  <2> QED
    BY <1>5, <2>1, <2>2 DEF Admin, Adjust
<1>7. ASSUME NEW k \in Keys, ExpireRecord(k)
      PROVE  L!Next
  BY <1>7 DEF ExpireRecord, L!Forget, L!Next
<1>6. CASE (\E u \in Users : DeleteUser(u)) \/ Crash \/ UNCHANGED vars
  BY <1>6 DEF DeleteUser, Crash, vars
<1> QED
  BY <1>1, <1>2, <1>3, <1>4, <1>5, <1>6, <1>7 DEF Next

\* Settlement implements the ledger: for any number of replays, crashes and
\* concurrent adjustments the books change only by a first charge of a
\* request, or an adjustment whose key has no record of the last 24 hours.
THEOREM SettlementImplementsLedger == Spec => ImplementsLedger
<1>1. Init => L!Init
  BY DEF Init, L!Init, Charged
<1>2. IInv /\ [Next]_vars => [L!Next]_(L!ledgerVars)
  BY StepSimulation
<1> QED
  BY <1>1, <1>2, Invariance, PTL DEF Spec, ImplementsLedger, L!Spec

-----------------------------------------------------------------------------
(* Money                                                                   *)

\* The charges of a user; that they are finitely many makes their sum one.
ChargesOf(u) == {r \in Charged : UserOf[r] = u}

MoneyInv == IsFiniteSet(Charged) /\ Conservation

\* A charge of the ledger takes from one balance what it adds to the charges.
LEMMA ChargeConserves ==
  ASSUME TypeOK, MoneyInv, NEW r \in Requests, L!Charge(r)
  PROVE  MoneyInv'
<1> USE SettlementAssumption DEF TypeOK, MoneyInv
<1>1. /\ r \notin Charged /\ Charged' = Charged \cup {r} /\ history' = history
      /\ balance' = [balance EXCEPT ![UserOf[r]] = @ - Debit[r]]
  BY DEF L!Charge, Charged
<1>2. IsFiniteSet(Charged')
  BY <1>1, FS_AddElement
<1>3. ASSUME NEW u \in Users
      PROVE  balance'[u] = history'[u] - SumOver(Debit, ChargesOf(u)')
  <2>1. IsFiniteSet(ChargesOf(u)) /\ ChargesOf(u) \subseteq Requests
    BY FS_Subset DEF ChargesOf, Charged
  <2>2. SumOver(Debit, ChargesOf(u)) \in Int
    BY <2>1, SumOverInt
  <2>3. balance[u] = history[u] - SumOver(Debit, ChargesOf(u))
    BY DEF Conservation, ChargesOf
  <2>4. CASE UserOf[r] = u
    <3>1. ChargesOf(u)' = ChargesOf(u) \cup {r} /\ r \notin ChargesOf(u)
      BY <1>1, <2>4 DEF ChargesOf
    <3>2. SumOver(Debit, ChargesOf(u) \cup {r}) = SumOver(Debit, ChargesOf(u)) + Debit[r]
      BY <2>1, <3>1, SumOverAdd, SMTT(30)
    <3> QED
      BY <1>1, <2>2, <2>3, <2>4, <3>1, <3>2
  <2>5. CASE UserOf[r] # u
    <3>1. ChargesOf(u)' = ChargesOf(u)
      BY <1>1, <2>5 DEF ChargesOf
    <3> QED
      BY <1>1, <2>3, <2>5, <3>1
  <2> QED
    BY <2>4, <2>5
<1> QED
  BY <1>2, <1>3 DEF Conservation, ChargesOf

\* An adjustment adds the same amount to a balance and to its history.
LEMMA AdjustConserves ==
  ASSUME TypeOK, MoneyInv, NEW c \in Calls, NEW d \in Int, L!Adjust(c, d)
  PROVE  MoneyInv'
<1> DEFINE u == AdjUser[c]
<1> USE SettlementAssumption DEF TypeOK, MoneyInv
<1>1. /\ u \in Users /\ Charged' = Charged
      /\ balance' = [balance EXCEPT ![u] = @ + d] /\ history' = [history EXCEPT ![u] = @ + d]
  BY DEF L!Adjust, Charged
<1>2. ASSUME NEW v \in Users
      PROVE  balance'[v] = history'[v] - SumOver(Debit, ChargesOf(v))
  <2>1. IsFiniteSet(ChargesOf(v)) /\ ChargesOf(v) \subseteq Requests
    BY FS_Subset DEF ChargesOf, Charged
  <2>2. SumOver(Debit, ChargesOf(v)) \in Int
    BY <2>1, SumOverInt
  <2>3. balance[v] = history[v] - SumOver(Debit, ChargesOf(v))
    BY DEF Conservation, ChargesOf
  <2> QED
    BY <1>1, <2>2, <2>3
<1>3. \A v \in Users : ChargesOf(v)' = ChargesOf(v)
  BY <1>1 DEF ChargesOf
<1> QED
  BY <1>1, <1>2, <1>3 DEF Conservation, ChargesOf

\* Forgetting a key moves no money.
LEMMA ForgetConserves ==
  ASSUME MoneyInv, NEW k, L!Forget(k)
  PROVE  MoneyInv'
<1>1. Charged' = Charged /\ balance' = balance /\ history' = history
  BY DEF L!Forget, Charged
<1> QED
  BY <1>1 DEF MoneyInv, Conservation

\* Every step is one of the ledger's or moves no money.
LEMMA MoneyStep == IInv /\ MoneyInv /\ [Next]_vars => MoneyInv'
<1> SUFFICES ASSUME IInv, MoneyInv, [Next]_vars
             PROVE  MoneyInv'
  OBVIOUS
<1>1. TypeOK
  BY DEF IInv
<1>2. CASE \E r \in Requests : L!Charge(r)
  BY <1>1, <1>2, ChargeConserves
<1>3. ASSUME NEW c \in Calls, L!Adjust(c, balance'[AdjUser[c]] - balance[AdjUser[c]])
      PROVE  MoneyInv'
  <2>1. balance'[AdjUser[c]] - balance[AdjUser[c]] \in Int
    BY <1>1, NextInv, SettlementAssumption DEF IInv, TypeOK
  <2> QED
    BY <1>1, <1>3, <2>1, AdjustConserves
<1>4. CASE UNCHANGED L!ledgerVars
  BY <1>4 DEF L!ledgerVars, MoneyInv, Conservation, Charged
<1>5. CASE \E k \in Keys : L!Forget(k)
  BY <1>5, ForgetConserves
<1> QED
  BY <1>2, <1>3, <1>4, <1>5, StepSimulation DEF L!Next

\* Whatever requests are charged, replayed and adjusted at once, a balance is
\* what the recorded adjustments add up to less the charges of the user.
THEOREM MoneyIsConserved == Spec => []Conservation
<1>1. Init => MoneyInv
  <2> SUFFICES ASSUME Init PROVE MoneyInv
    OBVIOUS
  <2>1. Charged = {} /\ \A u \in Users : {r \in Charged : UserOf[r] = u} = {}
    BY DEF Init, Charged
  <2> QED
    BY <2>1, SumOverEmpty, FS_EmptySet DEF Init, MoneyInv, Conservation
<1>2. IInv /\ MoneyInv /\ [Next]_vars => MoneyInv'
  BY MoneyStep
<1>3. MoneyInv => Conservation
  BY DEF MoneyInv
<1> QED
  BY <1>1, <1>2, <1>3, Invariance, PTL DEF Spec

=============================================================================
