----------------------------- MODULE Settlement -----------------------------
(***************************************************************************)
(* Usage settlement of the gateway (internal/app/settlement.go): the       *)
(* receipt of a consumed request goes to a Redis hash of pending receipts  *)
(* and is applied by one PostgreSQL transaction that deduplicates it and   *)
(* posts it to every account book.  A worker replays the pending hash,     *)
(* durable tasks (video, background responses) replay their own            *)
(* checkpoints, and administrators adjust the same balances.               *)
(*                                                                         *)
(* Redis calls, transactions and the process itself may fail between any   *)
(* two steps.  MaxFaults bounds how often.                                 *)
(***************************************************************************)
EXTENDS Integers, FiniteSets, Sums

CONSTANTS
    Requests,   \* requests, each with the one receipt makeReceipt builds
    Users,
    UserOf,     \* receipt.UserID
    Debit,      \* receipt.Cost.Debit
    Touches,    \* the optional books of a receipt: KeyQuota, KeyWindows, AccountQuota
    Durable,    \* requests of tasks that checkpoint the receipt before settling
    Workers,    \* recoverReceipts callers; two when a process that lost its
                \* instance lock is still finishing a pass
    Calls,      \* adjustBalance calls
    Keys,       \* their Idempotency-Key values
    KeyOf,      \* the key of a call, None if it has none
    AdjUser, Operation, Amount,
    MaxFaults,
    None

OptionalBooks == {"key_quota", "key_windows", "account_quota"}
Books == OptionalBooks \cup {"users", "platform_quota", "usage_logs"}

ASSUME SettlementAssumption ==
    /\ UserOf \in [Requests -> Users]
    /\ Debit \in [Requests -> Nat]
    /\ Touches \in [Requests -> SUBSET OptionalBooks]
    /\ Durable \subseteq Requests
    /\ KeyOf \in [Calls -> Keys \cup {None}]
    /\ AdjUser \in [Calls -> Users]
    /\ Operation \in [Calls -> {"set", "add", "subtract"}]
    /\ Amount \in [Calls -> Nat]
    /\ MaxFaults \in Nat
    /\ None \notin Requests \cup Users \cup Keys
    /\ Requests \cap Workers = {}
    /\ Requests \cap Calls = {}
    /\ Workers \cap Calls = {}

Appliers == Requests \cup Workers
Actors == Appliers \cup Calls

VARIABLES
    consumed,   \* requests whose upstream usage was observed
    checkpoint, \* durable tasks in stage "settling" (Redis)
    pending,    \* the hash gateway:pending-billing (Redis)
    dedup,      \* rows of usage_billing_dedup
    archived,   \* rows of usage_billing_dedup_archive
    balance,    \* users.balance
    history,    \* per user, the sum of the admin_balance rows
    adjusted,   \* calls with such a row
    posted,     \* per book and request, how often the receipt was written to it
    records,    \* keys with an unexpired row in idempotency_records
    deleted,    \* users with deleted_at set
    pc,         \* control of every handler, worker and call
    job,        \* the receipt an applier works on
    stored,     \* pendingErr = nil in the handler's saveReceipt
    page,       \* receipts of the HScan result a worker has yet to replay
    claim,      \* the uncommitted dedup row of an actor's transaction
    row,        \* the users row an actor's transaction has locked
    old,        \* the balance adjustBalance read under that lock
    reply,      \* what the client was told
    faults

redis == <<checkpoint, pending>>
books == <<dedup, archived, balance, history, adjusted, posted, records, deleted>>
tx == <<claim, row, old>>
vars == <<consumed, redis, books, pc, job, stored, page, tx, reply, faults>>

Charged == dedup \cup archived

\* The books one receipt is written to.
BooksOf(r) == {"users", "platform_quota", "usage_logs"} \cup Touches[r]

TypeOK ==
    /\ consumed \subseteq Requests
    /\ checkpoint \subseteq Durable
    /\ pending \subseteq Requests
    /\ dedup \subseteq Requests
    /\ archived \subseteq Requests
    /\ balance \in [Users -> Int]
    /\ history \in [Users -> Int]
    /\ adjusted \subseteq Calls
    /\ posted \in [Books -> [Requests -> Nat]]
    /\ records \subseteq Keys
    /\ deleted \subseteq Users
    /\ pc \in [Actors -> {"idle", "save", "next", "apply", "cleanup", "finish", "adjust", "done"}]
    /\ job \in [Appliers -> Requests \cup {None}]
    /\ stored \in [Requests -> BOOLEAN]
    /\ page \in [Workers -> SUBSET Requests]
    /\ claim \in [Actors -> Requests \cup {None}]
    /\ row \in [Actors -> Users \cup {None}]
    /\ old \in [Calls -> Int]
    /\ reply \in [Requests -> {"none", "ok", "error"}]
    /\ faults \in 0..MaxFaults

Init ==
    /\ consumed = {}
    /\ checkpoint = {}
    /\ pending = {}
    /\ dedup = {}
    /\ archived = {}
    /\ balance = [u \in Users |-> 0]
    /\ history = [u \in Users |-> 0]
    /\ adjusted = {}
    /\ posted = [b \in Books |-> [r \in Requests |-> 0]]
    /\ records = {}
    /\ deleted = {}
    /\ pc = [a \in Actors |-> "idle"]
    /\ job = [a \in Appliers |-> IF a \in Requests THEN a ELSE None]
    /\ stored = [r \in Requests |-> FALSE]
    /\ page = [w \in Workers |-> {}]
    /\ claim = [a \in Actors |-> None]
    /\ row = [a \in Actors |-> None]
    /\ old = [c \in Calls |-> 0]
    /\ reply = [r \in Requests |-> "none"]
    /\ faults = 0

Fault == faults < MaxFaults /\ faults' = faults + 1
NoFault == UNCHANGED faults

Goto(a, label) == pc' = [pc EXCEPT ![a] = label]

-----------------------------------------------------------------------------
(* saveReceipt, up to applyReceipt                                         *)

\* The upstream answer is complete and its usage known.  A durable task
\* saves its receipt with stage "settling" first; when that save fails the
\* task stays as it was and the provider is asked again later.
Observe(r) ==
    /\ pc[r] = "idle" /\ r \notin consumed
    /\ consumed' = consumed \cup {r}
    /\ checkpoint' = checkpoint \cup ({r} \cap Durable)
    /\ Goto(r, "save")
    /\ UNCHANGED <<pending, books, job, stored, page, tx, reply, faults>>

\* A task found in stage "settling" settles its checkpoint again.
RetryTask(r) ==
    /\ pc[r] \in {"idle", "done"} /\ r \in checkpoint
    /\ Goto(r, "save")
    /\ UNCHANGED <<consumed, redis, books, job, stored, page, tx, reply, faults>>

\* The result of HSet is remembered; a failed one is not fatal.  A call
\* that reports an error may still have stored the receipt.
SavePending(r) ==
    /\ pc[r] = "save"
    /\ \/ NoFault /\ pending' = pending \cup {r} /\ stored' = [stored EXCEPT ![r] = TRUE]
       \/ Fault /\ pending' \in {pending, pending \cup {r}} /\ stored' = [stored EXCEPT ![r] = FALSE]
    /\ Goto(r, "apply")
    /\ UNCHANGED <<consumed, checkpoint, books, job, page, tx, reply>>

-----------------------------------------------------------------------------
(* applyReceipt, called by saveReceipt and by recoverReceipts              *)

\* Mutant: the error of applyReceipt is ignored.
ReturnIgnoresError(a, ok) ==
    /\ claim' = [claim EXCEPT ![a] = None]
    /\ row' = [row EXCEPT ![a] = None]
    /\ Goto(a, "cleanup")
    /\ UNCHANGED <<page, reply>>

\* What the caller does with the result: a handler goes on to HDel or
\* reports the error, a worker goes on to HDel or abandons its pass.
Return(a, ok) ==
    /\ claim' = [claim EXCEPT ![a] = None]
    /\ row' = [row EXCEPT ![a] = None]
    /\ Goto(a, IF ok THEN "cleanup" ELSE IF a \in Workers THEN "idle" ELSE "done")
    /\ page' = IF ~ok /\ a \in Workers THEN [page EXCEPT ![a] = {}] ELSE page
    /\ reply' = IF ~ok /\ a \in Requests THEN [reply EXCEPT ![a] = "error"] ELSE reply

\* The dedup row is there, with the fingerprint of the same receipt.
AlreadyApplied(a) ==
    /\ pc[a] = "apply" /\ claim[a] = None
    /\ job[a] \in dedup
    /\ Return(a, TRUE)
    /\ UNCHANGED <<consumed, redis, books, job, stored, old, faults>>

\* INSERT ... ON CONFLICT waits for another transaction's uncommitted row.
InsertDedup(a) ==
    /\ pc[a] = "apply" /\ claim[a] = None
    /\ job[a] \notin dedup
    /\ \A b \in Appliers : claim[b] # job[a]
    /\ claim' = [claim EXCEPT ![a] = job[a]]
    /\ UNCHANGED <<consumed, redis, books, pc, job, stored, page, row, old, reply, faults>>

\* The archive knows the receipt: return nil, rolling the new row back.
ArchivedApplied(a) ==
    /\ pc[a] = "apply" /\ claim[a] # None /\ row[a] = None
    /\ claim[a] \in archived
    /\ Return(a, TRUE)
    /\ UNCHANGED <<consumed, redis, books, job, stored, old, faults>>

\* Mutant: the archive is not consulted.
LockUserSkipsArchive(a) ==
    /\ pc[a] = "apply" /\ claim[a] # None /\ row[a] = None
    /\ \A b \in Actors : row[b] # UserOf[claim[a]]
    /\ row' = [row EXCEPT ![a] = UserOf[claim[a]]]
    /\ UNCHANGED <<consumed, redis, books, pc, job, stored, page, claim, old, reply, faults>>

\* Mutant: UPDATE users ... AND deleted_at IS NULL finds no row.
LockUserLiveOnly(a) ==
    /\ pc[a] = "apply" /\ claim[a] # None /\ row[a] = None
    /\ claim[a] \notin archived
    /\ UserOf[claim[a]] \notin deleted
    /\ \A b \in Actors : row[b] # UserOf[claim[a]]
    /\ row' = [row EXCEPT ![a] = UserOf[claim[a]]]
    /\ UNCHANGED <<consumed, redis, books, pc, job, stored, page, claim, old, reply, faults>>

\* UPDATE users: deleted users are debited too.
LockUser(a) ==
    /\ pc[a] = "apply" /\ claim[a] # None /\ row[a] = None
    /\ claim[a] \notin archived
    /\ \A b \in Actors : row[b] # UserOf[claim[a]]
    /\ row' = [row EXCEPT ![a] = UserOf[claim[a]]]
    /\ UNCHANGED <<consumed, redis, books, pc, job, stored, page, claim, old, reply, faults>>

\* All books and the dedup row commit together.
Post(r) ==
    /\ dedup' = dedup \cup {r}
    /\ balance' = [balance EXCEPT ![UserOf[r]] = @ - Debit[r]]
    /\ posted' = [b \in Books |-> IF b \in BooksOf(r) THEN [posted[b] EXCEPT ![r] = @ + 1] ELSE posted[b]]
    /\ UNCHANGED <<archived, history, adjusted, records, deleted>>

\* A commit whose acknowledgement is lost reports an error.
Commit(a) ==
    /\ pc[a] = "apply" /\ row[a] # None
    /\ Post(claim[a])
    /\ \/ NoFault /\ Return(a, TRUE)
       \/ Fault /\ Return(a, FALSE)
    /\ UNCHANGED <<consumed, redis, job, stored, old>>

\* Any statement may fail or time out, which rolls the transaction back.
ApplyFails(a) ==
    /\ pc[a] = "apply"
    /\ Fault
    /\ Return(a, FALSE)
    /\ UNCHANGED <<consumed, redis, books, job, stored, old>>

-----------------------------------------------------------------------------
(* saveReceipt, after applyReceipt                                         *)

\* The result of HDel is ignored, and HDel is skipped after a failed HSet.
DropPending(r) ==
    /\ pc[r] = "cleanup"
    /\ \/ NoFault /\ pending' = IF stored[r] THEN pending \ {r} ELSE pending
       \/ Fault /\ UNCHANGED pending
    /\ Goto(r, IF r \in Durable THEN "finish" ELSE "done")
    /\ reply' = [reply EXCEPT ![r] = "ok"]
    /\ UNCHANGED <<consumed, checkpoint, books, job, stored, page, tx>>

\* A durable task becomes terminal; if that save fails it settles again.
FinishTask(r) ==
    /\ pc[r] = "finish"
    /\ \/ NoFault /\ checkpoint' = checkpoint \ {r}
       \/ Fault /\ UNCHANGED checkpoint
    /\ Goto(r, "done")
    /\ UNCHANGED <<consumed, pending, books, job, stored, page, tx, reply>>

-----------------------------------------------------------------------------
(* recoverReceipts                                                         *)

Scan(w) ==
    /\ pc[w] = "idle" /\ pending # {}
    /\ page' = [page EXCEPT ![w] = pending]
    /\ Goto(w, "next")
    /\ UNCHANGED <<consumed, redis, books, job, stored, tx, reply, faults>>

\* Mutant: the receipt is removed from the hash before it is applied.
NextReceiptDropsFirst(w) ==
    /\ pc[w] = "next"
    /\ \/ \E r \in page[w] :
            /\ job' = [job EXCEPT ![w] = r]
            /\ page' = [page EXCEPT ![w] = @ \ {r}]
            /\ pending' = pending \ {r}
            /\ Goto(w, "apply")
       \/ /\ page[w] = {}
          /\ Goto(w, "idle")
          /\ UNCHANGED <<job, page, pending>>
    /\ UNCHANGED <<consumed, checkpoint, books, stored, tx, reply, faults>>

\* Redis returns the fields of the page in no particular order.
NextReceipt(w) ==
    /\ pc[w] = "next"
    /\ \/ \E r \in page[w] :
            /\ job' = [job EXCEPT ![w] = r]
            /\ page' = [page EXCEPT ![w] = @ \ {r}]
            /\ Goto(w, "apply")
       \/ /\ page[w] = {}
          /\ Goto(w, "idle")
          /\ UNCHANGED <<job, page>>
    /\ UNCHANGED <<consumed, redis, books, stored, tx, reply, faults>>

\* Unlike the handler, the worker gives its pass up when HDel fails.
DropRecovered(w) ==
    /\ pc[w] = "cleanup"
    /\ \/ /\ NoFault
          /\ pending' = pending \ {job[w]}
          /\ Goto(w, "next")
          /\ UNCHANGED page
       \/ /\ Fault
          /\ UNCHANGED pending
          /\ Goto(w, "idle")
          /\ page' = [page EXCEPT ![w] = {}]
    /\ UNCHANGED <<consumed, checkpoint, books, job, stored, tx, reply>>

-----------------------------------------------------------------------------
(* adjustBalance with writeIdempotency                                     *)

\* Mutant: an earlier record of the key is not looked up.
BeginAdjustUnchecked(c) ==
    /\ pc[c] = "idle"
    /\ KeyOf[c] # None => \A d \in Calls : KeyOf[d] = KeyOf[c] => pc[d] # "adjust"
    /\ Goto(c, "adjust")
    /\ UNCHANGED <<consumed, redis, books, job, stored, page, tx, reply, faults>>

\* The advisory lock of the key serialises its calls until their commit.  A
\* call without a key neither takes it nor leaves a record.
BeginAdjust(c) ==
    /\ pc[c] = "idle"
    /\ KeyOf[c] # None => \A d \in Calls : KeyOf[d] = KeyOf[c] => pc[d] # "adjust"
    /\ Goto(c, IF KeyOf[c] \in records THEN "done" ELSE "adjust")
    /\ UNCHANGED <<consumed, redis, books, job, stored, page, tx, reply, faults>>

\* Mutant: the balance is read without FOR UPDATE.
ReadBalanceUnlocked(c) ==
    /\ pc[c] = "adjust" /\ row[c] = None
    /\ AdjUser[c] \notin deleted
    /\ row' = [row EXCEPT ![c] = AdjUser[c]]
    /\ old' = [old EXCEPT ![c] = balance[AdjUser[c]]]
    /\ UNCHANGED <<consumed, redis, books, pc, job, stored, page, claim, reply, faults>>

\* SELECT balance ... WHERE deleted_at IS NULL FOR UPDATE
ReadBalance(c) ==
    /\ pc[c] = "adjust" /\ row[c] = None
    /\ AdjUser[c] \notin deleted
    /\ \A b \in Actors : row[b] # AdjUser[c]
    /\ row' = [row EXCEPT ![c] = AdjUser[c]]
    /\ old' = [old EXCEPT ![c] = balance[AdjUser[c]]]
    /\ UNCHANGED <<consumed, redis, books, pc, job, stored, page, claim, reply, faults>>

Adjusted(c) ==
    CASE Operation[c] = "set" -> Amount[c]
      [] Operation[c] = "add" -> balance[AdjUser[c]] + Amount[c]
      [] OTHER -> balance[AdjUser[c]] - Amount[c]

\* The new balance, its history row and the replay record commit together.
CommitAdjust(c) ==
    /\ pc[c] = "adjust" /\ row[c] # None
    /\ Adjusted(c) >= 0
    /\ balance' = [balance EXCEPT ![AdjUser[c]] = Adjusted(c)]
    /\ history' = [history EXCEPT ![AdjUser[c]] = @ + (Adjusted(c) - old[c])]
    /\ adjusted' = adjusted \cup {c}
    /\ records' = records \cup ({KeyOf[c]} \ {None})
    /\ row' = [row EXCEPT ![c] = None]
    /\ Goto(c, "done")
    /\ UNCHANGED <<consumed, redis, dedup, archived, posted, deleted, job, stored, page, claim, old, reply, faults>>

\* A negative result, a deleted user or a failed statement changes nothing.
AbortAdjust(c) ==
    /\ pc[c] = "adjust"
    /\ \/ row[c] # None /\ Adjusted(c) < 0 /\ NoFault
       \/ row[c] = None /\ AdjUser[c] \in deleted /\ NoFault
       \/ Fault
    /\ row' = [row EXCEPT ![c] = None]
    /\ Goto(c, "done")
    /\ UNCHANGED <<consumed, redis, books, job, stored, page, claim, old, reply>>

\* The 24 hours of a record are over: writeIdempotency looks only at records
\* with expires_at > now().
ExpireRecord(k) ==
    /\ k \in records
    /\ records' = records \ {k}
    /\ UNCHANGED <<consumed, redis, dedup, archived, balance, history, adjusted, posted, deleted,
                   pc, job, stored, page, tx, reply, faults>>

-----------------------------------------------------------------------------
(* Surroundings                                                            *)

DeleteUser(u) ==
    /\ u \notin deleted
    /\ \A b \in Actors : row[b] # u
    /\ deleted' = deleted \cup {u}
    /\ UNCHANGED <<consumed, redis, dedup, archived, balance, history, adjusted, posted, records,
                   pc, job, stored, page, tx, reply, faults>>

\* Maintenance outside this program moves a dedup row to the archive.
ArchiveDedup(r) ==
    /\ r \in dedup
    /\ dedup' = dedup \ {r}
    /\ archived' = archived \cup {r}
    /\ UNCHANGED <<consumed, redis, balance, history, adjusted, posted, records, deleted,
                   pc, job, stored, page, tx, reply, faults>>

\* The process dies: handlers, passes and open transactions are gone, Redis
\* (append-only file) and PostgreSQL keep what they have.
Crash ==
    /\ Fault
    /\ pc' = [a \in Actors |-> IF a \in Calls /\ pc[a] # "idle" THEN "done" ELSE "idle"]
    /\ page' = [w \in Workers |-> {}]
    /\ claim' = [a \in Actors |-> None]
    /\ row' = [a \in Actors |-> None]
    /\ UNCHANGED <<consumed, redis, books, job, stored, old, reply>>

Handler(r) == SavePending(r) \/ DropPending(r) \/ FinishTask(r)

Apply(a) ==
    \/ AlreadyApplied(a) \/ InsertDedup(a) \/ ArchivedApplied(a)
    \/ LockUser(a) \/ Commit(a) \/ ApplyFails(a)

Worker(w) == Scan(w) \/ NextReceipt(w) \/ DropRecovered(w)

\* What adjustBalance does with a key of its own or none.
Adjust(c) == ReadBalance(c) \/ CommitAdjust(c) \/ AbortAdjust(c)

Admin(c) == BeginAdjust(c) \/ Adjust(c)

Next ==
    \/ \E r \in Requests : Observe(r) \/ RetryTask(r) \/ Handler(r) \/ ArchiveDedup(r)
    \/ \E a \in Appliers : Apply(a)
    \/ \E w \in Workers : Worker(w)
    \/ \E c \in Calls : Admin(c)
    \/ \E k \in Keys : ExpireRecord(k)
    \/ \E u \in Users : DeleteUser(u)
    \/ Crash

Spec == Init /\ [][Next]_vars

\* Every goroutine is scheduled, the recovery worker runs on its ticker (and
\* after a restart), task workers poll their settling tasks, and PostgreSQL
\* grants a contended lock in the end.  Nothing is assumed about requests,
\* administrators, deletions, maintenance or faults.
Fairness ==
    /\ \A r \in Requests : WF_vars(Handler(r) /\ NoFault) /\ WF_vars(RetryTask(r))
    /\ \A a \in Appliers : WF_vars(Apply(a) /\ NoFault)
    /\ \A w \in Workers : WF_vars(Worker(w) /\ NoFault)
    /\ \A c \in Calls : WF_vars(Adjust(c) /\ NoFault)

FairSpec == Spec /\ Fairness

-----------------------------------------------------------------------------
(* Properties                                                              *)

\* A receipt is in each of its books exactly once when it is charged and in
\* none otherwise, however often the handler, a task and the workers replay
\* it (applyReceipt's dedup row, archive check and single transaction).
ExactlyOnce ==
    \A r \in Requests, b \in Books :
        posted[b][r] = IF r \in Charged /\ b \in BooksOf(r) THEN 1 ELSE 0

\* A balance is what the recorded adjustments add up to less the charges:
\* adjustBalance's history row holds the true change although settlements
\* debit the same users row concurrently.
Conservation ==
    \A u \in Users :
        balance[u] = history[u] - SumOver(Debit, {r \in Charged : UserOf[r] = u})

\* saveReceipt returns nil, and the client gets its final answer, only for a
\* request that is charged.
SuccessIsCharged == \A r \in Requests : reply[r] = "ok" => r \in Charged

\* A receipt that is not charged yet is still in the pending hash once HSet
\* reported success, and a durable task still has its checkpoint: no
\* interleaving of the handler's and the workers' HDel forgets it.
Recoverable ==
    \A r \in consumed \ Charged :
        /\ stored[r] => r \in pending
        /\ r \in Durable => r \in checkpoint

\* Whatever crashes and failures happened, a receipt in the pending hash or
\* in a task checkpoint is charged in the end and then leaves both.
EventuallyCharged ==
    \A r \in Requests :
        r \in pending \cup checkpoint ~> r \in Charged /\ r \notin pending \cup checkpoint

L == INSTANCE Ledger WITH charged <- Charged, remembered <- records

\* Settlement implements the abstract ledger: the books change only by
\* charging a request that was never charged, or by an adjustment whose key,
\* if it has one, has no record of the last 24 hours.
ImplementsLedger == L!Spec
=============================================================================
