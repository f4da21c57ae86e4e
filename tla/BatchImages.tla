---------------------------- MODULE BatchImages ----------------------------
(***************************************************************************)
(* Batch images (internal/app/batch_images.go, batch_images_worker.go,     *)
(* batch_images_provider.go): a submission freezes the price of a job,     *)
(* a worker carries the job through the provider's batch interface, and    *)
(* its end captures the price of what was delivered or releases the hold.  *)
(*                                                                         *)
(* Job rows, holds and billing claims are in PostgreSQL.  Every activity   *)
(* that holds batchMu, the worker's pass or a client's cancellation, is    *)
(* one control of its process, so a process has one pc.  A process that    *)
(* lost the instance lock finishes what it is doing (Overlap).             *)
(***************************************************************************)
EXTENDS Integers, FiniteSets, Sums

CONSTANTS
    Jobs,           \* submissions, each with the job it creates
    Users, UserOf,
    ApiKeys, ApiKeyOf,
    Idem,           \* Idempotency-Key headers; None for a call without one
    IdemOf,
    Hold,           \* hold_amount, rounded to the eight decimals of users.balance
    Cost,           \* price of a number of images, rounded alike
    Items,          \* item_count
    Balance,        \* initial users.balance
    MaxUnfinished,  \* 32 in the code
    PageSize,       \* 32 in the code
    Processes,
    Overlap,        \* whether a process may outlive its instance lock
    MaxFaults,
    None

\* batchPrice makes the hold multiplier at least the discount, so a hold
\* covers the price of every output.
ASSUME BatchAssumption ==
    /\ IsFiniteSet(Jobs)
    /\ UserOf \in [Jobs -> Users]
    /\ ApiKeyOf \in [Jobs -> ApiKeys]
    /\ IdemOf \in [Jobs -> Idem \cup {None}]
    /\ Hold \in [Jobs -> Nat] /\ Items \in [Jobs -> Nat]
    /\ \A j \in Jobs : \A n \in 0..Items[j] : Cost[j][n] \in 0..Hold[j]
    /\ Balance \in [Users -> Nat]
    /\ MaxUnfinished \in Nat \ {0} /\ PageSize \in Nat \ {0} /\ MaxFaults \in Nat
    /\ Overlap \in BOOLEAN
    /\ Processes # {}
    /\ None \notin Jobs \cup Idem \cup Processes

VARIABLES
    status,     \* batch_image_jobs.status, "absent" before the insert
    older,      \* order of updated_at: pairs of jobs, the older first
    success,    \* success_count
    hasInput,   \* jobs with provider_input_ref and no input_deleted_at
    expired,    \* jobs with output_expires_at <= now()
    purged,     \* jobs with output_deleted_at
    hidden,     \* jobs with user_deleted_at
    intent,     \* jobs with a job_cancel_requested event
    claims,     \* billing claims of a job: "hold", "capture", "release"
    balance, frozen,
    billed,     \* rows of usage_logs for a job ...
    charged,    \* ... and what was captured for them
    deleted,    \* soft-deleted users
    revoked,    \* jobs whose account is deleted or has another target
    made,       \* provider jobs created with this display name
    provider,   \* state of the provider's job
    yield,      \* images in the provider's output
    call,       \* control of a submission ...
    server,     \* ... and the process that handles it
    alive,      \* running processes
    lock,       \* the process with the instance lock
    pc, job,    \* control of a process and the job it works on
    view,       \* the status it loaded
    page,       \* jobs of the pass it has yet to process
    faults

row == <<status, older, success, hasInput, expired, purged, hidden, intent>>
money == <<claims, balance, frozen, billed, charged>>
upstream == <<made, provider, yield>>
request == <<call, server>>
instance == <<alive, lock>>
control == <<pc, job, view, page>>
vars == <<row, money, deleted, revoked, upstream, request, instance, control, faults>>

Terminal == {"completed", "failed", "cancelled", "output_deleted"}
Statuses == Terminal \cup {"absent", "created", "uploading", "submitted", "running", "indexing", "settling"}
ProviderStates == {"pending", "running", "succeeded", "failed", "cancelled"}
Labels == {"idle", "next", "retry", "check", "refuse", "mark", "create", "bind", "reload", "find", "poll",
           "get", "running", "fail", "cancel", "output", "index", "settle", "clean", "purge", "cancelling"}

TypeOK ==
    /\ status \in [Jobs -> Statuses]
    /\ older \subseteq Jobs \X Jobs
    /\ success \in [Jobs -> Nat]
    /\ hasInput \subseteq Jobs /\ expired \subseteq Jobs /\ purged \subseteq Jobs
    /\ hidden \subseteq Jobs /\ intent \subseteq Jobs
    /\ claims \in [Jobs -> SUBSET {"hold", "capture", "release"}]
    /\ balance \in [Users -> Int] /\ frozen \in [Users -> Int]
    /\ billed \in [Jobs -> Nat] /\ charged \in [Jobs -> Int]
    /\ deleted \subseteq Users /\ revoked \subseteq Jobs
    /\ made \in [Jobs -> Nat]
    /\ provider \in [Jobs -> ProviderStates \cup {"none"}]
    /\ yield \in [Jobs -> Nat]
    /\ call \in [Jobs -> {"new", "locked", "counted", "done"}]
    /\ server \in [Jobs -> Processes \cup {None}]
    /\ alive \subseteq Processes /\ lock \in alive \cup {None}
    /\ pc \in [Processes -> Labels]
    /\ job \in [Processes -> Jobs \cup {None}]
    /\ view \in [Processes -> Statuses]
    /\ page \in [Processes -> SUBSET Jobs]
    /\ faults \in 0..MaxFaults

Init ==
    /\ status = [j \in Jobs |-> "absent"]
    /\ older = {}
    /\ success = [j \in Jobs |-> 0]
    /\ hasInput = {} /\ expired = {} /\ purged = {} /\ hidden = {} /\ intent = {}
    /\ claims = [j \in Jobs |-> {}]
    /\ balance = Balance
    /\ frozen = [u \in Users |-> 0]
    /\ billed = [j \in Jobs |-> 0] /\ charged = [j \in Jobs |-> 0]
    /\ deleted = {} /\ revoked = {}
    /\ made = [j \in Jobs |-> 0]
    /\ provider = [j \in Jobs |-> "none"]
    /\ yield = [j \in Jobs |-> 0]
    /\ call = [j \in Jobs |-> "new"]
    /\ server = [j \in Jobs |-> None]
    /\ alive = {} /\ lock = None
    /\ pc = [i \in Processes |-> "idle"]
    /\ job = [i \in Processes |-> None]
    /\ view = [i \in Processes |-> "absent"]
    /\ page = [i \in Processes |-> {}]
    /\ faults = 0

\* Failures and interventions of administrators, bounded together.
Fault == faults < MaxFaults /\ faults' = faults + 1
NoFault == UNCHANGED faults

Goto(i, label) == pc' = [pc EXCEPT ![i] = label]
Stay == UNCHANGED <<job, view, page>>

Unfinished == {j \in Jobs : status[j] \notin Terminal \cup {"absent"}}

\* updated_at = now()
Touch(j) == older' = {p \in older : p[1] # j} \cup {<<k, j>> : k \in {k \in Jobs : status[k] # "absent"} \ {j}}

SetStatus(j, s) == status' = [status EXCEPT ![j] = s] /\ Touch(j)

-----------------------------------------------------------------------------
(* submitBatchImage and batchBalance                                       *)

InSubmit(c) == call[c] \in {"locked", "counted"}

EndCall(c) ==
    /\ call' = [call EXCEPT ![c] = "done"]
    /\ server' = [server EXCEPT ![c] = None]

Replayed(c) ==
    /\ IdemOf[c] # None
    /\ \E j \in Jobs : status[j] # "absent" /\ ApiKeyOf[j] = ApiKeyOf[c] /\ IdemOf[j] = IdemOf[c]

\* Mutant: no advisory lock is taken.
SubmitUnlocked(i, c) ==
    /\ call[c] = "new" /\ i \in alive
    /\ IF Replayed(c)
         THEN EndCall(c)
         ELSE /\ call' = [call EXCEPT ![c] = "locked"]
              /\ server' = [server EXCEPT ![c] = i]
    /\ UNCHANGED <<row, money, deleted, revoked, upstream, instance, control, faults>>

\* The advisory lock of the API key is held to the end of the transaction.  A
\* job with the Idempotency-Key is replayed.
Submit(i, c) ==
    /\ call[c] = "new" /\ i \in alive
    /\ \A d \in Jobs : ApiKeyOf[d] = ApiKeyOf[c] => ~InSubmit(d)
    /\ IF Replayed(c)
         THEN EndCall(c)
         ELSE /\ call' = [call EXCEPT ![c] = "locked"]
              /\ server' = [server EXCEPT ![c] = i]
    /\ UNCHANGED <<row, money, deleted, revoked, upstream, instance, control, faults>>

\* Authorisation, admission, selection or pricing may refuse the call; then the
\* user's unfinished jobs are counted, which other keys of the user may change.
Count(c) ==
    /\ call[c] = "locked"
    /\ \/ /\ Cardinality({j \in Unfinished : UserOf[j] = UserOf[c]}) < MaxUnfinished
          /\ call' = [call EXCEPT ![c] = "counted"]
          /\ UNCHANGED server
       \/ EndCall(c)
    /\ UNCHANGED <<row, money, deleted, revoked, upstream, instance, control, faults>>

CanHold(c) == UserOf[c] \notin deleted /\ balance[UserOf[c]] >= Hold[c]

\* The job, its items, the hold and its claim commit together.
CommitSubmit(c) ==
    /\ call[c] = "counted" /\ CanHold(c)
    /\ SetStatus(c, "created")
    /\ claims' = [claims EXCEPT ![c] = {"hold"}]
    /\ balance' = [balance EXCEPT ![UserOf[c]] = @ - Hold[c]]
    /\ frozen' = [frozen EXCEPT ![UserOf[c]] = @ + Hold[c]]
    /\ EndCall(c)
    /\ UNCHANGED <<success, hasInput, expired, purged, hidden, intent, billed, charged>>
    /\ UNCHANGED <<deleted, revoked, upstream, instance, control, faults>>

\* Too little balance, a deleted user or a failed statement.
AbortSubmit(c) ==
    /\ call[c] = "counted"
    /\ \/ ~CanHold(c) /\ NoFault
       \/ Fault
    /\ EndCall(c)
    /\ UNCHANGED <<row, money, deleted, revoked, upstream, instance, control>>

\* Mutant: the whole hold returns whatever was delivered.
ThawInFull(j, claim, cost) ==
    /\ claims' = [claims EXCEPT ![j] = @ \cup {claim}]
    /\ balance' = [balance EXCEPT ![UserOf[j]] = @ + Hold[j]]
    /\ frozen' = [frozen EXCEPT ![UserOf[j]] = @ - Hold[j]]

\* capture and release: the frozen amount returns, less the cost.
Thaw(j, claim, cost) ==
    /\ claims' = [claims EXCEPT ![j] = @ \cup {claim}]
    /\ balance' = [balance EXCEPT ![UserOf[j]] = @ + Hold[j] - cost]
    /\ frozen' = [frozen EXCEPT ![UserOf[j]] = @ - Hold[j]]

CanThaw(j, other) == "hold" \in claims[j] /\ other \notin claims[j] /\ frozen[UserOf[j]] >= Hold[j]

-----------------------------------------------------------------------------
(* runBatchImages                                                          *)

Due == Unfinished \cup hasInput \cup (expired \ purged)

\* LIMIT 32, oldest updated_at first.
Pages ==
    {P \in SUBSET Due :
        /\ Cardinality(P) = (IF Cardinality(Due) < PageSize THEN Cardinality(Due) ELSE PageSize)
        /\ \A j \in P, k \in Due : <<k, j>> \in older => k \in P}

\* TryLock of batchMu and checkInstance, once for the whole pass.
BeginPass(i) ==
    /\ pc[i] = "idle" /\ lock = i /\ Due # {}
    /\ \E P \in Pages : page' = [page EXCEPT ![i] = P]
    /\ Goto(i, "next")
    /\ UNCHANGED <<row, money, deleted, revoked, upstream, request, instance, job, view, faults>>

\* Mutant: a job whose account is gone is refunded in stage uploading as well.
EntryRefundsUploading(j, s) ==
    CASE s = "settling" -> "settle"
      [] j \in revoked -> IF s \in {"created", "uploading"} THEN "refuse" ELSE "retry"
      [] s \in Terminal -> "clean"
      [] s = "created" -> "check"
      [] s = "uploading" -> "find"
      [] s = "indexing" -> "index"
      [] OTHER -> "poll"

\* Mutant: a job in stage uploading is submitted again.
EntryResubmits(j, s) ==
    CASE s = "settling" -> "settle"
      [] j \in revoked -> IF s = "created" THEN "refuse" ELSE "retry"
      [] s \in Terminal -> "clean"
      [] s \in {"created", "uploading"} -> "check"
      [] s = "indexing" -> "index"
      [] OTHER -> "poll"

\* Mutant: a terminal job is polled like one at work.
EntryPollsTerminal(j, s) ==
    CASE s = "settling" -> "settle"
      [] j \in revoked -> IF s = "created" THEN "refuse" ELSE "retry"
      [] s = "created" -> "check"
      [] s = "uploading" -> "find"
      [] s = "indexing" -> "index"
      [] OTHER -> "poll"

\* What processBatchImage does first with a job in a given status.
Entry(j, s) ==
    CASE s = "settling" -> "settle"
      [] j \in revoked -> IF s = "created" THEN "refuse" ELSE "retry"
      [] s \in Terminal -> "clean"
      [] s = "created" -> "check"
      [] s = "uploading" -> "find"
      [] s = "indexing" -> "index"
      [] OTHER -> "poll"

Process(i) ==
    /\ pc[i] = "next"
    /\ \E j \in page[i] :
         /\ job' = [job EXCEPT ![i] = j]
         /\ view' = [view EXCEPT ![i] = status[j]]
         /\ page' = [page EXCEPT ![i] = @ \ {j}]
         /\ \/ NoFault /\ Goto(i, Entry(j, status[j]))
            \/ Fault /\ Goto(i, "retry")
    /\ UNCHANGED <<row, money, deleted, revoked, upstream, request, instance>>

EndPass(i) ==
    /\ pc[i] = "next" /\ page[i] = {}
    /\ Goto(i, "idle")
    /\ job' = [job EXCEPT ![i] = None]
    /\ view' = [view EXCEPT ![i] = "absent"]
    /\ UNCHANGED <<row, money, deleted, revoked, upstream, request, instance, page, faults>>

\* RECOVERY_PENDING moves an unfinished job to the end of the order; a
\* failure of that statement is ignored.
Retry(i) ==
    /\ pc[i] = "retry"
    /\ \/ NoFault /\ IF status[job[i]] \in Terminal THEN UNCHANGED older ELSE Touch(job[i])
       \/ Fault /\ UNCHANGED older
    /\ Goto(i, "next")
    /\ UNCHANGED <<status, success, hasInput, expired, purged, hidden, intent>>
    /\ UNCHANGED <<money, deleted, revoked, upstream, request, instance>>
    /\ Stay

-----------------------------------------------------------------------------
(* processBatchImage                                                       *)

\* A call, a query or a transaction fails before it has an effect.
StepFails(i) ==
    /\ pc[i] \in {"check", "refuse", "mark", "create", "bind", "reload", "find", "poll", "get", "running",
                  "fail", "cancel", "output", "index", "settle", "clean", "purge"}
    /\ Fault
    /\ Goto(i, "retry")
    /\ UNCHANGED <<row, money, deleted, revoked, upstream, request, instance>>
    /\ Stay

\* Permissions and resources are checked again, and the input is uploaded.
Check(i) ==
    /\ pc[i] = "check"
    /\ \/ Goto(i, "refuse")
       \/ Goto(i, "mark")
    /\ UNCHANGED <<row, money, deleted, revoked, upstream, request, instance, faults>>
    /\ Stay

\* UPDATE ... WHERE status = 'created'; how many rows matched is not asked.
Mark(i) ==
    /\ pc[i] = "mark"
    /\ IF status[job[i]] = "created"
         THEN SetStatus(job[i], "uploading") /\ hasInput' = hasInput \cup {job[i]}
         ELSE UNCHANGED <<status, older, hasInput>>
    /\ \/ NoFault /\ Goto(i, "create")
       \/ Fault /\ Goto(i, "retry")
    /\ UNCHANGED <<success, expired, purged, hidden, intent, money, deleted, revoked, upstream, request, instance>>
    /\ Stay

\* The answer may be lost.
CreateProvider(i) ==
    /\ pc[i] = "create"
    /\ made' = [made EXCEPT ![job[i]] = @ + 1]
    /\ provider' = [provider EXCEPT ![job[i]] = IF @ = "none" THEN "pending" ELSE @]
    /\ \/ NoFault /\ Goto(i, "bind")
       \/ Fault /\ Goto(i, "retry")
    /\ UNCHANGED <<row, money, deleted, revoked, yield, request, instance>>
    /\ Stay

\* Mutant: a job found by its display name is not bound.
FindNothing(i) ==
    /\ pc[i] = "find"
    /\ Goto(i, "retry")
    /\ UNCHANGED <<row, money, deleted, revoked, upstream, request, instance, faults>>
    /\ Stay

\* findProviderBatch by display name: unknown, found or ambiguous.
Find(i) ==
    /\ pc[i] = "find"
    /\ Goto(i, IF made[job[i]] = 1 THEN "bind" ELSE "retry")
    /\ UNCHANGED <<row, money, deleted, revoked, upstream, request, instance, faults>>
    /\ Stay

\* UPDATE ... WHERE status = 'uploading'
Bind(i) ==
    /\ pc[i] = "bind"
    /\ IF status[job[i]] = "uploading" THEN SetStatus(job[i], "submitted") ELSE UNCHANGED <<status, older>>
    /\ \/ NoFault /\ Goto(i, "reload")
       \/ Fault /\ Goto(i, "retry")
    /\ UNCHANGED <<success, hasInput, expired, purged, hidden, intent>>
    /\ UNCHANGED <<money, deleted, revoked, upstream, request, instance>>
    /\ Stay

Reload(i) ==
    /\ pc[i] = "reload"
    /\ view' = [view EXCEPT ![i] = status[job[i]]]
    /\ Goto(i, CASE status[job[i]] = "indexing" -> "index"
                 [] status[job[i]] \in {"submitted", "running"} -> "poll"
                 [] OTHER -> "retry")
    /\ UNCHANGED <<row, money, deleted, revoked, upstream, request, instance, job, page, faults>>

\* A recorded intent is passed on, before the state is asked.
Poll(i) ==
    /\ pc[i] = "poll"
    /\ Goto(i, "get")
    /\ \/ UNCHANGED provider
       \/ /\ job[i] \in intent /\ provider[job[i]] \in {"pending", "running"}
          /\ provider' = [provider EXCEPT ![job[i]] = "cancelled"]
    /\ UNCHANGED <<row, money, deleted, revoked, made, yield, request, instance, faults>>
    /\ Stay

\* The state of the job whose name was bound; of several, it may be any's.
Reported(j) == IF made[j] > 1 THEN ProviderStates ELSE {provider[j]}

\* What processBatchImage does next in a given state of the provider's job.
Reaction(s) ==
    CASE s = "pending" -> "next"
      [] s = "running" -> "running"
      [] s = "failed" -> "fail"
      [] s = "cancelled" -> "cancel"
      [] s = "succeeded" -> "output"
      [] OTHER -> "retry"

GetProvider(i) ==
    /\ pc[i] = "get"
    /\ \E s \in Reported(job[i]) : Goto(i, Reaction(s))
    /\ UNCHANGED <<row, money, deleted, revoked, upstream, request, instance, faults>>
    /\ Stay

\* Both updates go by the batch_id alone.
MarkRunning(i) ==
    /\ pc[i] = "running"
    /\ SetStatus(job[i], "running")
    /\ Goto(i, "next")
    /\ UNCHANGED <<success, hasInput, expired, purged, hidden, intent>>
    /\ UNCHANGED <<money, deleted, revoked, upstream, request, instance, faults>>
    /\ Stay

MarkIndexing(i) ==
    /\ pc[i] = "output"
    /\ SetStatus(job[i], "indexing")
    /\ \/ NoFault /\ Goto(i, "index")
       \/ Fault /\ Goto(i, "retry")
    /\ UNCHANGED <<success, hasInput, expired, purged, hidden, intent>>
    /\ UNCHANGED <<money, deleted, revoked, upstream, request, instance>>
    /\ Stay

Outputs(j) == IF made[j] > 1 THEN 0..Items[j] ELSE {yield[j]}

\* indexBatchImage: the output is read, then the row locked and looked at.
Index(i) ==
    /\ pc[i] = "index"
    /\ IF status[job[i]] = "indexing"
         THEN /\ SetStatus(job[i], "settling")
              /\ \E n \in Outputs(job[i]) : success' = [success EXCEPT ![job[i]] = n]
         ELSE UNCHANGED <<status, older, success>>
    /\ \/ NoFault /\ Goto(i, "next")
       \/ Fault /\ Goto(i, "retry")
    /\ UNCHANGED <<hasInput, expired, purged, hidden, intent, money, deleted, revoked, upstream, request, instance>>
    /\ Stay

\* The row is unlocked and in stage settling, and nothing was captured: a
\* repeated capture would meet the unique index of usage_logs.
CanSettle(j) == status[j] = "settling" /\ CanThaw(j, "release") /\ "capture" \notin claims[j] /\ billed[j] = 0

\* actual: the price of the items with an image.
Price(j) == Cost[j][success[j]]

\* settleBatchImage: capture, usage and completion commit together.
Settle(i) ==
    /\ pc[i] = "settle"
    /\ LET j == job[i] IN
       \/ /\ CanSettle(j)
          /\ Thaw(j, "capture", Price(j))
          /\ billed' = [billed EXCEPT ![j] = @ + 1]
          /\ charged' = [charged EXCEPT ![j] = @ + Price(j)]
          /\ SetStatus(j, "completed")
          /\ \/ NoFault /\ Goto(i, "next")
             \/ Fault /\ Goto(i, "retry")
       \/ /\ ~CanSettle(j)
          /\ Goto(i, IF status[j] = "completed" THEN "next" ELSE "retry")
          /\ UNCHANGED <<status, older, money>>
          /\ NoFault
    /\ UNCHANGED <<success, hasInput, expired, purged, hidden, intent, deleted, revoked, upstream, request, instance>>
    /\ Stay

\* failBatchImage, by the status it finds under the row lock.
CanFail(j) ==
    /\ status[j] \in {"created", "uploading", "submitted", "running"}
    /\ \/ "release" \in claims[j]
       \/ CanThaw(j, "capture")

\* Mutant: the status is set and the hold kept.
FailJobKeepsHold(j, end) ==
    /\ SetStatus(j, end)
    /\ UNCHANGED money

\* Mutant: an earlier release is not looked for.
FailJobAgain(j, end) ==
    /\ SetStatus(j, end)
    /\ Thaw(j, "release", 0)
    /\ UNCHANGED <<billed, charged>>

FailJob(j, end) ==
    /\ SetStatus(j, end)
    /\ IF "release" \in claims[j] THEN UNCHANGED <<claims, balance, frozen>> ELSE Thaw(j, "release", 0)
    /\ UNCHANGED <<billed, charged>>

Fail(i) ==
    /\ pc[i] \in {"refuse", "cancel", "fail"}
    /\ LET j == job[i] IN
       \/ /\ CanFail(j)
          /\ FailJob(j, IF pc[i] = "fail" THEN "failed" ELSE "cancelled")
          /\ \/ NoFault /\ Goto(i, "next")
             \/ Fault /\ Goto(i, "retry")
       \/ /\ ~CanFail(j)
          /\ Goto(i, IF status[j] \in Terminal THEN "next" ELSE "retry")
          /\ UNCHANGED <<status, older, money>>
          /\ NoFault
    /\ UNCHANGED <<success, hasInput, expired, purged, hidden, intent, deleted, revoked, upstream, request, instance>>
    /\ Stay

\* The input file of a terminal job is deleted ...
Clean(i) ==
    /\ pc[i] = "clean"
    /\ hasInput' = hasInput \ {job[i]}
    /\ IF job[i] \in hasInput THEN Touch(job[i]) ELSE UNCHANGED older
    /\ Goto(i, IF job[i] \in expired \ purged THEN "purge" ELSE "next")
    /\ UNCHANGED <<status, success, expired, purged, hidden, intent>>
    /\ UNCHANGED <<money, deleted, revoked, upstream, request, instance, faults>>
    /\ Stay

\* ... and its output once expired.
Purge(i) ==
    /\ pc[i] = "purge"
    /\ SetStatus(job[i], "output_deleted")
    /\ purged' = purged \cup {job[i]}
    /\ Goto(i, "next")
    /\ UNCHANGED <<success, hasInput, expired, hidden, intent>>
    /\ UNCHANGED <<money, deleted, revoked, upstream, request, instance, faults>>
    /\ Stay

-----------------------------------------------------------------------------
(* Client operations under batchMu                                         *)

\* cancelBatchImage loads the job.  Requests that wait for batchMu have passed
\* checkInstance already.
BeginCancel(i, j) ==
    /\ pc[i] = "idle" /\ i \in alive
    /\ j \in Unfinished \ hidden
    /\ job' = [job EXCEPT ![i] = j]
    /\ view' = [view EXCEPT ![i] = status[j]]
    /\ Goto(i, "cancelling")
    /\ UNCHANGED <<row, money, deleted, revoked, upstream, request, instance, page, faults>>

\* It is cancelled, or the intent recorded, or refused while results settle.
Cancel(i) ==
    /\ pc[i] = "cancelling"
    /\ LET j == job[i] IN
       \/ /\ view[i] = "created" /\ CanFail(j)
          /\ FailJob(j, "cancelled")
          /\ UNCHANGED intent
          /\ NoFault
       \/ /\ view[i] \in {"uploading", "submitted", "running"}
          /\ intent' = intent \cup {j}
          /\ UNCHANGED <<status, older, money>>
          /\ NoFault
       \/ /\ \/ view[i] = "created" /\ ~CanFail(j) /\ NoFault
             \/ view[i] \in {"indexing", "settling"} /\ NoFault
             \/ Fault
          /\ UNCHANGED <<status, older, money, intent>>
    /\ Goto(i, "idle")
    /\ job' = [job EXCEPT ![i] = None]
    /\ view' = [view EXCEPT ![i] = "absent"]
    /\ UNCHANGED <<success, hasInput, expired, purged, hidden, deleted, revoked, upstream, request, instance, page>>

\* deleteBatchImage hides a terminal job from its user.
Hide(i, j) ==
    /\ pc[i] = "idle" /\ i \in alive
    /\ status[j] \in Terminal /\ j \notin hidden
    /\ hidden' = hidden \cup {j}
    /\ Touch(j)
    /\ UNCHANGED <<status, success, hasInput, expired, purged, intent>>
    /\ UNCHANGED <<money, deleted, revoked, upstream, request, instance, control, faults>>

\* deleteBatchOutputs
DeleteOutputs(i, j) ==
    /\ pc[i] = "idle" /\ i \in alive
    /\ status[j] \in Terminal /\ j \notin hidden \cup revoked \cup purged
    /\ SetStatus(j, "output_deleted")
    /\ purged' = purged \cup {j}
    /\ UNCHANGED <<success, hasInput, expired, hidden, intent>>
    /\ UNCHANGED <<money, deleted, revoked, upstream, request, instance, control, faults>>

-----------------------------------------------------------------------------
(* Surroundings                                                            *)

ProviderStep(j) ==
    /\ \/ /\ provider[j] = "pending"
          /\ provider' = [provider EXCEPT ![j] = "running"]
          /\ UNCHANGED yield
       \/ /\ provider[j] \in {"pending", "running"}
          /\ provider' \in {[provider EXCEPT ![j] = s] : s \in {"failed", "cancelled"}}
          /\ UNCHANGED yield
       \/ /\ provider[j] \in {"pending", "running"}
          /\ provider' = [provider EXCEPT ![j] = "succeeded"]
          /\ \E n \in 0..Items[j] : yield' = [yield EXCEPT ![j] = n]
    /\ UNCHANGED <<row, money, deleted, revoked, made, request, instance, control, faults>>

\* 72 hours after the end of a job.
Expire(j) ==
    /\ status[j] \in Terminal /\ j \notin expired
    /\ expired' = expired \cup {j}
    /\ UNCHANGED <<status, older, success, hasInput, purged, hidden, intent>>
    /\ UNCHANGED <<money, deleted, revoked, upstream, request, instance, control, faults>>

\* An administrator deletes the account of a job or changes its credentials.
Revoke(j) ==
    /\ status[j] # "absent" /\ j \notin revoked /\ Fault
    /\ revoked' = revoked \cup {j}
    /\ UNCHANGED <<row, money, deleted, upstream, request, instance, control>>

DeleteUser(u) ==
    /\ u \notin deleted /\ Fault
    /\ deleted' = deleted \cup {u}
    /\ UNCHANGED <<row, money, revoked, upstream, request, instance, control>>

\* A new process takes the free instance lock.
Start(i) ==
    /\ lock = None /\ i \notin alive
    /\ lock' = i /\ alive' = alive \cup {i}
    /\ UNCHANGED <<row, money, deleted, revoked, upstream, request, control, faults>>

Crash(i) ==
    /\ i \in alive /\ Fault
    /\ alive' = alive \ {i}
    /\ lock' = IF lock = i THEN None ELSE lock
    /\ pc' = [pc EXCEPT ![i] = "idle"]
    /\ job' = [job EXCEPT ![i] = None]
    /\ view' = [view EXCEPT ![i] = "absent"]
    /\ page' = [page EXCEPT ![i] = {}]
    /\ call' = [c \in Jobs |-> IF server[c] = i THEN "done" ELSE call[c]]
    /\ server' = [c \in Jobs |-> IF server[c] = i THEN None ELSE server[c]]
    /\ UNCHANGED <<row, money, deleted, revoked, upstream>>

\* The lock's connection breaks, while the process goes on with what it does
\* until it calls checkInstance again.
LoseLock(i) ==
    /\ Overlap /\ lock = i /\ Fault
    /\ lock' = None
    /\ UNCHANGED <<row, money, deleted, revoked, upstream, request, alive, control>>

SubmitStep(c) == (\E i \in Processes : Submit(i, c)) \/ Count(c) \/ CommitSubmit(c) \/ AbortSubmit(c)

WorkerStep(i) ==
    \/ BeginPass(i) \/ Process(i) \/ EndPass(i) \/ Retry(i) \/ StepFails(i)
    \/ Check(i) \/ Mark(i) \/ CreateProvider(i) \/ Find(i) \/ Bind(i) \/ Reload(i)
    \/ Poll(i) \/ GetProvider(i) \/ MarkRunning(i) \/ MarkIndexing(i)
    \/ Index(i) \/ Settle(i) \/ Fail(i) \/ Clean(i) \/ Purge(i) \/ Cancel(i)

ClientStep(i, j) == BeginCancel(i, j) \/ Hide(i, j) \/ DeleteOutputs(i, j)

Next ==
    \/ \E c \in Jobs : SubmitStep(c)
    \/ \E i \in Processes : WorkerStep(i) \/ Start(i) \/ Crash(i) \/ LoseLock(i)
    \/ \E i \in Processes, j \in Jobs : ClientStep(i, j)
    \/ \E j \in Jobs : ProviderStep(j) \/ Expire(j) \/ Revoke(j)
    \/ \E u \in Users : DeleteUser(u)

Spec == Init /\ [][Next]_vars

\* The worker of a process runs on its ticker and is not kept from batchMu
\* for ever, a process that died is started again, and the provider finishes
\* every job.
Fairness ==
    /\ \A i \in Processes : SF_vars(BeginPass(i)) /\ WF_vars(WorkerStep(i)) /\ WF_vars(Start(i))
    /\ \A j \in Jobs : WF_vars(ProviderStep(j))

FairSpec == Spec /\ Fairness

-----------------------------------------------------------------------------
(* Properties                                                              *)

Held(j) == claims[j] = {"hold"}

\* Frozen money is what the open holds add up to, and nothing is lost or
\* made: balance, frozen money and usage records add up to the initial balance.
EscrowBalances ==
    \A u \in Users :
        LET mine == {j \in Jobs : UserOf[j] = u} IN
        /\ frozen[u] = SumOver(Hold, {j \in mine : Held(j)})
        /\ balance[u] + frozen[u] + SumOver(charged, mine) = Balance[u]

\* A job's status tells where its money is: unfinished jobs hold it, completed
\* ones captured the price of what they counted, with one usage record, and
\* failed and cancelled ones got it back.
StatusExplainsMoney ==
    \A j \in Jobs :
        /\ j \in Unfinished => Held(j) /\ billed[j] = 0
        /\ status[j] = "completed" =>
             claims[j] = {"hold", "capture"} /\ billed[j] = 1 /\ charged[j] = Price(j)
        /\ status[j] \in {"failed", "cancelled"} =>
             claims[j] = {"hold", "release"} /\ billed[j] = 0

\* The comment in cancelBatchImage: polling confirms the provider's terminal
\* state before any money is released.  No released job is or will be worked
\* on by the provider, although the answer to its creation may have been lost.
RefundIsFinal ==
    \A j \in Jobs :
        "release" \in claims[j] =>
            /\ provider[j] \in {"none", "failed", "cancelled"}
            /\ \A i \in Processes : job[i] = j => pc[i] # "create"

\* The comments in processBatchImage: creation of the billable provider job is
\* not repeatable, and recovery never blindly resubmits.
OneProviderJob == \A j \in Jobs : made[j] <= 1

\* At most one job per Idempotency-Key of an API key; no index ensures it.
OneJobPerKey ==
    \A j, k \in Jobs :
        /\ status[j] # "absent" /\ status[k] # "absent"
        /\ ApiKeyOf[j] = ApiKeyOf[k] /\ IdemOf[j] = IdemOf[k] /\ IdemOf[j] # None
        => j = k

\* The advisory lock is the API key's and the cap the user's: concurrent
\* submissions with different keys may exceed it, by less than their number.
UnfinishedBounded ==
    \A u \in Users :
        Cardinality({j \in Unfinished : UserOf[j] = u})
            < MaxUnfinished + Cardinality({ApiKeyOf[j] : j \in {j \in Jobs : UserOf[j] = u}})

\* A finished job stays finished; its end changes only to output_deleted.
FinalStep ==
    \A j \in Jobs :
        status[j] \in Terminal => status'[j] \in {status[j], "output_deleted"} /\ claims'[j] = claims[j]

EndIsFinal == [][FinalStep]_vars

\* Finished jobs that are due but whose account is gone: every pass looks at
\* them again, and none of them moves to the end of the order.
Stuck == {j \in Due : status[j] \in Terminal /\ j \in revoked}

\* As long as such jobs do not fill the worker's page, no job is left
\* undispatched, and every job the provider has ends unless its account is
\* taken away, although jobs wait for each other's place in the page and
\* answers may be lost on the way.
Owed(j) ==
    \/ status[j] = "created"
    \/ made[j] > 0 /\ status[j] \notin Terminal /\ j \notin revoked

JobsEnd == \A j \in Jobs : []<>(~Owed(j) \/ Cardinality(Stuck) >= PageSize)

\* The comment in processBatchImage: revoked credentials or a deleted account
\* must not strand the unused hold of a job in stage created.
HoldNotStranded == \A j \in Jobs : (status[j] = "created" /\ j \in revoked) ~> status[j] # "created"

Deal(j) ==
    CASE claims[j] = {} -> "none"
      [] "capture" \in claims[j] -> "captured"
      [] "release" \in claims[j] -> "released"
      [] OTHER -> "held"

E == INSTANCE Escrow WITH deal <- [j \in Jobs |-> Deal(j)]

\* Batch images implement the escrow: each hold is frozen once and thawed
\* once, for no more than was held, whatever processes overlap or crash.
ImplementsEscrow == E!Spec

\* Submissions that race, with one key or two, make one job for an
\* Idempotency-Key and keep a user's unfinished jobs within their cap.
SubmissionsBounded == OneJobPerKey /\ UnfinishedBounded
=============================================================================
