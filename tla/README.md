# Verification of lite-api

lite-api is a gateway to AI providers. Clients call it with API keys in the
protocols of OpenAI, Anthropic, Gemini and xAI; it picks an upstream account,
translates and forwards the request, and charges the user for what the upstream
consumed. One Go process (`cmd/lite-api`, `internal/app`) works on PostgreSQL
(users, keys, accounts, books) and Redis (pending receipts, tasks, bindings,
rate counters). A PostgreSQL advisory lock makes it the only active instance;
background workers in the same process recover, poll and probe.

This directory holds TLA+ models of its concurrent core, TLC configurations
that check small instances, and TLAPS proofs for every instance.
`PROJECT.json` lists components, runs, mutants, hazards and theorems, and maps
every definition to the lines it stands for. Paths below are relative to
`src/internal/app/`.

## Inventory

| Component | State | Operations | What is hard | What makes it correct |
|---|---|---|---|---|
| Usage settlement (`settlement.go`) | Redis hash `gateway:pending-billing`; `usage_billing_dedup` and its archive; `users.balance`, key, account and platform quotas, `usage_logs` | `saveReceipt`, `applyReceipt`, `recoverReceipts` | handler, task and recovery replay one receipt; lost commit answers; crash between any two writes; row locks | each receipt posted once to every book; no stored receipt forgotten; success only when charged |
| Balance adjustment (`balance.go`, `write_idempotency.go`) | `users.balance`, `admin_balance` history, `idempotency_records` | `adjustBalance` | concurrent settlements; retries with one key | history explains the balance; a key is applied once while its record counts (24 h) |
| Concurrency admission (`concurrency.go`, slots in `gateway.go`) | `gatewayActive`, `gatewayWaiting`, `gatewayQueued`, wake channel, `gatewayStopped` | `takeSlot`, `releaseSlot`, `waitAdmission`, `acquireGatewayUser`, `revalidateQueuedRequest`, `StopAdmission` | broadcast wake-up, cancellation, limits changed while waiting, some forty early returns | counters exact; caps and limits hold; no lost wake-up; stop drains |
| Gateway handler (`gateway.go`) | locals of `textGateway`: selection, excluded accounts, attempt | `textGateway`, `chooseAccount`, rate counters | fail-over, profit recheck under the slot, waiting for an account while holding a user slot | every path releases what it took; every request returns |
| Idempotency keys (`gateway_idempotency.go`) | `idempotency_records` | claim, replay, finish | expiry while in progress; completion outside the lock; crash after dispatch | nothing possibly paid is sent twice; replays are originals |
| Instance lock, start, stop (`app.go`, `cmd/lite-api/main.go`) | lock connection, `instanceLost` | `checkInstance`, `Close`, signal handling | old instance finishing while a new one starts | the old one stops admitting |
| Image tasks (`image_tasks.go`) | Redis task records, list, stage queued/running/settling/terminal | create, worker, complete, storage | capacity of 32, crash while running, head-of-line blocking | a task is sent at most once and settled if it consumed |
| Background responses (`responses_background.go`, `responses_delete.go`) | Redis records, deletion markers | submit, poll, settle, cancel, delete | unknown submission outcomes, deletion racing a poll | a deleted response does not come back; capacity holds |
| Video tasks (`video_tasks.go`) | Redis records and set | submit, look up, poll, settle, delete | look-up racing the worker, persistence failure after acceptance | settled once; not resubmitted |
| Batch images (`batch_images*.go`) | `batch_image_jobs`, items and events; hold in the balance | create, cancel, worker steps, delete output | hold, capture and release across crashes; provider look-up by display name | held = captured + released; no blind resubmission |
| Realtime sessions (`grok_realtime.go`) | Redis hash of billing checkpoints, live sockets | checkpoint, settle, recover | checkpoint frozen before settlement; recovery of a live socket | billed time settled once |
| API keys and quotas (`keys.go`, `quotas.go`) | quota, windows, status | create, update, window reset | windows that end between check and spending | status follows usage |
| Account health (`accounts.go`, `settlement.go`) | error state, temporary unschedulability, version | `markGatewayFailure`, tests, probes, recovery | verdict about an old version | an administrator's change wins |
| Scheduled tests and workers (`test_plans.go`) | plans, results, tickers | `startWorkers`, due plans | overlap of passes | one result per due time |
| Users and sessions (`users.go`, `auth.go`) | users, refresh tokens | create, update, delete, login, refresh | deletion racing settlement and key creation | a deleted user has no live key |
| Sticky sessions, bindings (`sticky.go`, `responses.go`) | Redis bindings | bind, look up | binding to an account that failed over | a follow-up goes to the account that holds the state |
| Prices (`pricing.go`, `reference_prices.go`) | published catalog, cards of channels and groups | `reloadPrices`, resolution, `calculatePrice` | catalog replaced and cards edited while requests run; tiers and lifetimes of cache writes | charged as quoted; the operator's prices decide; every token charged once |
| Groups, composite routes (`groups.go`, `group_fallback.go`, `composite.go`) | tables, fallback graph | edit, route, revalidate after a queue | two edits of one graph; routes edited while requests wait | no cycle; one hop; routed by what holds when the request leaves |
| Proxies (`proxies.go`, `proxy_fallback.go`, `billing_probe.go`) | tables, fallback graph, probed snapshots | edit, assign, expire, revert, probe | edits of one graph; expiry beside assignments; probes of replaced accounts | no cycle, nothing dangling; the administrator's choice and fresh snapshots survive |
| Responses over WebSocket (`responses_ws*.go`) | upstream socket, history, remembered ids | turns, cancel, replay | accounts edited between turns; limits of the history | a connection keeps its source; the history is exact |
| Custom voices (`custom_voices.go`) | Redis registry, voices at the provider | create, delete, use | unknown outcomes, accounts edited, crash between provider and registry | one source per library; deleted voices stay deleted |
| Web search (`web_search.go`) | Redis counter of a month | reserve, ask, give back, reset | month ends or is reset in between | the counter is exact, the quota holds |
| Protocol conversion (`text_protocol.go`, `responses_*.go`, `chat_*.go`, `messages_*.go`) | stream state | JSON to JSON | partial streams, tool calls, errors, settlement before the end | well-formed, complete streams with one verdict, paid before they end |
| Transport, reports, audit, schema | files, tables | I/O, queries | - | - |

Interactions: the handler takes slots from admission, claims its idempotency
key, chooses an account, dispatches, hands the receipt to settlement and
releases the slots by deferred calls. Task handlers checkpoint the receipt in
their Redis record before they call settlement. `startWorkers` runs recovery
and the pollers on tickers. `checkInstance` stops admission when the lock
connection is lost. Administrators change limits and balances and delete users
in transactions of their own.

## Modules

| Module | Models | Theorems |
|---|---|---|
| `Ledger` | what settlement promises: a request is charged once, a keyed adjustment applied once while its key is remembered | |
| `Settlement` | `settlement.go`, `balance.go`, `write_idempotency.go`, settling of task checkpoints | `Settlement_proofs` |
| `Admission` | `concurrency.go` and the control of `textGateway` and `chooseAccount` | `Admission_proofs` |
| `Idempotency` | `gateway_idempotency.go` and its callers | `Admin_proofs` |
| `Escrow` | what batch images promise about money: frozen once, thawed once | |
| `BatchImages` | `batch_images.go`, `batch_images_worker.go`, `batch_images_provider.go` | `BatchImages_proofs` |
| `Sums` | amounts added up over a finite set, for the books of `Settlement` and `BatchImages`, and the lemmas about it | `Sums` |
| `PaidTask` | what asynchronous tasks promise: sent at most once, charged only if sent, a result only when charged | |
| `ImageTasks`, `BackgroundResponses`, `VideoTasks` | `image_tasks.go`, `responses_background.go` and `responses_delete.go`, `video_tasks.go` | `Tasks_proofs` |
| `StreamWire` | the events of the streaming protocols; what a client makes of them | |
| `ChatResponses`, `ChatMessages`, `AnthropicChat`, `AnthropicResponses`, `Gemini`, `ResponsesChat`, `ResponsesMessages` | eight stream converters, one module for each file, but for the two from Gemini (`responses_chat.go`, `messages_chat.go`, `chat_anthropic.go`, `responses_anthropic.go`, `chat_gemini.go`, `messages_gemini.go`, `chat_responses.go`, `messages_responses.go`) | |
| `GatewayStream` | the streaming half of `textGateway`, over the converters, and `responses_gemini.go`, which is two of them in a row | `Streams_proofs` |
| `Pricing` | `pricing.go`, `reference_prices.go`, the billed model of `settlement.go` | `Requests_proofs` |
| `SearchQuota` | the quota in `web_search.go` | `Requests_proofs` |
| `Realtime` | `grok_realtime.go`, `Close` | `Requests_proofs` |
| `ResponseSockets` | `responses_ws.go`, `responses_ws_bridge.go`, the bindings of `responses.go` | `Requests_proofs` |
| `CustomVoices` | `custom_voices.go` | `Requests_proofs` |
| `ProxyRoutes` | `proxies.go`, `proxy_fallback.go`, `billing_probe.go` | `Admin_proofs` |
| `GroupGraph` | `groups.go`, `group_fallback.go` | `Admin_proofs` |
| `Sessions` | `auth.go`, `users.go` | `Admin_proofs` |
| `KeyAccess` | `keys.go`, permissions in `users.go` and `groups.go`, `gatewayAuth` | `Admin_proofs` |
| `Composite` | `composite.go` and the revalidation of `concurrency.go` | `Admin_proofs` |
| `Spending` | `quotas.go`, quotas and windows in `keys.go` and `applyReceipt` | `Admin_proofs` |
| `AccountHealth` | `settlement.go` (failures), `stream_timeout.go`, `account_balance.go`, `test_plans.go`, states in `accounts.go` | `Requests_proofs` |
| `MCSettlement`, `MCAdmission`, `MCBatchImages`, `MCTasks`, `MCStreams`, `MCSockets`, `MCAdmin` | instances for TLC | |

The last four MC modules hold several components that share no state. A
behaviour is one of a single component, chosen at the start by `focus`; the
others keep their initial values. So one run checks several components without
the product of their states, and each property speaks of its component only.

An operator that stands before a definition and carries its name and a suffix
(`ReadBalanceUnlocked` before `ReadBalance`) is a plausible wrong version of it.
`PROJECT.json` pairs each with the property that notices it.

### Settlement

`pending` is the Redis hash, `dedup` and `archived` the two tables, `posted`
how often each book was written for a request, `checkpoint` the tasks in stage
`settling`. A handler runs `Observe`, `SavePending`, then the steps of
`applyReceipt` (`InsertDedup` or `AlreadyApplied`, `ArchivedApplied` or
`LockUser`, `Commit`), then `DropPending` and, for a task, `FinishTask`.
A recovery worker runs `Scan`, `NextReceipt`, the same steps and
`DropRecovered`. `claim` and `row` are the uncommitted dedup row and the
locked users row of an open transaction, the two points where PostgreSQL makes
transactions wait; the remaining statements of `applyReceipt` commit with them
in `Commit`. Any statement may fail (`ApplyFails`), a commit may succeed and
report an error, HSet may store and report an error, HDel may do nothing, and
the process may die (`Crash`); `faults` counts these. Redis is deployed with an
append-only file written on every command (`compose.deploy.yaml`), so a crash
loses neither store.

The amounts of a receipt are the constant `Debit`, a natural number: costs are
exact decimals of one scale in code and schema. Which optional books
(key quota, key windows, account quota) a receipt writes is the constant
`Touches`. `ArchiveDedup` is the maintenance job the archive table implies; no
code of the repository runs it, but `applyReceipt` is written for it.

`L == INSTANCE Ledger WITH charged <- Charged, remembered <- records` is the
refinement mapping: the charged requests are the rows of both dedup tables, and
a key is remembered as long as its idempotency record counts. `ExpireRecord`
lets the 24 hours of a record pass at any moment (`write_idempotency.go:37`,
`:57`): afterwards the same key adjusts the balance again, which is what the code
does and what `Ledger` says with `Forget`. A call without a key (`None`) leaves
no record. `adjusted` are the calls with a history row.

### Admission

`active`, `waiting`, `queued`, `stopped` and `lost` are the fields of the
application; `woken[p]` says whether the channel `p` fetched has been closed,
which is all a waiter can see of it. `held` and `defers` are what a request
took and what its deferred calls will release. The steps follow the code:
`Check` (context and gate, fetch of the channel), `Reauthorize`, `TakeUser`,
`UserGranted`, `Enqueue`, the select (`WaitSignal`, `WaitTick`,
`WaitPingFails`); `TrackKey`; `chooseAccount` as `Candidates`, `TryAccount`,
`RecheckProfit`, `NoAccount`; and the attempt loop as `Preflight`, `Dispatch`,
`Upstream`, `Settle`, `RunDefers`. A step is what the code does between two
acquisitions of `gatewayMu` or two calls that may block. Account eligibility,
pricing, policy and conversion are choices: they decide which branch is taken
and touch no admission state. `MaxAttempts` is 3, or 4 for search and audio.
`Cancel` stands for the client's disconnection and the wait's 30 s deadline.

### Idempotency

One row per key with status, fingerprint, stored response and expiry. `Expire`
lets the 24 hours pass at any moment. Claiming holds the advisory lock
(`Locking`), `Finish` does not. `Careful` calls (video, voice, background) skip
`Finish` when the upstream's outcome is unknown; for the others the answer
stored for a broken upstream is itself definite for the client.

### Batch images

A member of `Jobs` is a submission and the job it creates. `row` are the columns
of `batch_image_jobs` that decide anything (`older` is the order of
`updated_at`, all the worker asks of it), `money` the claims, the balances and
the usage records, `upstream` the provider's side. Everything under `batchMu`
(a worker's pass, a cancellation, a deletion) is one control per process:
`pc`, `job`, the loaded status `view` and the rest of the page. A submission
is not under `batchMu`; its transaction is `Submit` (advisory lock, replay),
`Count` and `CommitSubmit`, since the count of unfinished jobs can be stale.

`processBatchImage` is cut at every statement that commits and every call of
the provider: `Process` decides by the loaded status (`Entry`), a new job goes
through `Check`, `Mark`, `CreateProvider`, `Bind`, `Reload`, an interrupted one
through `Find`, and both through `Poll`, `GetProvider` and what the answer calls
for. `settleBatchImage` and `failBatchImage` are one transaction each, guarded
by what they read under the row lock. `StepFails` is any failure before an
effect; the actions themselves have a variant whose effect happens and whose
answer is lost. Both lead to `Retry`, the RECOVERY_PENDING update.

A process is started with the instance lock (`Start`), may die (`Crash`) and,
if `Overlap`, may lose the lock and go on (`LoseLock`): `checkInstance` is asked
once at the start of a pass or request. When more than one provider job exists
for a job, which needs `Overlap`, the state and the output that are read are
those of any of them.

Amounts are in the scale of `users.balance`: `batchBalance` rounds the hold and
the cost to eight decimals, and `Cost` is the rounded price of a number of
images. That it does not exceed the hold is an assumption, ensured by
`batchPrice`, which raises the hold multiplier to the discount, and by rounding
being monotone. The usage record keeps two more decimals. `updated_at` is
ordered by commit, whereas PostgreSQL's `now()` is the start of the transaction.
The refinement mapping computes `deal` from the claims of a job.

### Asynchronous tasks

Each module has one abstract task per id and refines `PaidTask` (`Image...`,
`Bg...`, `VideoImplementsPaidTask`): the mapping counts the calls that reached
the provider, looks the charge up in the books and reads the outcome from the
stored record. `saveReceipt` appears as the promise `Settlement` proves: success
means charged; an error leaves the receipt unrecorded, stored for recovery or
charged.

`ImageTasks` is the worker's pass (`StageEntry` and what each stage calls for):
a task found in stage running after a restart is failed, never sent, and one in
stage settling is settled from its checkpoint. `BackgroundResponses` and
`VideoTasks` have handlers of clients beside the worker; a record is only
written under the slot of its task, but a save of a background response may
arrive later than its time-out, which is what the deletion marker and the
check of the index in the save script (`MaySave`) are for.

### Streams, prices, searches

`GatewayStream` receives any order of upstream's events, cut off anywhere, and
does what `textGateway` does with each: observe, convert, hold back or write,
then settle, deliver what was held, and end. A converter is a pure operator from
its state and an event to a new state and the events it writes. Texts and
arguments are lengths; a fragment of arguments is half a JSON object. What
upstream said (`said`) is kept beside what the client understood (`client`), as
the readers of `StreamWire` understand it, and the properties compare them.

`Pricing` resolves and calculates as the code does, over natural prices. A
request keeps its catalog, takes its cards with the account (again for every
account that is tried), prices the probe of `preflightUsage` and its usage.
`quote` remembers what each usage costs at that time and is read by
`ChargedAsQuoted` alone. `OperatorPricesDecide` is a statement of
non-interference: another catalog, or other cards of the channel, would give the
same cost. `PreflightSuffices` is restricted to the context tier of the probe
and to the requested name, because the code does not promise more: a card whose
later tier has no price, or a `response_model` channel without a card for the
model that answered, fails at settlement and leaves the usage to review.
`EveryTokenCharged` excepts a breakdown of cache writes that is short of their
total, which `calculatePrice` charges as it stands.

`SearchQuota` is one search after another step of `runWebSearch`; the two Lua
scripts are atomic, the random weights are the orders they allow.

### Connections

`Realtime`: a snapshot is a duration. A tick carries the time at which it was
sent (`rtTick`), waits for the loop while a write is blocked, and is stored with
that time: a late one takes the snapshot, and `lastCheckpoint`, back behind what a
frame stored meanwhile (`grok_realtime.go:404`, `:413`). `rtSlack` is a history
variable, the interval that the loss of the session is bounded by: one interval, or
longer by the wait of such a tick until the next frame. The relay, the last snapshot,
the registration of the socket, the recovery scan with its look at the live sockets,
`StopAdmission`, `Close` and a crash are separate steps. `ResponseSockets`: one
connection whose turns meet edited accounts; a source is an account with the
digest of its target. `CustomVoices`: the registry in Redis, the provider's
voices, and calls that hold the slot `voice-management`; provider answers may be
lost.

### Administration

`ProxyRoutes` and `GroupGraph`: an edit takes the advisory lock (720034, 720035),
checks the graph it reads and writes when it commits; whatever takes no lock is
a separate actor. An edit of an account loads the row outside any transaction
(`LoadEdit`) and writes later (`WriteEdit`), and several may do so at a time;
`pxMixed` remembers the accounts whose snapshot was kept by an edit that had not
seen the one written in between. `Sessions`: PostgreSQL and Redis are read and written in
separate steps; an edit of a user raises the epoch in Redis before it commits its row.
`KeyAccess`: the right to use a group is checked when a key is assigned and,
again, when it is used; a request may then wait for a slot (`QueueRequest`), and
is authenticated anew when it gets one (`ReloadKey`). `Composite`: the best route of a request, decided when it
arrives and again after it queued. `Spending`: counters are checked on arrival
and charged, with the windows that ended meanwhile, on settlement; history variables
count what each window should hold. An edit of the account may switch its day
between 24 hours from the first charge and calendar days (`SetResetMode`); a
switch to calendar days while none is open makes the code start from nothing,
and `spCut` remembers which charges came before it. Calendar days begin at
midnight of one zone; the hour and zone an account may choose are left out. `AccountHealth`: every
automatic verdict compares `updated_at` (`ver`) with the row it was formed on.

## Runs

| Run | Instance | Shows |
|---|---|---|
| `recovery` | 2 requests (one a durable task), 2 workers, 2 faults | `ExactlyOnce`, `SuccessIsCharged`, `Recoverable` |
| `ledger` | 2 requests (one a durable task, one only in the hash), 1 worker, 3 adjustments (2 with one key, 1 without), 2 faults, one user, fair | `Conservation`, refinement of `Ledger`, `EventuallyCharged` |
| `slots` | 2 requests, 1 user slot, 2 accounts, 2 attempts, one place in all queues, one change of a limit to 0 or 2 | `SlotAccounting`, `LimitRespected`, `NoLostWakeup`, `QueueAccounting` |
| `returns` | 2 requests, 2 user slots, 1 account, one change of a limit | `StopDrains`, `EveryRequestReturns` |
| `batch_jobs` | 4 submissions of 2 API keys, two of them with one Idempotency-Key, cap 1, page of 1, 1 process, 4 faults, fair | `StatusExplainsMoney`, `RefundIsFinal`, `OneProviderJob`, `SubmissionsBounded`, `EndIsFinal`, `JobsEnd` |
| `batch_money` | 1 job, 2 processes that may overlap, 2 faults | `EscrowBalances`, refinement of `Escrow` |
| `batch_overlap` | 1 job, 2 processes, 1 fault | `OneProviderJob` is violated |
| `batch_starvation` | 2 jobs, page of 1, 2 faults, fair | `HoldNotStranded` is violated |
| `tasks` | 2 tasks of each kind for one place, a client and the worker, 2 or 3 faults, fair | `TasksAccounted`, `ResponsesStayPut`, `ImplementPaidTask`, `TasksEnd` |
| `streams` | 13 pairs of protocols, 2 places, 4 fragments; 1 request, 2 edits of prices; 2 searches, 2 providers, 2 ends of a month or edits, 1 fault; 1 account with 2 activities at a time, 3 writes, 1 action of an administrator | `StreamFaithful`, `SettledBeforeEnd`, `PricesSound`, `QuotaKept`, `HealthFaithful` |
| `sockets` | 1 session of 3 half-seconds, 2 faults, 1 crash; 1 connection of 3 turns, 2 accounts, 1 edit; 3 voice calls, 2 accounts, 1 edit, 1 fault; fair | `RealtimeBilled`, `ContinuationFaithful`, `LibraryFaithful`, `ConnectionsEnd` |
| `admin` | 3 proxies, 3 groups, 2 users, 2 keys, 3 routes, 2 requests per limit, 3 calls of one idempotency key | `ProxiesSound`, `RoutingSound`, `AccessRevocable`, `SpendingExact`, `OneOpenCall`, `ReplayIsOriginal`, `NeverTakenOver` |

A property of the later runs is a conjunction of named parts, each with its
comment in the component's module, for instance `PricesSound` of
`ChargedAsQuoted`, `OneTier`, `OperatorPricesDecide`, `PreflightSuffices` and
`EveryTokenCharged`. The type invariants of the modules without proofs are
parts too; those of `Settlement`, `Admission`, `Idempotency` and `BatchImages`
are theorems (`TypeCorrect`).

The two violations are findings about the code. `batch_overlap`: a worker that
lost the instance lock and the worker of the next process both read a job in
stage `created`; the guarded update of the first to come second changes no row,
which nobody looks at, and both create the billable provider job, against the
comments at `batch_images_worker.go:166` and `:173`. `batch_money` shows that
the user's money survives this. `batch_starvation`: finished jobs that are due
for clean-up and whose account was deleted or changed fail in every pass, but
only unfinished jobs are moved to the end of the order. As many of them as a
page holds, 32 in the code and 1 in the run, keep every other job from the
worker for good, against the comment at `batch_images_worker.go:100`.

Bounds. Two appliers are what a race for one receipt needs, and two workers
overlap only when an instance that lost its lock finishes a pass. One request
with and one without a checkpoint exercise both ways of recovery; two faults
allow a failure and a crash in the course of recovering from it. One user puts
all debits and adjustments on one row; the three adjustments are a call, its
retry and another administrator without a key, and the smallest amounts that make
`subtract` fail or succeed depending on the order. `LedgerSpec` restricts the run
(`Scope`) to adjustments beside the task and one fault, or to the receipts
of both requests, the task's and the ordinary one's that is only in the hash, with
two faults: one of them fails in a pass of the recovery while the other waits. All
of it together is covered by the proofs. For admission two requests suffice for
one to hold what the other waits for, and the second account for fail-over;
a third request is needed to meet a full queue while a place is released. The
real caps (20, 100, 128) matter only as a comparison with a counter, so 1 and 2
reach the same branches. For idempotency a repeated call, a call with another
fingerprint and a fault during each are the cases of the code. Batch jobs meet
only in the page, the cap and the balance, and `JobsSpec` divides the run
accordingly: all four submissions, with cancellations, race for a cap of one
before the worker takes part (`OnlySubmissions`: by one key, by two, with one
Idempotency-Key and without); one job and its repetition live through four faults, which
allow a lost answer, a crash, a revoked account and a deleted user in one
behaviour (`OneKey`); and two jobs wait for the one place in the worker's page,
with one fault (`TwoKeys`). Balance 6 lets every submission of
the instance be held, as `Escrow` and its proof cover the refusals. What these
bounds leave open for settlement, admission, idempotency and batch images is
closed by the proofs, which have none. Bounds in guards are `MaxFaults`,
`MaxChanges` and `MaxAttempts`; for batch images `MaxFaults` also counts revoked
accounts and deleted users.

Tasks: the cap of 32 is 1, so the second task meets a full queue; two background
responses may get one id from the provider. Streams: two places let contents
interleave, four fragments open, continue and close one beside another; native
streams, which are only observed, are cut to two. Prices: the cards of
`MCStreams` include overlapping tiers and periods, free, missing and single
write prices, an ambiguous and an invalid catalog; seven usages cross tiers and
divide cache writes evenly, unevenly and not at all. Searches: two provider
types exist in the code. Sockets: a checkpoint every two of three half-seconds
gives a relayed time before, at and after it; three turns let a connection
continue its own, an older and a forgotten response. Administration: three
proxies or groups make the shortest cycle with a bystander, and more would make
the same check of one chain; two administrators race, the third edit meets a
graph they left. In `Spending` time is in ticks: the windows of five hours,
one day, seven days and a month are 1, 2, 4 and 3 ticks and the clock ends at
3, so the seven-day window never ends; it shares its expression with the
one-day window. All names `...Max...` in the four MC modules are such bounds.

Only `streams` checks for deadlock, of streams: one that is not delivered can
always go on. The other systems stop when all requests are done and the bounded
faults and changes are used up. That nobody waits for ever is checked as
`EventuallyCharged`, `StopDrains`, `EveryRequestReturns`, `JobsEnd`,
`ImageTasksEnd`, `BgTasksEnd`, `VideoTasksEnd`, `SessionsCharged`, `SocketEnds`
and `VoiceSlotFreed`.

## Fairness

`Settlement!Fairness`: goroutines are scheduled, and an adjustment that has begun
goes on; the recovery worker runs at
start and every 15 s (`test_plans.go`, `startWorkers`), the task pollers on
their tickers; PostgreSQL grants a lock whose holder ends its transaction (all
have timeouts). Nothing is assumed of clients, of administrators' calls
(`BeginAdjust`) or of faults.

`Admission!WaitSpec`: goroutines are scheduled, database calls end, and
`checkInstance` calls `StopAdmission` after it set `instanceLost`. Neither the
ticker nor the deadline of `waitAdmission` is assumed, so the liveness
properties show that the wake-ups alone suffice. `EveryRequestReturns` has the
premise `UpstreamsEnd`, which the timeouts of the upstream calls ensure;
`StopDrains` does without it.

`EveryRequestReturns` is checked with one account. With several, two waiters
whose profit recheck keeps failing could each take and release a slot and wake
the other again and again; the code ends that by the 30 s deadline, which the
fairness does not assume.

`BatchImages!Fairness`: the worker runs every 15 s; it only tries `batchMu`, so
the pass needs strong fairness against clients who hold it now and then; its
calls end (3 minutes per job); a supervisor restarts a dead process; and the
provider finishes its jobs, which expire after its own deadline. `JobsEnd` holds
of a job as long as the jobs of `Stuck`, finished and due for clean-up without an
account, do not fill the page: that they may is what `batch_starvation` finds.

`TasksSpec`: handlers run and their calls end; the worker passes every second
and reaches every pending task, strongly fair where a client may hold the slot
of a task when the worker tries it; the provider finishes what it accepted;
stored receipts are recovered (`EventuallyCharged` above). A client whose deletion
of a background response was not confirmed repeats it, as the answer tells it to
(`RetryDeletion`, strongly fair). `TasksEnd` names two exceptions that the code itself does not
bring to an end: a submission whose outcome is unknown, which is kept, with
its place of 32, for review (`BgUncertain`); and a video that the client deleted
at the provider when it had finished but had not been polled (`VideoLost`),
whose task stays pending and unpaid (`video_tasks.go:722`).

`SocketsSpec`: the goroutine of a connection runs, no turn outlasts its upstream
time-out, a session ends with its hour, the recovery worker runs, and a process
that was stopped is started again. Clients are assumed to do nothing.

`streams` and `admin` have no liveness properties.

## Proofs

All theorems hold for every value of the constants allowed by the named
assumptions: the functions have the right domains, the kinds of actors and
slots are disjoint, and for admission the set of requests is finite.

*Settlement* (`ReceiptsPostExactlyOnce`, `SuccessMeansCharged`,
`UnchargedIsRecoverable`, `SettlementImplementsLedger`). `Commit` posts a
receipt without looking at the dedup table again, so `ExactlyOnce` needs what
the open transaction knows: its dedup row is not committed and nobody else's
(`ClaimInv`), its users row was locked after the archive was checked and is
locked by nobody else (`RowInv`), an adjustment under way holds the key alone
and read the current balance (`KeyInv`, `RowInv`), and whoever removes a hash
entry or a checkpoint has seen the charge (`ControlInv`). Archiving cannot
disturb it because only committed rows move. The refinement follows step by
step: `Commit` is a `Charge`, `CommitAdjust` an `Adjust`, `ExpireRecord` a `Forget`,
all else stutters.
`MoneyIsConserved` is then an argument about the abstract ledger alone: a
`Charge` adds one debit to the sum of one user and an `Adjust` the same amount
to balance and history (`ChargeConserves`, `AdjustConserves`), and every step
of settlement is one of these or touches no money.

*Sums* (`Sums`). The folds of the community modules are defined by a
recursive function chosen to satisfy its equation, so even `SumOver(F, S)` of a
concrete set has to be shown to exist. Proper inclusion is well-founded on the
subsets of a finite set; `LeastSubset` turns that into the least counterexample
of a property given as a set, which replaces the induction principle (`LeastNumber` is its form for numbers). It shows
that the recursive function exists and is unique (`SumUnfolded`,
`SumRecursion`), and that the sum is the same whichever element is taken out
first (`SumOverRemove`); from this come the lemmas the books use: adding an
element, changing one value, agreeing functions, and, for a queue, splitting and
shifting the sum over an interval.

*Admission* (`SlotsAreExact`, `QueuesAreBounded`, `LimitsHold`,
`NoWakeupIsLost`). For every label the invariant says in which wait the request
is (`PhaseOK`, `QueueOK`), which releases are deferred (`DefersOK`) and what it
holds besides (`HeldOK`); with the cardinality lemmas for taking and releasing
this gives the exact counters. `LimitInv` bounds every limit in hand by the
largest ever configured. `WakeOK` is the argument for the broadcast: from the
moment the channel is fetched until it is closed, what the attempt found full
stays full, since every release closes every channel. `OthersKeep` proves once
that a step of one request keeps the other requests' part.

*Idempotency* (`NeverSentTwice`, `ReplaysAreOriginal`,
`ProcessingIsNeverStolen`). `Insert` overwrites the row it does not read again:
the lock (`LockInv`) keeps true what `Lookup` saw (`InsertInv`), and an open
call still has its processing row (`OwnInv`), so the two cannot meet.

*Sessions and key access* (`SessionsAreRevocable`, `AdmissionNeedsAccess`,
`AccessStaysRevocable`). The password of a user and the epoch of its sessions
only grow, so a session that was revoked has an old password or an old epoch
for good (`SessionInv`, with `Past`), what a request that began after the
revocation has read is past already (`RequestInv`), and a refresh token that was spent is older than
the one in use (`SpentInv`). A process that issues or replaces a token does so
on what it read under the locks it still holds: `LockHeld` says who holds them,
and `EditInv` that what made the edit permissible (`MayEdit`) is still so at its
commit. `BystanderKept`, `EditKept` and `SessionsClose` are the three ways a step
can touch a session. For keys the invariant is `KaRemembers`: a request under
way remembers what covers the right its key has now, and one that waits
remembers nothing until it was authenticated anew. `AdminRunsEach` shows that
a behaviour of the composition `AdminSpec` is a behaviour of each of its six
components, so what is proved of one holds in the composition.

*Groups and composite routes* (`GroupsRouteInOneHop`, `RoutesFollowRules`,
`RoutingStaysSound`). That fallbacks form no cycle is stated without walks: no
set of live groups has all its fallbacks inside itself. An edit under way holds
the lock, and what it read is still so; so the graph is as sound as the edit
would leave it, whichever of the two is in force (`GroupInv`). That the check of
the code, a walk of bounded length, decides this needs the walk to exist as a
function (`WalkExists`, `WalkInduction`). The loop of `resolve` is a fold, which
exists and goes through its items in any order once (`FoldExists`); the
comparison of two pairs is a strict order on routes of different ids, so what is
left at the end is the one best pair, as the rules describe it
(`LoopFollowsRules`). `CompositeInv` keeps the ids apart, and adds that a request
past its wait holds its place.

*Proxies* (`ProxiesStaySound`). Again no set of proxies that are in force has all
its fallbacks inside itself (`NoneCycles`), which no expiry, deletion or edit may
break while another transaction waits for its locks: `PxTxInv` says what an
edit under way has read and that it would leave the graph without a cycle. An account
follows the proxy it was given through expiries and back. A snapshot is one of
the version of the account it was measured at (`VersionAgrees`), and edits of
anything it depends on raise the version or leave it alone (`Unaffected`). An
edit of an account that no other was written under still knows the account's target; one that was
crossed may keep a snapshot of a target that was replaced, which `pxMixed`
notes and `SnapshotFresh` excepts. The
proxies of the initial state are assumed to form no cycle.

*Spending* (`LimitsJudgeWhatWasSpent`). A window may be stale when a request
looks at it, and it is replaced only when something is charged. `SpendingInv`
gives every window an end, `EndOf`, behind everything charged to it, and says
that its counter counts the charges settled since it started, and leaves out
only those that were begun before (`Holds`). A window
that is opened after that end starts later than every earlier charge, days
being multiples of `DayTicks` (`OverAtEnd`); so the counter read at any time is
what was spent in the window that is open at that time, but for the charges
before a switch to calendar days (`spCut`), which only a day that is open
survives (`DayOpened`).

*Account health* (`HealthStaysFaithful`). A verdict read whose version still
agrees belongs to the present epoch of administrators (`ReadsInv`). The counter
of the version in force counts at most the reports of failure and those of later
versions are zero (`CountInv`); a pause for the balance hides no other cooldown
(`BalanceInv`); an account whose plan is being saved is not deleted, for its row
is locked (`PlanInv`). All writes go through one lemma, `WriteKept`. The bound
`HaMaxVer` must not be zero: an account starts at version one.

*Batch images* (`BatchImplementsEscrow`; `ProviderJobIsUnique`,
`RefundFollowsProvider`, `StatusTellsMoney`, `FinishedStaysFinished` for
`~Overlap`). The refinement needs little: a job's claims are a hold and at most
one end, a submission under way has none (`EscrowInv`), and the price is at most
the hold. `MoneySteps` reduces all actions to four ways of treating money, so
overlapping processes cannot break it. The other four need one process at a
time (`Alone`), what the process at each label knows of its job (`Working`), and
how status, claims, usage and the provider's job agree (`JobInv`). The update to
`running` goes by the batch_id alone: without `Alone` it undoes a finished job,
which is where the proof fails for `Overlap`.

`BatchMoneyAddsUp` adds the money: the four ways of `MoneySteps` change the sum of
open holds and the sum of charges by what they move between balance and frozen
amount, for overlapping processes too.

Submissions race under the advisory lock of their key alone. `KeysMakeOneJob`,
for overlapping processes too: who is past `Submit` without a replay holds that
lock and has seen no job with its key (`LockInv`). `SubmissionsStayBounded`, for
`~Overlap`: the count of unfinished jobs can be stale, but two submissions that
have counted have different keys, so those of one user that exceed the cap are
fewer than its keys (`RoomInv`: unfinished jobs and counted submissions
together stay below the cap plus the number of keys).

*Search quota* (`QuotaStaysKept`). No two months, and no two resets of one
month, share an epoch (`KeyInv`); a unit is held of the provider that is asked
(`HolderInv`), and is given back only under the epoch that it was taken from. So
the counter under an epoch is the searches served, under way or lost under it
(`QuotaExact`), whatever happened to other epochs. `EpochInv` bounds the epochs in
use by the turns taken. The limits must have a largest (`SqAssumption`), which
any set of configured limits has.

*Prices* (`PricesStaySound`). A catalog, cards and groups in force were
validated. `RequestInv` says that a request under way was begun with such a
catalog and selected with such cards, and that its quote is what its usages cost
by them. The card in force is one of those in force or inherits from one,
whatever is missing (`EffectiveTyped`), and of the reference only the prices of its
tokens depend (`ResolvedRepriced`), which gives the operator's priority. `OneTier` is an argument
about sorting: the code compares neighbours only, and neighbours suffice
(`NeighboursSuffice`), by the least gap between two spans that overlap. The proof
found two places where the model had to be more careful: a sort must be defined
on equal bounds, and every token is charged once only because the lifetimes of
cache writes sum to the writes where no writes are told, which `anthropicUsage`
sees to (`text_protocol.go:930`) and `PrAssumption` states.

*Custom voices* (`LibraryStaysFaithful`). One call holds `voice-management`, so
between its read of the registry and its save nobody else writes it; a voice is
registered only when the call that created it has ended, and an account is asked
about a voice only by a call that was dispatched with its library.

*Realtime sessions* (`SessionsAreBilled`). Until a session freezes its receipt
nobody has read a snapshot of it; from then on Redis, the books, the recovery
scan's copy and whoever settles hold one duration (`AgreeOn`), so it does not
matter which of them comes first or how often. `Covered` bounds what was relayed
since the last snapshot by `rtSlack`; a tick never carries a later time than the clock's. `CleanInv` says what `Close` relies
on as long as nothing failed.

*Responses over WebSocket* (`ConversationsStayFaithful`). Every turn in the log
went where the connection's binding says and, after an edit, the account chosen
for the next turn is still one that fits it. A turn that is sent carries what it
continues and is newer than every snapshot, so remembering it keeps snapshots
whole. The count of bytes is the sum of the snapshots in order; what the loop
evicts exists, because to drop all of them suffices, and the sum of what is left
is the old sum without what went (`SocketInv`).

*Streams* (`EndsArePaid`). A frame is quiet if it lets no client go on (`Quiet`):
it is not the end of a stream and, for a client of Messages, not a call.
`StreamInv` says that before settlement a client has read neither (`Unpaid`). So
every converter, in whatever state, has to tell quiet frames until it sees the
last event (`ConvertTells`, over one lemma for each pair of protocols), and the
handler has to see that event for the last too and hold what it becomes
(`ObserveSees`, `EmittedQuiet`). Three converters need something of their own state for it:
the parts of a Chat stream are a sequence (`PartsOK`), a Gemini stream knows
whether it holds its calls, and the items of a Responses stream are finitely
many and of known kinds (`SlotsOK`). Converters and the reading client are folds;
that a fold keeps what each of its turns keeps is proved once (`FoldKeeps`),
with `Turn` naming the five kinds of turns.

*Asynchronous tasks* (`TasksArePaid`, `TasksAreAccounted`, `TasksStayPut`). Each
kind has an inductive invariant of its own, and a behaviour of the composition
is one of each (`TasksCompose`).

- `ImageInv`: a record tells whether its task was sent, the worker's place in
  its pass agrees with the stage of the record it holds, and the list of
  pending tasks is exact (`ImageTaskOK`, `ImageWorkerOK`).
- `VideoInv`: a submitting handler holds `video-create` and has counted the
  queue under it, so the cap survives its save; whoever works on a task holds
  its slot, and its copy is the record (`VideoActorOK`). So nobody else can
  have settled the task since it was loaded.
- `BgInv`: here the copy may differ from the record, because a save that timed
  out can arrive under another holder's slot. What survives is the identity:
  all records of a task that may still be written, the stored one, the copies
  and the late ones, speak of one response (`BgMayWrite`, `BgLateOK`,
  `BgActorOK`), and each of them is one that its save script may admit at any
  time (`BgRecordOK`). A late save needs an open place in the index or the one
  it had; that the id in it is not one of which a deletion has left only a
  binding is `BgKnown`. `BgLeaves` lists once what a step may do without
  disturbing other actors; a late save and an expiry are steps of nobody.

`BgStepSimulation` uses the invariant of the state after the step: the record a
terminal save stores satisfies `BgRecordOK`, so a published result is charged.
Expiry needs its premise that no late save of the task is under way: without it
a save could bring a forgotten record back.

Only model-checked: the liveness properties, which need fairness and ENABLED,
and `StreamFaithful`. What a converter has written so far is a
fold over the events of the stream, and `StreamFaithful` compares it with another
fold over them: this is induction over the data of nine converters, for which the
provers have no principle.

## Not modelled

The status column in `PROJECT.json` says for every component what is left.
A crash between the end of an upstream answer and HSet loses the receipt of an
ordinary request, as does a failure of both HSet and `applyReceipt`: nothing is
persisted earlier, and `Recoverable` states what does hold. Requests per minute
(`gatewayRPM`) are one of the refusals of `Dispatch`. Request bodies and whole
(not streamed) answers are converted by pure functions of JSON without control
to speak of. Queries, reports, views, object storage, validation of single
fields and the SQL schema are left out, as are the decimals of prices.
The components of one MC module are not composed with those of another: they
share only the request, and each treats the others' outcomes as choices.

Races that the properties state as exceptions: two overlapping edits of one account's
credentials may keep a snapshot of a replaced target (`accounts.go:434`, `:529`;
`SnapshotFresh`); a switch to calendar days forgets what was spent of the day
(`quotas.go:59`; `VerdictExact`, `WindowsExact`); a finished video deleted before it is
polled stays pending (`VideoLost`). Seen while modelling, and stated by none: a
logout with a rotated refresh token leaves the session (`auth.go:295`).

## Plan

1. Done: `Ledger`, `Settlement`, `Admission`, `Idempotency`, `Escrow`,
   `BatchImages` with runs and proofs.
2. Done: the asynchronous tasks with `PaidTask`; streams, prices and search
   quota; sockets and voices; administration; all model-checked.
3. Done: proofs of sums, so that the books of `Settlement` and `BatchImages` are
   known to add up; of the asynchronous tasks, which implement `PaidTask`; of
   all administration; of account health, prices and the search quota; of the
   three kinds of connections; of what a stream tells before it is settled.
4. Proof left: `StreamFaithful`, that converters change nothing of what is said.
5. Models left: sticky sessions; channels' model mappings; hosted tools in the
   converters; image, video and audio prices; batch downloads.
