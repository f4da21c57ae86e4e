------------------------------ MODULE Admission ------------------------------
(***************************************************************************)
(* Concurrency admission of gateway requests (internal/app/concurrency.go  *)
(* and the slot handling of gateway.go): in-memory slot counters, the      *)
(* bounded queue of waitAdmission with its broadcast wake channel, account *)
(* selection with fail-over, and graceful stop.                            *)
(*                                                                         *)
(* A slot "user:7" of gatewayActive is modelled by the user itself, and    *)
(* likewise for accounts and keys: the three sets are disjoint, as the     *)
(* prefixes make them.                                                     *)
(***************************************************************************)
EXTENDS Integers, FiniteSets

CONSTANTS
    Requests, Users, Accounts, Keys,
    UserOf, KeyOf,
    UserLimit, AccountLimit,            \* initial concurrency columns
    Limits,                             \* values an administrator may set
    UserQueue, AccountQueue, TotalQueue,\* 20, 100 and 128 in the code
    MaxAttempts,                        \* 3 (4 for search and audio) in the code
    MaxChanges,                         \* bound on administrator changes
    None

ASSUME AdmissionAssumption ==
    /\ IsFiniteSet(Requests)
    /\ UserOf \in [Requests -> Users]
    /\ KeyOf \in [Requests -> Keys]
    /\ UserLimit \in [Users -> Nat]
    /\ AccountLimit \in [Accounts -> Nat]
    /\ Limits \subseteq Nat
    /\ UserQueue \in Nat /\ AccountQueue \in Nat /\ TotalQueue \in Nat
    /\ MaxAttempts \in Nat \ {0}
    /\ MaxChanges \in Nat
    /\ Users \cap Accounts = {} /\ Users \cap Keys = {} /\ Accounts \cap Keys = {}
    /\ None \notin Users \cup Accounts \cup Keys

Slots == Users \cup Accounts \cup Keys
Queues == Users \cup Accounts

VARIABLES
    active,     \* gatewayActive
    waiting,    \* gatewayWaiting
    queued,     \* gatewayQueued
    woken,      \* whether the wake channel a request fetched has been closed
    stopped,    \* gatewayStopped
    lost,       \* instanceLost
    config,     \* users.concurrency and accounts.concurrency in the database
    ceiling,    \* the largest value each of them has had (history variable)
    changes,
    pc,
    phase,      \* which wait a request is in: "user", none ("direct"), "account"
    queue,      \* the key of its waitAdmission call
    inQueue,    \* queued in waitAdmission
    limit,      \* the user limit its current attempt goes by
    todo,       \* candidates chooseAccount has yet to try
    seen,       \* their concurrency as chooseAccount read it
    full,       \* candidates found full, in order of discovery
    account,    \* selected.Account
    excluded,   \* accounts that rejected the request
    attempt,
    held,       \* slots the request has taken and not released
    defers,     \* slots whose release is deferred to its return
    canceled    \* requests whose context is done

shared == <<active, waiting, queued, woken>>
gate == <<stopped, lost>>
db == <<config, ceiling, changes>>
wait == <<phase, queue, inQueue, limit>>
choice == <<todo, seen, full, account>>
retry == <<excluded, attempt>>
vars == <<shared, gate, db, pc, wait, choice, retry, held, defers, canceled>>

Labels == {"new", "check", "attempt", "take", "granted", "enqueue", "wait", "admitted",
           "choose", "scan", "recheck", "chosen", "preflight", "dispatch", "upstream",
           "settle", "return", "done"}

TypeOK ==
    /\ active \in [Slots -> Nat]
    /\ waiting \in [Queues -> Nat]
    /\ queued \in Nat
    /\ woken \in [Requests -> BOOLEAN]
    /\ stopped \in BOOLEAN /\ lost \in BOOLEAN
    /\ config \in [Queues -> Nat]
    /\ ceiling \in [Queues -> Nat]
    /\ changes \in 0..MaxChanges
    /\ pc \in [Requests -> Labels]
    /\ phase \in [Requests -> {"user", "direct", "account"}]
    /\ queue \in [Requests -> Queues]
    /\ inQueue \in [Requests -> BOOLEAN]
    /\ limit \in [Requests -> Nat]
    /\ todo \in [Requests -> SUBSET Accounts]
    /\ seen \in [Requests -> [Accounts -> Nat]]
    /\ full \in [Requests -> SUBSET Accounts]
    /\ account \in [Requests -> Accounts \cup {None}]
    /\ excluded \in [Requests -> SUBSET Accounts]
    /\ attempt \in [Requests -> Nat]
    /\ held \in [Requests -> SUBSET Slots]
    /\ defers \in [Requests -> SUBSET Slots]
    /\ canceled \subseteq Requests

Init ==
    /\ active = [s \in Slots |-> 0]
    /\ waiting = [k \in Queues |-> 0]
    /\ queued = 0
    /\ woken = [p \in Requests |-> FALSE]
    /\ stopped = FALSE
    /\ lost = FALSE
    /\ config = [k \in Queues |-> IF k \in Users THEN UserLimit[k] ELSE AccountLimit[k]]
    /\ ceiling = config
    /\ changes = 0
    /\ pc = [p \in Requests |-> "new"]
    /\ phase = [p \in Requests |-> "user"]
    /\ queue = [p \in Requests |-> UserOf[p]]
    /\ inQueue = [p \in Requests |-> FALSE]
    /\ limit = [p \in Requests |-> 0]
    /\ todo = [p \in Requests |-> {}]
    /\ seen = [p \in Requests |-> [a \in Accounts |-> 0]]
    /\ full = [p \in Requests |-> {}]
    /\ account = [p \in Requests |-> None]
    /\ excluded = [p \in Requests |-> {}]
    /\ attempt = [p \in Requests |-> 0]
    /\ held = [p \in Requests |-> {}]
    /\ defers = [p \in Requests |-> {}]
    /\ canceled = {}

-----------------------------------------------------------------------------
(* Slots.  wakeGatewayLocked closes the channel every waiter has fetched.  *)

WakeAll == woken' = [p \in Requests |-> TRUE]

Closed == stopped \/ lost

\* Mutant: one slot too many.
CanTakeOneMore(s, n) == ~Closed /\ n > 0 /\ active[s] <= n

CanTake(s, n) == ~Closed /\ n > 0 /\ active[s] < n

TakeSlot(p, s) ==
    /\ active' = [active EXCEPT ![s] = @ + 1]
    /\ held' = [held EXCEPT ![p] = @ \cup {s}]

\* Mutant: a release wakes nobody.
ReleaseSlotSilently(p, s) ==
    /\ active' = [active EXCEPT ![s] = IF @ > 0 THEN @ - 1 ELSE 0]
    /\ held' = [held EXCEPT ![p] = @ \ {s}]
    /\ UNCHANGED woken

\* A counter at zero is deleted from the map, so it never goes below.
ReleaseSlot(p, s) ==
    /\ active' = [active EXCEPT ![s] = IF @ > 0 THEN @ - 1 ELSE 0]
    /\ held' = [held EXCEPT ![p] = @ \ {s}]
    /\ WakeAll

Goto(p, label) == pc' = [pc EXCEPT ![p] = label]

\* waitAdmission returns: its deferred function leaves the queue.
LeaveQueue(p, label) ==
    /\ Goto(p, label)
    /\ inQueue' = [inQueue EXCEPT ![p] = FALSE]
    /\ waiting' = IF inQueue[p] THEN [waiting EXCEPT ![queue[p]] = @ - 1] ELSE waiting
    /\ queued' = IF inQueue[p] THEN queued - 1 ELSE queued

-----------------------------------------------------------------------------
(* waitAdmission, for a user and for an account                            *)

\* checkInstance, gatewayAuth and the checks of the request, then
\* waitAdmission for the user.
Arrive(p) ==
    /\ pc[p] = "new"
    /\ Goto(p, "return") \/ (~lost /\ Goto(p, "check"))
    /\ limit' = [limit EXCEPT ![p] = config[UserOf[p]]]
    /\ UNCHANGED <<shared, gate, db, phase, queue, inQueue, choice, retry, held, defers, canceled>>

\* The channel is fetched before the attempt, so a slot released after the
\* attempt looked for one is not missed.
Check(p) ==
    /\ pc[p] = "check"
    /\ \/ /\ p \in canceled \/ Closed
          /\ LeaveQueue(p, "return")
          /\ UNCHANGED woken
       \/ /\ p \notin canceled /\ ~Closed
          /\ woken' = [woken EXCEPT ![p] = FALSE]
          /\ Goto(p, "attempt")
          /\ UNCHANGED <<waiting, queued, inQueue>>
    /\ UNCHANGED <<active, gate, db, phase, queue, limit, choice, retry, held, defers, canceled>>

\* The attempt begins by authenticating the request again, which reads the
\* user's limit; only the first attempt for a user slot uses the limit read
\* on arrival.
Reauthorize(p) ==
    /\ pc[p] = "attempt"
    /\ IF phase[p] = "user" /\ ~inQueue[p]
         THEN UNCHANGED limit
         ELSE ~lost /\ limit' = [limit EXCEPT ![p] = config[UserOf[p]]]
    /\ Goto(p, "take")
    /\ UNCHANGED <<shared, gate, db, phase, queue, inQueue, choice, retry, held, defers, canceled>>

\* The attempt of acquireGatewayUser takes a user slot.
TakeUser(p) ==
    /\ pc[p] = "take" /\ phase[p] = "user" /\ limit[p] > 0
    /\ \/ /\ p \in canceled
          /\ Goto(p, "check")
          /\ UNCHANGED <<active, held>>
       \/ /\ p \notin canceled /\ CanTake(UserOf[p], limit[p])
          /\ TakeSlot(p, UserOf[p])
          /\ Goto(p, "granted")
       \/ /\ p \notin canceled /\ ~CanTake(UserOf[p], limit[p])
          /\ Goto(p, "enqueue")
          /\ UNCHANGED <<active, held>>
    /\ UNCHANGED <<waiting, queued, woken, gate, db, wait, choice, retry, defers, canceled>>

\* The context may have ended while the slot was taken.
UserGranted(p) ==
    /\ pc[p] = "granted"
    /\ \/ /\ p \in canceled
          /\ ReleaseSlot(p, UserOf[p])
          /\ Goto(p, "check")
          /\ UNCHANGED <<waiting, queued, inQueue, defers>>
       \/ /\ p \notin canceled
          /\ LeaveQueue(p, "admitted")
          /\ defers' = [defers EXCEPT ![p] = @ \cup {UserOf[p]}]
          /\ UNCHANGED <<active, held, woken>>
    /\ UNCHANGED <<gate, db, phase, queue, limit, choice, retry, canceled>>

\* The attempt of an account wait: revalidateQueuedRequest finds that the
\* user's slots still fit the user's limit, and chooseAccount follows.
FitsLimit(p) == limit[p] > 0 /\ active[UserOf[p]] <= limit[p]

Revalidate(p) ==
    /\ pc[p] = "take" /\ phase[p] = "account"
    /\ FitsLimit(p)
    /\ Goto(p, "choose")
    /\ UNCHANGED <<shared, gate, db, wait, choice, retry, held, defers, canceled>>

\* waitAdmission returns the error of its attempt, unless the context is done.
ReturnError(p) ==
    IF p \in canceled
      THEN Goto(p, "check") /\ UNCHANGED <<waiting, queued, inQueue>>
      ELSE LeaveQueue(p, "return")

\* Authentication fails: revoked key, changed policy, lost instance, database
\* failure; or the user's limit is 0 or, after a change, exceeded.
AttemptFails(p) ==
    /\ \/ pc[p] = "attempt"
       \/ pc[p] = "take" /\ phase[p] = "user" /\ limit[p] = 0
       \/ pc[p] = "take" /\ phase[p] = "account" /\ ~FitsLimit(p)
    /\ ReturnError(p)
    /\ UNCHANGED <<active, woken, gate, db, phase, queue, limit, choice, retry, held, defers, canceled>>

QueueLimit(k) == IF k \in Users THEN UserQueue ELSE AccountQueue

\* Mutant: the cap over all queues is off by one.
EnqueueOneMore(p) ==
    /\ pc[p] = "enqueue" /\ p \notin canceled /\ ~inQueue[p]
    /\ waiting[queue[p]] < QueueLimit(queue[p]) /\ queued <= TotalQueue
    /\ waiting' = [waiting EXCEPT ![queue[p]] = @ + 1]
    /\ queued' = queued + 1
    /\ inQueue' = [inQueue EXCEPT ![p] = TRUE]
    /\ Goto(p, "wait")
    /\ UNCHANGED <<active, woken, gate, db, phase, queue, limit, choice, retry, held, defers, canceled>>

\* Mutant: the wake channel is fetched after the attempt failed.
EnqueueFetchesChannel(p) ==
    /\ pc[p] = "enqueue" /\ p \notin canceled /\ ~inQueue[p]
    /\ waiting[queue[p]] < QueueLimit(queue[p]) /\ queued < TotalQueue
    /\ waiting' = [waiting EXCEPT ![queue[p]] = @ + 1]
    /\ queued' = queued + 1
    /\ inQueue' = [inQueue EXCEPT ![p] = TRUE]
    /\ woken' = [woken EXCEPT ![p] = FALSE]
    /\ Goto(p, "wait")
    /\ UNCHANGED <<active, gate, db, phase, queue, limit, choice, retry, held, defers, canceled>>

\* The attempt found no slot.
Enqueue(p) ==
    /\ pc[p] = "enqueue"
    /\ \/ /\ p \in canceled
          /\ Goto(p, "check")
          /\ UNCHANGED <<waiting, queued, inQueue>>
       \/ /\ p \notin canceled /\ inQueue[p]
          /\ Goto(p, "wait")
          /\ UNCHANGED <<waiting, queued, inQueue>>
       \/ /\ p \notin canceled /\ ~inQueue[p]
          /\ waiting[queue[p]] >= QueueLimit(queue[p]) \/ queued >= TotalQueue
          /\ Goto(p, "return")
          /\ UNCHANGED <<waiting, queued, inQueue>>
       \/ /\ p \notin canceled /\ ~inQueue[p]
          /\ waiting[queue[p]] < QueueLimit(queue[p]) /\ queued < TotalQueue
          /\ waiting' = [waiting EXCEPT ![queue[p]] = @ + 1]
          /\ queued' = queued + 1
          /\ inQueue' = [inQueue EXCEPT ![p] = TRUE]
          /\ Goto(p, "wait")
    /\ UNCHANGED <<active, woken, gate, db, phase, queue, limit, choice, retry, held, defers, canceled>>

\* select: the channel was closed or the context is done ...
WaitSignal(p) ==
    /\ pc[p] = "wait"
    /\ woken[p] \/ p \in canceled
    /\ Goto(p, "check")
    /\ UNCHANGED <<shared, gate, db, wait, choice, retry, held, defers, canceled>>

\* ... or the ticker fired ...
WaitTick(p) ==
    /\ pc[p] = "wait"
    /\ Goto(p, "check")
    /\ UNCHANGED <<shared, gate, db, wait, choice, retry, held, defers, canceled>>

\* ... or the keep-alive could not be written to the client.
WaitPingFails(p) ==
    /\ pc[p] = "wait"
    /\ LeaveQueue(p, "return")
    /\ UNCHANGED <<active, woken, gate, db, phase, queue, limit, choice, retry, held, defers, canceled>>

-----------------------------------------------------------------------------
(* chooseAccount, directly and as the attempt of an account wait           *)

\* trackKeySlot counts the request whatever the limits and the gate.  Routing
\* and policy may refuse it afterwards.
TrackKey(p) ==
    /\ pc[p] = "admitted"
    /\ TakeSlot(p, KeyOf[p])
    /\ defers' = [defers EXCEPT ![p] = @ \cup {KeyOf[p]}]
    /\ phase' = [phase EXCEPT ![p] = "direct"]
    /\ Goto(p, "choose") \/ Goto(p, "return")
    /\ UNCHANGED <<waiting, queued, woken, gate, db, queue, inQueue, limit, choice, retry, canceled>>

\* chooseAccount returns an error other than accountBusy.
SelectError(p) ==
    IF phase[p] = "account"
      THEN ReturnError(p)
      ELSE Goto(p, "return") /\ UNCHANGED <<waiting, queued, inQueue>>

\* The candidates are read from the database; the eligible ones that no
\* earlier attempt excluded are tried in turn.
Candidates(p) ==
    /\ pc[p] = "choose"
    /\ \E eligible \in SUBSET (Accounts \ excluded[p]) :
         todo' = [todo EXCEPT ![p] = eligible]
    /\ seen' = [seen EXCEPT ![p] = [a \in Accounts |-> config[a]]]
    /\ full' = [full EXCEPT ![p] = {}]
    /\ account' = [account EXCEPT ![p] = None]
    /\ Goto(p, "scan")
    /\ UNCHANGED <<shared, gate, db, wait, retry, held, defers, canceled>>

\* The candidates cannot be read.
CandidatesFail(p) ==
    /\ pc[p] = "choose"
    /\ SelectError(p)
    /\ UNCHANGED <<active, woken, gate, db, phase, queue, limit, choice, retry, held, defers, canceled>>

\* The first candidate found full names the queue of an account wait.
TryAccount(p) ==
    /\ pc[p] = "scan"
    /\ \E a \in todo[p] :
         /\ todo' = [todo EXCEPT ![p] = @ \ {a}]
         /\ \/ /\ CanTake(a, seen[p][a])
               /\ TakeSlot(p, a)
               /\ account' = [account EXCEPT ![p] = a]
               /\ Goto(p, "recheck")
               /\ UNCHANGED <<full, queue>>
            \/ /\ ~CanTake(a, seen[p][a])
               /\ full' = [full EXCEPT ![p] = IF seen[p][a] > 0 THEN @ \cup {a} ELSE @]
               /\ queue' = IF phase[p] = "direct" /\ full[p] = {} /\ seen[p][a] > 0
                             THEN [queue EXCEPT ![p] = a] ELSE queue
               /\ UNCHANGED <<active, held, account, pc>>
    /\ UNCHANGED <<waiting, queued, woken, gate, db, phase, inQueue, limit, seen, retry, defers, canceled>>

\* The cost is read again under the slot; an account that is no longer
\* profitable gives its slot back and the scan goes on.  So does a failed
\* read, which ends chooseAccount.
RecheckProfit(p) ==
    /\ pc[p] = "recheck"
    /\ \/ Goto(p, "chosen") /\ UNCHANGED <<shared, held, inQueue, account>>
       \/ /\ ReleaseSlot(p, account[p])
          /\ account' = [account EXCEPT ![p] = None]
          /\ \/ Goto(p, "scan") /\ UNCHANGED <<waiting, queued, inQueue>>
             \/ SelectError(p)
    /\ UNCHANGED <<gate, db, phase, queue, limit, todo, seen, full, retry, defers, canceled>>

\* The scan ends without an account: wait for the busy ones, if any.
NoAccount(p) ==
    /\ pc[p] = "scan" /\ todo[p] = {}
    /\ \/ /\ full[p] # {}
          /\ Goto(p, IF phase[p] = "direct" THEN "check" ELSE "enqueue")
          /\ phase' = [phase EXCEPT ![p] = "account"]
          /\ UNCHANGED <<waiting, queued, inQueue>>
       \/ /\ full[p] = {}
          /\ SelectError(p)
          /\ UNCHANGED phase
    /\ UNCHANGED <<active, woken, gate, db, queue, limit, choice, retry, held, defers, canceled>>

\* Mutant: an account chosen for a request that is gone is not released.
ChosenLeaks(p) ==
    /\ pc[p] = "chosen"
    /\ \/ /\ phase[p] = "account" /\ p \in canceled
          /\ account' = [account EXCEPT ![p] = None]
          /\ Goto(p, "check")
          /\ UNCHANGED <<shared, held, inQueue>>
       \/ /\ phase[p] = "direct" \/ p \notin canceled
          /\ LeaveQueue(p, "preflight")
          /\ UNCHANGED <<active, held, woken, account>>
    /\ UNCHANGED <<phase, queue, limit, todo, seen, full, gate, db, retry, defers, canceled>>

\* The context of the wait may have ended while the account was chosen.  The
\* locals of chooseAccount and of the wait are gone when the attempt goes on.
Chosen(p) ==
    /\ pc[p] = "chosen"
    /\ \/ /\ phase[p] = "account" /\ p \in canceled
          /\ ReleaseSlot(p, account[p])
          /\ account' = [account EXCEPT ![p] = None]
          /\ Goto(p, "check")
          /\ UNCHANGED <<waiting, queued, wait, todo, seen, full>>
       \/ /\ phase[p] = "direct" \/ p \notin canceled
          /\ LeaveQueue(p, "preflight")
          /\ phase' = [phase EXCEPT ![p] = "direct"]
          /\ queue' = [queue EXCEPT ![p] = UserOf[p]]
          /\ limit' = [limit EXCEPT ![p] = 0]
          /\ todo' = [todo EXCEPT ![p] = {}]
          /\ seen' = [seen EXCEPT ![p] = [a \in Accounts |-> 0]]
          /\ full' = [full EXCEPT ![p] = {}]
          /\ UNCHANGED <<active, held, woken, account>>
    /\ UNCHANGED <<gate, db, retry, defers, canceled>>

-----------------------------------------------------------------------------
(* The attempt loop of textGateway                                         *)

\* Every early return of the loop gives the account slot back itself.
GiveUp(p, label) ==
    /\ ReleaseSlot(p, account[p])
    /\ account' = [account EXCEPT ![p] = None]
    /\ Goto(p, label)

\* Pricing, policy and conversion checks.
Preflight(p) ==
    /\ pc[p] = "preflight"
    /\ \/ Goto(p, "dispatch") /\ UNCHANGED <<active, held, woken, account>>
       \/ GiveUp(p, "return")
    /\ UNCHANGED <<waiting, queued, gate, db, wait, todo, seen, full, retry, defers, canceled>>

\* Admission is checked last: nothing is sent upstream after a stop.  The
\* request limit and the session binding may still refuse.
Dispatch(p) ==
    /\ pc[p] = "dispatch"
    /\ \/ ~Closed /\ p \notin canceled /\ Goto(p, "upstream") /\ UNCHANGED <<active, held, woken, account>>
       \/ GiveUp(p, "return")
    /\ UNCHANGED <<waiting, queued, gate, db, wait, todo, seen, full, retry, defers, canceled>>

\* The upstream accepts, fails for good, or rejects in a way that excludes
\* the account and lets the next attempt choose another.
Upstream(p) ==
    /\ pc[p] = "upstream"
    /\ \/ /\ Goto(p, "settle")
          /\ defers' = [defers EXCEPT ![p] = @ \cup {account[p]}]
          /\ UNCHANGED <<active, held, woken, account, retry>>
       \/ GiveUp(p, "return") /\ UNCHANGED <<defers, retry>>
       \/ /\ GiveUp(p, IF attempt[p] + 1 < MaxAttempts THEN "choose" ELSE "return")
          /\ excluded' = [excluded EXCEPT ![p] = @ \cup {account[p]}]
          /\ attempt' = [attempt EXCEPT ![p] = @ + 1]
          /\ UNCHANGED defers
    /\ UNCHANGED <<waiting, queued, gate, db, wait, todo, seen, full, canceled>>

\* Forwarding and settlement keep every slot, also across a stop.
Settle(p) ==
    /\ pc[p] = "settle"
    /\ Goto(p, "return")
    /\ UNCHANGED <<shared, gate, db, wait, choice, retry, held, defers, canceled>>

\* Deferred releases run last in, first out: account, key, user.
RunDefers(p) ==
    /\ pc[p] = "return"
    /\ \/ \E s \in defers[p] :
            /\ s \in Accounts \/ defers[p] \cap Accounts = {}
            /\ s \in Users => defers[p] = {s}
            /\ ReleaseSlot(p, s)
            /\ defers' = [defers EXCEPT ![p] = @ \ {s}]
            /\ UNCHANGED pc
       \/ /\ defers[p] = {}
          /\ Goto(p, "done")
          /\ UNCHANGED <<active, held, woken, defers>>
    /\ UNCHANGED <<waiting, queued, gate, db, wait, choice, retry, canceled>>

-----------------------------------------------------------------------------
(* Surroundings                                                            *)

\* The client goes away or a deadline passes.
Cancel(p) ==
    /\ pc[p] \notin {"new", "return", "done"} /\ p \notin canceled
    /\ canceled' = canceled \cup {p}
    /\ UNCHANGED <<shared, gate, db, pc, wait, choice, retry, held, defers>>

\* Mutant: waiters are not woken.
StopAdmissionSilently ==
    /\ ~stopped
    /\ stopped' = TRUE
    /\ UNCHANGED <<shared, lost, db, pc, wait, choice, retry, held, defers, canceled>>

StopAdmission ==
    /\ ~stopped
    /\ stopped' = TRUE
    /\ WakeAll
    /\ UNCHANGED <<active, waiting, queued, lost, db, pc, wait, choice, retry, held, defers, canceled>>

\* A ping of the lock connection fails; checkInstance stops admission next.
LoseInstance ==
    /\ ~lost
    /\ lost' = TRUE
    /\ UNCHANGED <<shared, stopped, db, pc, wait, choice, retry, held, defers, canceled>>

SetLimit(k, n) ==
    /\ changes < MaxChanges
    /\ changes' = changes + 1
    /\ config' = [config EXCEPT ![k] = n]
    /\ ceiling' = [ceiling EXCEPT ![k] = IF n > @ THEN n ELSE @]
    /\ UNCHANGED <<shared, gate, pc, wait, choice, retry, held, defers, canceled>>

Wait(p) ==
    \/ Check(p) \/ Reauthorize(p) \/ TakeUser(p) \/ UserGranted(p)
    \/ Revalidate(p) \/ AttemptFails(p) \/ Enqueue(p) \/ WaitSignal(p)

Select(p) ==
    \/ TrackKey(p) \/ Candidates(p) \/ CandidatesFail(p) \/ TryAccount(p) \/ RecheckProfit(p) \/ NoAccount(p) \/ Chosen(p)

Serve(p) == Preflight(p) \/ Dispatch(p) \/ Upstream(p) \/ Settle(p) \/ RunDefers(p)

Next ==
    \/ \E p \in Requests : Arrive(p) \/ Wait(p) \/ Select(p) \/ Serve(p) \/ WaitTick(p) \/ WaitPingFails(p) \/ Cancel(p)
    \/ StopAdmission \/ LoseInstance
    \/ \E k \in Queues, n \in Limits : SetLimit(k, n)

Spec == Init /\ [][Next]_vars

\* Goroutines are scheduled, database calls end, and checkInstance calls
\* StopAdmission after it marked the instance lost.  Neither the ticker nor
\* the wait deadline is assumed, nor that any upstream request ever ends.
WaitFairness ==
    /\ \A p \in Requests : WF_vars(Wait(p)) /\ WF_vars(Select(p))
    /\ WF_vars(lost /\ StopAdmission)

WaitSpec == Spec /\ WaitFairness

\* Upstream requests end too: they have a timeout.
UpstreamsEnd == \A p \in Requests : WF_vars(Serve(p))

-----------------------------------------------------------------------------
(* Properties                                                              *)

\* Every counter of gatewayActive is the number of requests that hold the
\* slot, and a finished request holds none: each of the releases scattered
\* over waitAdmission, chooseAccount and textGateway happens exactly once.
SlotAccounting ==
    /\ \A s \in Slots : active[s] = Cardinality({p \in Requests : s \in held[p]})
    /\ \A p \in Requests : pc[p] \in {"new", "done"} => held[p] = {}

\* gatewayQueued and gatewayWaiting count the requests that are waiting, and
\* neither the queue of one user or account nor the whole exceeds its cap.
QueueAccounting ==
    /\ queued = Cardinality({p \in Requests : inQueue[p]})
    /\ queued <= TotalQueue
    /\ \A k \in Queues :
         /\ waiting[k] = Cardinality({p \in Requests : inQueue[p] /\ queue[p] = k})
         /\ waiting[k] <= QueueLimit(k)
    /\ \A p \in Requests : pc[p] \in {"new", "admitted", "preflight", "dispatch", "upstream", "settle", "return", "done"}
         => ~inQueue[p]

\* No user and no account ever has more requests in flight than the largest
\* limit it was given, although limits are read from the database long
\* before takeSlot compares them with the counter.
LimitRespected == \A k \in Queues : active[k] <= ceiling[k]

\* A request that sleeps in waitAdmission on a channel nobody has closed has
\* nothing to do: the gate is open and what it waits for is still full.  (A
\* lost instance is about to stop admission, which closes the channel.)
NoLostWakeup ==
    \A p \in Requests :
        pc[p] = "wait" /\ ~woken[p] =>
            /\ ~stopped
            /\ \/ lost
               \/ phase[p] = "user" /\ active[UserOf[p]] >= limit[p]
               \/ phase[p] = "account" /\ full[p] # {} /\ \A a \in full[p] : active[a] >= seen[p][a]

\* After StopAdmission every queue empties without waiting for a ticker, a
\* deadline or a release.
StopDrains == stopped ~> queued = 0

\* If upstream requests end, every request that enters waitAdmission is
\* answered and gives up its slots, woken by releases alone: the broadcast leaves nobody behind, and
\* requests that wait for an account while they hold a user slot cannot
\* block one another for ever.
EveryRequestReturns == UpstreamsEnd => \A p \in Requests : pc[p] = "check" ~> pc[p] = "done"
=============================================================================
