-------------------------- MODULE Admission_proofs --------------------------
(***************************************************************************)
(* Proofs about Admission for any finite set of requests, any users,       *)
(* accounts, keys, limits, queue caps and administrator changes.           *)
(***************************************************************************)
EXTENDS Admission, FiniteSetTheorems, TLAPS

(***************************************************************************)
(* The counters are exact only because a request takes a slot it does not  *)
(* hold and releases one it holds.  HeldOK and DefersOK say for every      *)
(* point of the handler what the request holds and what its deferred       *)
(* releases will give back; PhaseOK and QueueOK tie that to the wait it is *)
(* in.                                                                     *)
(***************************************************************************)
PhaseOK(p) ==
    /\ pc[p] \in {"check", "attempt", "take", "enqueue", "wait"} => phase[p] \in {"user", "account"}
    /\ pc[p] \in {"new", "granted", "admitted"} => phase[p] = "user"
    /\ pc[p] \in {"choose", "scan", "recheck", "chosen"} => phase[p] \in {"direct", "account"}
    /\ pc[p] \in {"preflight", "dispatch", "upstream", "settle"} => phase[p] = "direct"

QueueOK(p) ==
    inQueue[p] =>
        /\ phase[p] \in {"user", "account"}
        /\ pc[p] \notin {"new", "admitted", "preflight", "dispatch", "upstream", "settle", "return", "done"}

DefersOK(p) ==
    /\ phase[p] = "user" /\ pc[p] \notin {"admitted", "return", "done"} => defers[p] = {}
    /\ pc[p] = "admitted" => defers[p] = {UserOf[p]}
    /\ phase[p] # "user" /\ pc[p] \notin {"settle", "return", "done"} => defers[p] = {UserOf[p], KeyOf[p]}
    /\ pc[p] = "done" => defers[p] = {}

HasAccount == {"recheck", "chosen", "preflight", "dispatch", "upstream"}

HeldOK(p) ==
    /\ pc[p] \in HasAccount => account[p] \in Accounts /\ held[p] = defers[p] \cup {account[p]}
    /\ pc[p] = "granted" => held[p] = {UserOf[p]}
    /\ pc[p] \notin HasAccount \cup {"granted"} => held[p] = defers[p]

Holders(s) == {p \in Requests : s \in held[p]}

SlotCount == \A s \in Slots : active[s] = Cardinality(Holders(s))

Queued == {p \in Requests : inQueue[p]}
QueuedFor(k) == {p \in Requests : inQueue[p] /\ queue[p] = k}

QueueCount ==
    /\ queued = Cardinality(Queued)
    /\ queued <= TotalQueue
    /\ \A k \in Queues : waiting[k] = Cardinality(QueuedFor(k)) /\ waiting[k] <= QueueLimit(k)

(* The limits in hand never exceed the largest ones ever configured.       *)
LimitInv ==
    /\ \A k \in Queues : config[k] <= ceiling[k]
    /\ \A p \in Requests : limit[p] <= ceiling[UserOf[p]]
    /\ \A p \in Requests, a \in Accounts : seen[p][a] <= ceiling[a]

(* From the moment a request has fetched the wake channel until the channel *)
(* is closed, what its attempt found full stays full.                      *)
WakeOK(p) ==
    /\ ~woken[p] /\ (\/ pc[p] \in {"attempt", "take", "enqueue", "wait"}
                     \/ phase[p] = "account" /\ pc[p] \in {"choose", "scan", "recheck", "chosen"})
         => ~stopped
    /\ ~woken[p] /\ phase[p] = "user" /\ pc[p] \in {"enqueue", "wait"}
         => lost \/ active[UserOf[p]] >= limit[p]
    /\ ~woken[p] /\ phase[p] = "account" /\ pc[p] \in {"scan", "recheck", "chosen", "enqueue", "wait"}
         => lost \/ \A a \in full[p] : active[a] >= seen[p][a]
    /\ phase[p] = "account" /\ pc[p] \in {"enqueue", "wait"} => full[p] # {}

ReqOK(p) == PhaseOK(p) /\ QueueOK(p) /\ DefersOK(p) /\ HeldOK(p) /\ WakeOK(p)

ReqInv == \A p \in Requests : ReqOK(p)

IInv == TypeOK /\ ReqInv /\ SlotCount /\ QueueCount /\ LimitInv /\ LimitRespected

\* What the assumption says of single users, accounts, keys and limits.
LEMMA Constants ==
  /\ \A p \in Requests : /\ UserOf[p] \in Users /\ UserOf[p] \in Queues /\ UserOf[p] \in Slots
                         /\ KeyOf[p] \in Keys /\ KeyOf[p] \in Slots /\ KeyOf[p] \notin Queues
                         /\ UserOf[p] \notin Accounts /\ KeyOf[p] \notin Accounts /\ UserOf[p] # KeyOf[p]
  /\ \A a \in Accounts : a \in Slots /\ a \in Queues /\ a # None /\ a \notin Users
  /\ \A k \in Queues : k \in Slots
  /\ \A n \in Limits : n \in Nat
  BY AdmissionAssumption DEF Slots, Queues

\* A jump to a known label keeps the type of pc.
LEMMA GotoType ==
  ASSUME TypeOK, NEW p \in Requests, NEW label \in Labels, Goto(p, label)
  PROVE  pc' \in [Requests -> Labels]
  BY DEF TypeOK, Goto

-----------------------------------------------------------------------------
(* What a step of one request leaves alone                                 *)

\* Everything that belongs to the other requests.
Frame(p) ==
    \A q \in Requests \ {p} :
        /\ pc'[q] = pc[q] /\ phase'[q] = phase[q] /\ inQueue'[q] = inQueue[q] /\ queue'[q] = queue[q]
        /\ defers'[q] = defers[q] /\ held'[q] = held[q] /\ account'[q] = account[q]
        /\ limit'[q] = limit[q] /\ full'[q] = full[q] /\ seen'[q] = seen[q]

\* Either every channel is closed, or no slot is given back.
WakeFrame(p) ==
    \/ \A q \in Requests : woken'[q]
    \/ /\ \A q \in Requests \ {p} : woken'[q] = woken[q]
       /\ \A s \in Slots : active'[s] \in Nat /\ active'[s] >= active[s]
       /\ stopped' = stopped /\ lost' = lost

\* A step of one request keeps the invariant of every other request, unless it
\* frees a slot or closes the gate without waking.
LEMMA OthersKeep ==
  ASSUME TypeOK, ReqInv, NEW p \in Requests, Frame(p), WakeFrame(p), ReqOK(p)'
  PROVE  ReqInv'
<1> SUFFICES ASSUME NEW q \in Requests, q # p
             PROVE  ReqOK(q)'
  BY DEF ReqInv
<1>1. (PhaseOK(q) /\ QueueOK(q) /\ DefersOK(q) /\ HeldOK(q))'
  BY DEF ReqInv, ReqOK, Frame, PhaseOK, QueueOK, DefersOK, HeldOK
<1>2. CASE \A r \in Requests : woken'[r]
  BY <1>1, <1>2 DEF ReqInv, ReqOK, Frame, WakeOK
<1>3. CASE ~ \A r \in Requests : woken'[r]
  <2>1. /\ woken'[q] = woken[q] /\ stopped' = stopped /\ lost' = lost
        /\ \A s \in Slots : active'[s] \in Nat /\ active'[s] >= active[s]
    BY <1>3 DEF WakeFrame
  <2>2. /\ UserOf[q] \in Slots /\ active[UserOf[q]] \in Nat /\ limit[q] \in Nat
        /\ \A a \in full[q] : a \in Slots /\ active[a] \in Nat /\ seen[q][a] \in Nat
    BY Constants DEF TypeOK
  <2>3. WakeOK(q)'
    BY <2>1, <2>2 DEF ReqInv, ReqOK, Frame, WakeOK
  <2> QED
    BY <1>1, <2>3 DEF ReqOK
<1> QED
  BY <1>2, <1>3

\* A step that changes no configuration keeps the bounds on the limits in hand.
LEMMA LimitsKeep ==
  ASSUME TypeOK, LimitInv, LimitRespected, NEW p \in Requests, Frame(p),
         config' = config, ceiling' = ceiling,
         limit'[p] = limit[p] \/ limit'[p] = 0 \/ limit'[p] = config[UserOf[p]],
         \A a \in Accounts : seen'[p][a] = seen[p][a] \/ seen'[p][a] = 0 \/ seen'[p][a] = config[a],
         \A k \in Queues : active'[k] <= ceiling[k]
  PROVE  (LimitInv /\ LimitRespected)'
<1>1. limit'[p] <= ceiling[UserOf[p]]
  <2>1. UserOf[p] \in Queues /\ ceiling[UserOf[p]] \in Nat
    BY Constants DEF TypeOK
  <2> QED
    BY <2>1 DEF LimitInv
<1>2. ASSUME NEW a \in Accounts PROVE seen'[p][a] <= ceiling[a]
  <2>1. a \in Queues /\ ceiling[a] \in Nat
    BY Constants DEF TypeOK
  <2> QED
    BY <2>1 DEF LimitInv
<1> QED
  BY <1>1, <1>2 DEF LimitInv, LimitRespected, Frame

-----------------------------------------------------------------------------
(* Counting                                                                *)

\* Slot holders can be counted.
LEMMA HoldersFinite ==
  \A s \in Slots : IsFiniteSet(Holders(s)) /\ Cardinality(Holders(s)) \in Nat
  BY AdmissionAssumption, FS_Subset, FS_CardinalityType DEF Holders

\* A step that touches no slot keeps the count of holders.
LEMMA SlotsUnchanged ==
  ASSUME TypeOK, SlotCount, active' = active, held' = held
  PROVE  SlotCount' /\ active' \in [Slots -> Nat] /\ held' \in [Requests -> SUBSET Slots]
  BY DEF TypeOK, SlotCount, Holders

\* takeSlot by a request that does not hold the slot keeps the counter exact.
LEMMA TakeCounts ==
  ASSUME TypeOK, SlotCount, NEW p \in Requests, NEW s \in Slots, s \notin held[p], TakeSlot(p, s)
  PROVE  SlotCount' /\ active' \in [Slots -> Nat] /\ held' \in [Requests -> SUBSET Slots]
<1>1. active' \in [Slots -> Nat] /\ held' \in [Requests -> SUBSET Slots]
  BY DEF TypeOK, TakeSlot
<1>2. Holders(s)' = Holders(s) \cup {p} /\ p \notin Holders(s)
  BY DEF TypeOK, TakeSlot, Holders
<1>3. Cardinality(Holders(s)') = Cardinality(Holders(s)) + 1
  BY <1>2, HoldersFinite, FS_AddElement
<1>4. \A t \in Slots \ {s} : Holders(t)' = Holders(t)
  BY DEF TypeOK, TakeSlot, Holders
<1> QED
  BY <1>1, <1>3, <1>4 DEF TypeOK, TakeSlot, SlotCount

\* releaseSlot by a request that holds the slot keeps the counter exact.
LEMMA ReleaseCounts ==
  ASSUME TypeOK, SlotCount, NEW p \in Requests, NEW s \in Slots, s \in held[p], ReleaseSlot(p, s)
  PROVE  SlotCount' /\ active' \in [Slots -> Nat] /\ held' \in [Requests -> SUBSET Slots]
<1>1. active' \in [Slots -> Nat] /\ held' \in [Requests -> SUBSET Slots]
  BY DEF TypeOK, ReleaseSlot
<1>2. Holders(s)' = Holders(s) \ {p} /\ p \in Holders(s)
  BY DEF TypeOK, ReleaseSlot, Holders
<1>3. Cardinality(Holders(s)') = Cardinality(Holders(s)) - 1
  BY <1>2, HoldersFinite, FS_RemoveElement
<1>4. Cardinality(Holders(s)) > 0
  BY <1>2, HoldersFinite, FS_EmptySet
<1>5. \A t \in Slots \ {s} : Holders(t)' = Holders(t)
  BY DEF TypeOK, ReleaseSlot, Holders
<1> QED
  BY <1>1, <1>3, <1>4, <1>5 DEF TypeOK, ReleaseSlot, SlotCount

\* A release keeps what the invariant says about all other requests and limits.
LEMMA ReleaseStep ==
  ASSUME TypeOK, SlotCount, LimitRespected, NEW p \in Requests,
         UNCHANGED <<active, held, woken>> \/ \E s \in held[p] : ReleaseSlot(p, s)
  PROVE  /\ SlotCount' /\ active' \in [Slots -> Nat] /\ held' \in [Requests -> SUBSET Slots]
         /\ woken' \in [Requests -> BOOLEAN]
         /\ (\A q \in Requests : woken'[q]) \/ UNCHANGED <<active, woken>>
         /\ \A q \in Requests \ {p} : held'[q] = held[q]
         /\ \A k \in Queues : active'[k] <= ceiling[k]
<1>1. CASE UNCHANGED <<active, held, woken>>
  BY <1>1, SlotsUnchanged DEF TypeOK, LimitRespected
<1>2. CASE \E s \in held[p] : ReleaseSlot(p, s)
  <2>1. PICK s \in held[p] : ReleaseSlot(p, s)
    BY <1>2
  <2>2. s \in Slots
    BY DEF TypeOK
  <2>3. SlotCount' /\ active' \in [Slots -> Nat] /\ held' \in [Requests -> SUBSET Slots]
    BY <2>1, <2>2, ReleaseCounts
  <2>4. /\ woken' \in [Requests -> BOOLEAN] /\ \A q \in Requests : woken'[q]
        /\ \A q \in Requests \ {p} : held'[q] = held[q]
    BY <2>1 DEF TypeOK, ReleaseSlot, WakeAll
  <2>5. \A k \in Slots : active'[k] <= active[k]
    BY <2>1, <2>2 DEF TypeOK, ReleaseSlot
  <2>6. \A k \in Queues : active'[k] <= ceiling[k]
    BY <2>3, <2>5, Constants DEF TypeOK, LimitRespected
  <2> QED
    BY <2>3, <2>4, <2>6
<1> QED
  BY <1>1, <1>2

\* A slot taken below its limit keeps what the invariant says about other requests.
LEMMA TakeStep ==
  ASSUME TypeOK, SlotCount, LimitRespected, NEW p \in Requests,
         \/ UNCHANGED <<active, held>>
         \/ \E s \in Slots : s \notin held[p] /\ TakeSlot(p, s) /\ (s \in Queues => active[s] < ceiling[s])
  PROVE  /\ SlotCount' /\ active' \in [Slots -> Nat] /\ held' \in [Requests -> SUBSET Slots]
         /\ \A t \in Slots : active'[t] \in Nat /\ active'[t] >= active[t]
         /\ \A q \in Requests \ {p} : held'[q] = held[q]
         /\ \A k \in Queues : active'[k] <= ceiling[k]
<1>1. CASE UNCHANGED <<active, held>>
  BY <1>1, SlotsUnchanged DEF TypeOK, LimitRespected
<1>2. CASE \E s \in Slots : s \notin held[p] /\ TakeSlot(p, s) /\ (s \in Queues => active[s] < ceiling[s])
  <2>1. PICK s \in Slots : s \notin held[p] /\ TakeSlot(p, s) /\ (s \in Queues => active[s] < ceiling[s])
    BY <1>2
  <2>2. SlotCount' /\ active' \in [Slots -> Nat] /\ held' \in [Requests -> SUBSET Slots]
    BY <2>1, TakeCounts
  <2>3. /\ \A t \in Slots : active'[t] \in Nat /\ active'[t] >= active[t]
        /\ \A t \in Slots \ {s} : active'[t] = active[t]
        /\ active'[s] = active[s] + 1
        /\ \A q \in Requests \ {p} : held'[q] = held[q]
    BY <2>1 DEF TypeOK, TakeSlot
  <2>4. \A k \in Queues : active'[k] <= ceiling[k]
    <3> SUFFICES ASSUME NEW k \in Queues PROVE active'[k] <= ceiling[k]
      OBVIOUS
    <3>1. k \in Slots /\ active[k] \in Nat /\ ceiling[k] \in Nat /\ active[k] <= ceiling[k]
      BY Constants DEF TypeOK, LimitRespected
    <3>2. CASE k = s
      BY <2>1, <2>3, <3>1, <3>2
    <3>3. CASE k # s
      BY <2>3, <3>1, <3>3
    <3> QED
      BY <3>2, <3>3
  <2> QED
    BY <2>2, <2>3, <2>4
<1> QED
  BY <1>1, <1>2

(* A request with an account holds it besides its deferred slots.          *)
LEMMA AccountHeld ==
  ASSUME TypeOK, ReqInv, NEW p \in Requests, pc[p] \in HasAccount
  PROVE  /\ account[p] \in Accounts /\ account[p] \in held[p]
         /\ held[p] \ {account[p]} = defers[p] /\ held[p] = defers[p] \cup {account[p]}
         /\ defers[p] = {UserOf[p], KeyOf[p]}
<1>1. /\ account[p] \in Accounts /\ held[p] = defers[p] \cup {account[p]}
      /\ phase[p] \in {"direct", "account"}
  BY DEF ReqInv, ReqOK, HeldOK, PhaseOK, HasAccount
<1>2. defers[p] = {UserOf[p], KeyOf[p]}
  BY <1>1 DEF ReqInv, ReqOK, DefersOK, HasAccount
<1> QED
  BY <1>1, <1>2, Constants

(* When it gives the account back, only the deferred slots are left.       *)
LEMMA GivenBack ==
  ASSUME TypeOK, ReqInv, NEW p \in Requests, pc[p] \in HasAccount, ReleaseSlot(p, account[p]),
         NEW label \in {"return", "choose", "scan", "check"}, Goto(p, label),
         phase' = phase, defers' = defers, (PhaseOK(p) /\ QueueOK(p))'
  PROVE  ReqOK(p)'
<1>1. pc'[p] = label /\ held'[p] = defers'[p] /\ woken'[p]
  BY AccountHeld DEF TypeOK, Goto, ReleaseSlot, WakeAll
<1>2. HeldOK(p)' /\ WakeOK(p)'
  BY <1>1 DEF HeldOK, WakeOK, HasAccount
<1>3. DefersOK(p)'
  BY <1>1, AccountHeld DEF DefersOK, ReqInv, ReqOK, PhaseOK, HasAccount
<1> QED
  BY <1>2, <1>3 DEF ReqOK

\* Queued requests can be counted.
LEMMA QueuesFinite ==
  /\ IsFiniteSet(Queued) /\ Cardinality(Queued) \in Nat
  /\ \A k \in Queues : IsFiniteSet(QueuedFor(k)) /\ Cardinality(QueuedFor(k)) \in Nat
  BY AdmissionAssumption, FS_Subset, FS_CardinalityType DEF Queued, QueuedFor

\* A step that touches no queue keeps the counts of waiters.
LEMMA QueuesUnchanged ==
  ASSUME TypeOK, QueueCount, UNCHANGED <<waiting, queued, inQueue>>,
         \A q \in Requests : inQueue[q] => queue'[q] = queue[q]
  PROVE  QueueCount' /\ waiting' \in [Queues -> Nat] /\ queued' \in Nat /\ inQueue' \in [Requests -> BOOLEAN]
<1>1. Queued' = Queued /\ \A k \in Queues : QueuedFor(k)' = QueuedFor(k)
  BY DEF Queued, QueuedFor
<1> QED
  BY <1>1 DEF TypeOK, QueueCount

\* The deferred function of waitAdmission keeps the queue counters exact.
LEMMA LeaveCounts ==
  ASSUME TypeOK, QueueCount, NEW p \in Requests, NEW label, LeaveQueue(p, label),
         \A q \in Requests : q # p => queue'[q] = queue[q]
  PROVE  QueueCount' /\ waiting' \in [Queues -> Nat] /\ queued' \in Nat /\ inQueue' \in [Requests -> BOOLEAN]
<1>1. CASE ~inQueue[p]
  <2>1. /\ waiting' = waiting /\ queued' = queued
        /\ Queued' = Queued /\ \A k \in Queues : QueuedFor(k)' = QueuedFor(k)
    BY <1>1 DEF TypeOK, LeaveQueue, Queued, QueuedFor
  <2> QED
    BY <2>1 DEF TypeOK, QueueCount, LeaveQueue
<1>2. CASE inQueue[p]
  <2>1. PICK k \in Queues : k = queue[p]
    BY DEF TypeOK
  <2>2. inQueue' = [inQueue EXCEPT ![p] = FALSE] /\ queued' = queued - 1 /\ waiting' = [waiting EXCEPT ![k] = @ - 1]
    BY <1>2, <2>1 DEF LeaveQueue
  <2>3. Queued' = Queued \ {p} /\ p \in Queued
    BY <1>2, <2>1, <2>2 DEF TypeOK, Queued
  <2>4. QueuedFor(k)' = QueuedFor(k) \ {p} /\ p \in QueuedFor(k)
    BY <1>2, <2>1, <2>2 DEF TypeOK, QueuedFor
  <2>5. \A j \in Queues \ {k} : QueuedFor(j)' = QueuedFor(j)
    BY <1>2, <2>1, <2>2 DEF TypeOK, QueuedFor
  <2>6. Cardinality(Queued') = Cardinality(Queued) - 1 /\ Cardinality(Queued) > 0
    BY <2>3, QueuesFinite, FS_RemoveElement, FS_EmptySet
  <2>7. /\ Cardinality(QueuedFor(k)') = Cardinality(QueuedFor(k)) - 1
        /\ Cardinality(QueuedFor(k)) > 0
    <3>1. IsFiniteSet(QueuedFor(k)) /\ Cardinality(QueuedFor(k)) \in Nat
      BY QueuesFinite
    <3>2. Cardinality(QueuedFor(k)) # 0
      BY <3>1, <2>4, FS_EmptySet
    <3>3. Cardinality(QueuedFor(k) \ {p}) = Cardinality(QueuedFor(k)) - 1
      BY <3>1, <2>4, FS_RemoveElement
    <3> QED
      BY <3>1, <3>2, <3>3, <2>4
  <2>8. \A j \in Queues : QueueLimit(j) \in Nat
    BY AdmissionAssumption DEF QueueLimit
  <2> QED
    BY <2>1, <2>2, <2>5, <2>6, <2>7, <2>8, AdmissionAssumption DEF TypeOK, QueueCount
<1> QED
  BY <1>1, <1>2 DEF TypeOK

\* Entering a queue below its caps keeps the queue counters exact and bounded.
LEMMA EnterCounts ==
  ASSUME TypeOK, QueueCount, NEW p \in Requests, ~inQueue[p],
         waiting[queue[p]] < QueueLimit(queue[p]), queued < TotalQueue,
         waiting' = [waiting EXCEPT ![queue[p]] = @ + 1], queued' = queued + 1,
         inQueue' = [inQueue EXCEPT ![p] = TRUE], queue' = queue
  PROVE  QueueCount' /\ waiting' \in [Queues -> Nat] /\ queued' \in Nat /\ inQueue' \in [Requests -> BOOLEAN]
<1>1. PICK k \in Queues : k = queue[p]
  BY DEF TypeOK
<1>2. /\ Queued' = Queued \cup {p} /\ p \notin Queued
      /\ QueuedFor(k)' = QueuedFor(k) \cup {p} /\ p \notin QueuedFor(k)
      /\ \A j \in Queues \ {k} : QueuedFor(j)' = QueuedFor(j)
  BY <1>1 DEF TypeOK, Queued, QueuedFor
<1>3. /\ Cardinality(Queued') = Cardinality(Queued) + 1
      /\ Cardinality(QueuedFor(k)') = Cardinality(QueuedFor(k)) + 1
  BY <1>1, <1>2, QueuesFinite, FS_AddElement
<1>4. \A j \in Queues : QueueLimit(j) \in Nat
  BY AdmissionAssumption DEF QueueLimit
<1>5. /\ waiting' \in [Queues -> Nat] /\ waiting'[k] = waiting[k] + 1 /\ waiting'[k] <= QueueLimit(k)
      /\ \A j \in Queues \ {k} : waiting'[j] = waiting[j]
  BY <1>1, <1>4 DEF TypeOK
<1>6. queued' \in Nat /\ inQueue' \in [Requests -> BOOLEAN] /\ queued' = Cardinality(Queued') /\ queued' <= TotalQueue
  BY <1>3, AdmissionAssumption DEF TypeOK, QueueCount
<1>7. \A j \in Queues : waiting'[j] = Cardinality(QueuedFor(j)') /\ waiting'[j] <= QueueLimit(j)
  BY <1>2, <1>3, <1>5 DEF QueueCount
<1> QED
  BY <1>5, <1>6, <1>7 DEF QueueCount

-----------------------------------------------------------------------------
(* Initial states and steps                                                *)

\* Before the first request every counter is zero.
LEMMA InitInv == Init => IInv
<1> SUFFICES ASSUME Init PROVE IInv
  OBVIOUS
<1> USE AdmissionAssumption
<1>1. TypeOK
  <2>1. config \in [Queues -> Nat] /\ ceiling \in [Queues -> Nat] /\ changes \in 0..MaxChanges
    BY DEF Init, Queues
  <2>2. /\ pc \in [Requests -> Labels] /\ queue \in [Requests -> Queues] /\ attempt \in [Requests -> 0..MaxAttempts]
    BY Constants DEF Init, Labels
  <2>3. /\ active \in [Slots -> Nat] /\ waiting \in [Queues -> Nat] /\ queued \in Nat
        /\ woken \in [Requests -> BOOLEAN] /\ inQueue \in [Requests -> BOOLEAN]
        /\ stopped \in BOOLEAN /\ lost \in BOOLEAN
    BY DEF Init
  <2>4. /\ limit \in [Requests -> Nat] /\ seen \in [Requests -> [Accounts -> Nat]]
        /\ phase \in [Requests -> {"user", "direct", "account"}]
        /\ account \in [Requests -> Accounts \cup {None}] /\ canceled \subseteq Requests
    BY DEF Init
  <2>5. /\ todo \in [Requests -> SUBSET Accounts] /\ full \in [Requests -> SUBSET Accounts]
        /\ excluded \in [Requests -> SUBSET Accounts]
        /\ held \in [Requests -> SUBSET Slots] /\ defers \in [Requests -> SUBSET Slots]
    BY DEF Init
  <2> QED
    BY <2>1, <2>2, <2>3, <2>4, <2>5 DEF TypeOK
<1>2. ReqInv
  BY DEF Init, ReqInv, ReqOK, PhaseOK, QueueOK, DefersOK, HeldOK, HasAccount, WakeOK
<1>3. \A s \in Slots : Holders(s) = {}
  BY DEF Init, Holders
<1>4. SlotCount
  BY <1>3, FS_EmptySet DEF Init, SlotCount
<1>5. Queued = {} /\ \A k \in Queues : QueuedFor(k) = {}
  BY DEF Init, Queued, QueuedFor
<1>6. QueueCount
  <2>1. \A k \in Queues : QueueLimit(k) \in Nat
    BY DEF QueueLimit
  <2>2. queued = 0 /\ \A k \in Queues : waiting[k] = 0
    BY DEF Init
  <2>3. Cardinality(Queued) = 0 /\ \A k \in Queues : Cardinality(QueuedFor(k)) = 0
    BY <1>5, FS_EmptySet
  <2> QED
    BY <2>1, <2>2, <2>3 DEF QueueCount
<1>7. LimitInv /\ LimitRespected
  BY DEF Init, LimitInv, LimitRespected, Slots, Queues
<1> QED
  BY <1>1, <1>2, <1>4, <1>6, <1>7 DEF IInv

\* A request arrives with no slot and outside every queue.
LEMMA ArriveInv ==
  ASSUME IInv, NEW p \in Requests, Arrive(p)
  PROVE  IInv'
<1> USE DEF IInv, Arrive, shared, gate, db, wait, choice, retry, Goto
<1>1. SlotCount' /\ active' \in [Slots -> Nat] /\ held' \in [Requests -> SUBSET Slots]
  BY SlotsUnchanged DEF TypeOK
<1>2. QueueCount' /\ waiting' \in [Queues -> Nat] /\ queued' \in Nat /\ inQueue' \in [Requests -> BOOLEAN]
  BY QueuesUnchanged DEF TypeOK, ReqInv, ReqOK, QueueOK, PhaseOK
<1>3. TypeOK'
  BY <1>1, <1>2, Constants DEF TypeOK, Labels
<1>4. Frame(p) /\ WakeFrame(p)
  BY <1>1 DEF TypeOK, Frame, WakeFrame
<1>5. ReqOK(p)'
  <2>1. phase[p] = "user" /\ ~inQueue[p] /\ defers[p] = {} /\ held[p] = {}
    BY DEF ReqInv, ReqOK, PhaseOK, QueueOK, DefersOK, HeldOK, HasAccount
  <2>2. pc'[p] \in {"return", "check"}
    BY DEF TypeOK
  <2> QED
    BY <2>1, <2>2 DEF ReqOK, PhaseOK, QueueOK, DefersOK, HeldOK, HasAccount, WakeOK
<1>6. (LimitInv /\ LimitRespected)'
  BY <1>1, <1>4, LimitsKeep, Constants DEF TypeOK, LimitInv, LimitRespected
<1> QED
  BY <1>1, <1>2, <1>3, <1>4, <1>5, <1>6, OthersKeep

\* The check of context and gate leaves the queue or fetches a new wake channel.
LEMMA CheckInv ==
  ASSUME IInv, NEW p \in Requests, Check(p)
  PROVE  IInv'
<1> USE DEF IInv, Check, shared, gate, db, wait, choice, retry, Closed, Goto
<1>1. SlotCount' /\ active' \in [Slots -> Nat] /\ held' \in [Requests -> SUBSET Slots]
  BY SlotsUnchanged DEF TypeOK
<1>2. QueueCount' /\ waiting' \in [Queues -> Nat] /\ queued' \in Nat /\ inQueue' \in [Requests -> BOOLEAN]
  BY QueuesUnchanged, LeaveCounts DEF TypeOK, ReqInv, ReqOK, QueueOK, PhaseOK
<1>3. TypeOK'
  BY <1>1, <1>2, Constants DEF TypeOK, Labels, LeaveQueue
<1>4. Frame(p) /\ WakeFrame(p)
  BY <1>1 DEF TypeOK, Frame, WakeFrame, LeaveQueue
<1>5. ReqOK(p)'
  <2>1. (PhaseOK(p) /\ QueueOK(p))'
    BY DEF TypeOK, ReqInv, ReqOK, PhaseOK, QueueOK, LeaveQueue
  <2>2. (DefersOK(p) /\ HeldOK(p))'
    BY DEF TypeOK, ReqInv, ReqOK, PhaseOK, DefersOK, HeldOK, HasAccount, LeaveQueue
  <2>3. WakeOK(p)'
    BY Constants DEF TypeOK, ReqInv, ReqOK, PhaseOK, WakeOK, LeaveQueue
  <2> QED
    BY <2>1, <2>2, <2>3 DEF ReqOK
<1>6. (LimitInv /\ LimitRespected)'
  BY <1>1, <1>4, LimitsKeep, Constants DEF TypeOK, LimitInv, LimitRespected, LeaveQueue
<1> QED
  BY <1>1, <1>2, <1>3, <1>4, <1>5, <1>6, OthersKeep

\* Authenticating again reads a limit no larger than the largest ever set.
LEMMA ReauthorizeInv ==
  ASSUME IInv, NEW p \in Requests, Reauthorize(p)
  PROVE  IInv'
<1> USE DEF IInv, Reauthorize, shared, gate, db, wait, choice, retry, Goto
<1>1. SlotCount' /\ active' \in [Slots -> Nat] /\ held' \in [Requests -> SUBSET Slots]
  BY SlotsUnchanged DEF TypeOK
<1>2. QueueCount' /\ waiting' \in [Queues -> Nat] /\ queued' \in Nat /\ inQueue' \in [Requests -> BOOLEAN]
  BY QueuesUnchanged DEF TypeOK, ReqInv, ReqOK, QueueOK, PhaseOK
<1>3. TypeOK'
  BY <1>1, <1>2, Constants DEF TypeOK, Labels
<1>4. Frame(p) /\ WakeFrame(p)
  BY <1>1 DEF TypeOK, Frame, WakeFrame
<1>5. ReqOK(p)'
  <2>1. (PhaseOK(p) /\ QueueOK(p))'
    BY DEF TypeOK, ReqInv, ReqOK, PhaseOK, QueueOK
  <2>2. (DefersOK(p) /\ HeldOK(p))'
    BY DEF TypeOK, ReqInv, ReqOK, PhaseOK, DefersOK, HeldOK, HasAccount
  <2>3. WakeOK(p)'
    BY Constants DEF TypeOK, ReqInv, ReqOK, PhaseOK, WakeOK
  <2> QED
    BY <2>1, <2>2, <2>3 DEF ReqOK
<1>6. (LimitInv /\ LimitRespected)'
  BY <1>1, <1>4, LimitsKeep, Constants DEF TypeOK, LimitInv, LimitRespected
<1> QED
  BY <1>1, <1>2, <1>3, <1>4, <1>5, <1>6, OthersKeep

\* The user slot is taken below the limit, or found full after the channel was fetched.
LEMMA TakeUserInv ==
  ASSUME IInv, NEW p \in Requests, TakeUser(p)
  PROVE  IInv'
<1> USE DEF IInv, shared, gate, db, wait, choice, retry
<1>1. held[p] = {} /\ defers[p] = {} /\ UserOf[p] \in Slots
      /\ limit[p] \in Nat /\ limit[p] <= ceiling[UserOf[p]] /\ ceiling[UserOf[p]] \in Nat /\ active[UserOf[p]] \in Nat
  BY Constants DEF TypeOK, TakeUser, ReqInv, ReqOK, DefersOK, HeldOK, HasAccount, LimitInv
<1>2. \/ UNCHANGED <<active, held>>
      \/ \E s \in Slots : s \notin held[p] /\ TakeSlot(p, s) /\ (s \in Queues => active[s] < ceiling[s])
  BY <1>1 DEF TakeUser, CanTake
<1>3. /\ SlotCount' /\ active' \in [Slots -> Nat] /\ held' \in [Requests -> SUBSET Slots]
      /\ \A t \in Slots : active'[t] \in Nat /\ active'[t] >= active[t]
      /\ \A q \in Requests \ {p} : held'[q] = held[q]
      /\ \A k \in Queues : active'[k] <= ceiling[k]
  BY <1>2, TakeStep
<1>4. QueueCount' /\ waiting' \in [Queues -> Nat] /\ queued' \in Nat /\ inQueue' \in [Requests -> BOOLEAN]
  BY QueuesUnchanged DEF TypeOK, TakeUser
<1>5. TypeOK'
  BY <1>1, <1>3, <1>4, Constants DEF TypeOK, TakeUser, Goto, Labels
<1>6. Frame(p) /\ WakeFrame(p)
  BY <1>3 DEF TypeOK, Frame, WakeFrame, TakeUser, Goto
<1>7. ReqOK(p)'
  <2>1. PhaseOK(p)' /\ QueueOK(p)' /\ DefersOK(p)'
    BY DEF TakeUser, Goto, TypeOK, ReqInv, ReqOK, PhaseOK, QueueOK, DefersOK
  <2>2. HeldOK(p)'
    BY <1>1 DEF TakeUser, TakeSlot, Goto, TypeOK, HeldOK, HasAccount
  <2>3. WakeOK(p)'
    BY <1>1 DEF TakeUser, CanTake, Closed, Goto, TypeOK, ReqInv, ReqOK, WakeOK
  <2> QED
    BY <2>1, <2>2, <2>3 DEF ReqOK
<1>8. (LimitInv /\ LimitRespected)'
  BY <1>3, <1>6, LimitsKeep DEF TypeOK, TakeUser
<1> QED
  BY <1>3, <1>4, <1>5, <1>6, <1>7, <1>8, OthersKeep

\* A granted user slot is given back to a gone client or deferred.
LEMMA UserGrantedInv ==
  ASSUME IInv, NEW p \in Requests, UserGranted(p)
  PROVE  IInv'
<1> USE DEF IInv, shared, gate, db, wait, choice, retry
<1>1. held[p] = {UserOf[p]} /\ defers[p] = {} /\ phase[p] = "user"
  BY DEF TypeOK, UserGranted, ReqInv, ReqOK, PhaseOK, DefersOK, HeldOK
<1>2. UNCHANGED <<active, held, woken>> \/ \E s \in held[p] : ReleaseSlot(p, s)
  BY <1>1 DEF UserGranted
<1>3. /\ SlotCount' /\ active' \in [Slots -> Nat] /\ held' \in [Requests -> SUBSET Slots]
      /\ woken' \in [Requests -> BOOLEAN]
      /\ (\A q \in Requests : woken'[q]) \/ UNCHANGED <<active, woken>>
      /\ \A q \in Requests \ {p} : held'[q] = held[q]
      /\ \A k \in Queues : active'[k] <= ceiling[k]
  BY <1>2, ReleaseStep
<1>4. QueueCount' /\ waiting' \in [Queues -> Nat] /\ queued' \in Nat /\ inQueue' \in [Requests -> BOOLEAN]
  BY QueuesUnchanged, LeaveCounts DEF TypeOK, UserGranted
<1>5. TypeOK'
  <2>1. pc' \in [Requests -> Labels]
    <3>1. Goto(p, "check") \/ Goto(p, "admitted")
      BY DEF UserGranted, LeaveQueue
    <3> QED
      BY <3>1, GotoType DEF TypeOK, Labels
  <2>2. defers' \in [Requests -> SUBSET Slots]
    <3>1. defers[p] \in SUBSET Slots /\ UserOf[p] \in Slots /\ defers \in [Requests -> SUBSET Slots]
      BY Constants DEF TypeOK
    <3>2. defers' = defers \/ defers' = [defers EXCEPT ![p] = defers[p] \cup {UserOf[p]}]
      BY DEF UserGranted
    <3> QED
      BY <3>1, <3>2
  <2>3. UNCHANGED <<gate, db, phase, queue, limit, choice, retry, canceled>>
    BY DEF UserGranted
  <2> QED
    BY <1>3, <1>4, <2>1, <2>2, <2>3 DEF TypeOK
<1>6. Frame(p) /\ WakeFrame(p)
  BY <1>3 DEF TypeOK, Frame, WakeFrame, UserGranted, Goto, LeaveQueue
<1>7. ReqOK(p)'
  <2>1. CASE ReleaseSlot(p, UserOf[p]) /\ Goto(p, "check") /\ UNCHANGED <<inQueue, phase, defers>>
    <3>1. pc'[p] = "check" /\ held'[p] = {} /\ defers'[p] = {} /\ phase'[p] = "user" /\ woken'[p]
      BY <1>1, <2>1 DEF TypeOK, ReleaseSlot, WakeAll, Goto
    <3> QED
      BY <3>1 DEF ReqOK, PhaseOK, QueueOK, DefersOK, HeldOK, HasAccount, WakeOK
  <2>2. CASE LeaveQueue(p, "admitted") /\ defers' = [defers EXCEPT ![p] = @ \cup {UserOf[p]}] /\ UNCHANGED <<held, phase>>
    <3>1. pc'[p] = "admitted" /\ held'[p] = {UserOf[p]} /\ defers'[p] = {UserOf[p]} /\ phase'[p] = "user" /\ ~inQueue'[p]
      BY <1>1, <2>2 DEF TypeOK, LeaveQueue, Goto
    <3> QED
      BY <3>1 DEF ReqOK, PhaseOK, QueueOK, DefersOK, HeldOK, HasAccount, WakeOK
  <2> QED
    BY <2>1, <2>2 DEF UserGranted
<1>8. (LimitInv /\ LimitRespected)'
  BY <1>3, <1>6, LimitsKeep DEF TypeOK, UserGranted
<1> QED
  BY <1>3, <1>4, <1>5, <1>6, <1>7, <1>8, OthersKeep

\* Revalidation takes nothing.
LEMMA RevalidateInv ==
  ASSUME IInv, NEW p \in Requests, Revalidate(p)
  PROVE  IInv'
<1> USE DEF IInv, Revalidate, shared, gate, db, wait, choice, retry, FitsLimit, Goto
<1>1. SlotCount' /\ active' \in [Slots -> Nat] /\ held' \in [Requests -> SUBSET Slots]
  BY SlotsUnchanged DEF TypeOK
<1>2. QueueCount' /\ waiting' \in [Queues -> Nat] /\ queued' \in Nat /\ inQueue' \in [Requests -> BOOLEAN]
  BY QueuesUnchanged DEF TypeOK, ReqInv, ReqOK, QueueOK, PhaseOK
<1>3. TypeOK'
  BY <1>1, <1>2, Constants DEF TypeOK, Labels
<1>4. Frame(p) /\ WakeFrame(p)
  BY <1>1 DEF TypeOK, Frame, WakeFrame
<1>5. ReqOK(p)'
  <2>1. (PhaseOK(p) /\ QueueOK(p))'
    BY DEF TypeOK, ReqInv, ReqOK, PhaseOK, QueueOK
  <2>2. (DefersOK(p) /\ HeldOK(p))'
    BY DEF TypeOK, ReqInv, ReqOK, PhaseOK, DefersOK, HeldOK, HasAccount
  <2>3. WakeOK(p)'
    BY Constants DEF TypeOK, ReqInv, ReqOK, PhaseOK, WakeOK
  <2> QED
    BY <2>1, <2>2, <2>3 DEF ReqOK
<1>6. (LimitInv /\ LimitRespected)'
  BY <1>1, <1>4, LimitsKeep, Constants DEF TypeOK, LimitInv, LimitRespected
<1> QED
  BY <1>1, <1>2, <1>3, <1>4, <1>5, <1>6, OthersKeep

\* A failed attempt leaves the queue and keeps the deferred slots.
LEMMA AttemptFailsInv ==
  ASSUME IInv, NEW p \in Requests, AttemptFails(p)
  PROVE  IInv'
<1> USE DEF IInv, AttemptFails, shared, gate, db, wait, choice, retry, ReturnError, FitsLimit, Goto
<1>1. SlotCount' /\ active' \in [Slots -> Nat] /\ held' \in [Requests -> SUBSET Slots]
  BY SlotsUnchanged DEF TypeOK
<1>2. QueueCount' /\ waiting' \in [Queues -> Nat] /\ queued' \in Nat /\ inQueue' \in [Requests -> BOOLEAN]
  BY QueuesUnchanged, LeaveCounts DEF TypeOK, ReqInv, ReqOK, QueueOK, PhaseOK
<1>3. TypeOK'
  BY <1>1, <1>2, Constants DEF TypeOK, Labels, LeaveQueue
<1>4. Frame(p) /\ WakeFrame(p)
  BY <1>1 DEF TypeOK, Frame, WakeFrame, LeaveQueue
<1>5. ReqOK(p)'
  <2>1. (PhaseOK(p) /\ QueueOK(p))'
    BY DEF TypeOK, ReqInv, ReqOK, PhaseOK, QueueOK, LeaveQueue
  <2>2. (DefersOK(p) /\ HeldOK(p))'
    BY ZenonT(40) DEF TypeOK, ReqInv, ReqOK, PhaseOK, DefersOK, HeldOK, HasAccount, LeaveQueue
  <2>3. WakeOK(p)'
    BY Constants DEF TypeOK, ReqInv, ReqOK, PhaseOK, WakeOK, LeaveQueue
  <2> QED
    BY <2>1, <2>2, <2>3 DEF ReqOK
<1>6. (LimitInv /\ LimitRespected)'
  BY <1>1, <1>4, LimitsKeep, Constants DEF TypeOK, LimitInv, LimitRespected, LeaveQueue
<1> QED
  BY <1>1, <1>2, <1>3, <1>4, <1>5, <1>6, OthersKeep

\* A queue is entered below its caps only, and once per wait.
LEMMA EnqueueInv ==
  ASSUME IInv, NEW p \in Requests, Enqueue(p)
  PROVE  IInv'
<1> USE DEF IInv, Enqueue, shared, gate, db, wait, choice, retry, Goto
<1>1. SlotCount' /\ active' \in [Slots -> Nat] /\ held' \in [Requests -> SUBSET Slots]
  BY SlotsUnchanged DEF TypeOK
<1>2. QueueCount' /\ waiting' \in [Queues -> Nat] /\ queued' \in Nat /\ inQueue' \in [Requests -> BOOLEAN]
  BY QueuesUnchanged, EnterCounts DEF TypeOK, ReqInv, ReqOK, QueueOK, PhaseOK
<1>3. TypeOK'
  BY <1>1, <1>2, Constants DEF TypeOK, Labels
<1>4. Frame(p) /\ WakeFrame(p)
  BY <1>1 DEF TypeOK, Frame, WakeFrame
<1>5. ReqOK(p)'
  <2>1. pc'[p] \in {"check", "wait", "return"} /\ (pc'[p] = "return" => ~inQueue'[p])
    BY DEF TypeOK
  <2>2. (PhaseOK(p) /\ QueueOK(p))'
    BY <2>1 DEF ReqInv, ReqOK, PhaseOK, QueueOK
  <2>3. (DefersOK(p) /\ HeldOK(p))'
    BY <2>1 DEF ReqInv, ReqOK, PhaseOK, DefersOK, HeldOK, HasAccount
  <2>4. WakeOK(p)'
    BY <2>1 DEF ReqInv, ReqOK, PhaseOK, WakeOK
  <2> QED
    BY <2>2, <2>3, <2>4 DEF ReqOK
<1>6. (LimitInv /\ LimitRespected)'
  BY <1>1, <1>4, LimitsKeep, Constants DEF TypeOK, LimitInv, LimitRespected
<1> QED
  BY <1>1, <1>2, <1>3, <1>4, <1>5, <1>6, OthersKeep

\* A woken request goes back to the check.
LEMMA WaitSignalInv ==
  ASSUME IInv, NEW p \in Requests, WaitSignal(p)
  PROVE  IInv'
<1> USE DEF IInv, WaitSignal, shared, gate, db, wait, choice, retry, Goto
<1>1. SlotCount' /\ active' \in [Slots -> Nat] /\ held' \in [Requests -> SUBSET Slots]
  BY SlotsUnchanged DEF TypeOK
<1>2. QueueCount' /\ waiting' \in [Queues -> Nat] /\ queued' \in Nat /\ inQueue' \in [Requests -> BOOLEAN]
  BY QueuesUnchanged DEF TypeOK, ReqInv, ReqOK, QueueOK, PhaseOK
<1>3. TypeOK'
  BY <1>1, <1>2, Constants DEF TypeOK, Labels
<1>4. Frame(p) /\ WakeFrame(p)
  BY <1>1 DEF TypeOK, Frame, WakeFrame
<1>5. ReqOK(p)'
  <2>1. (PhaseOK(p) /\ QueueOK(p))'
    BY DEF TypeOK, ReqInv, ReqOK, PhaseOK, QueueOK
  <2>2. (DefersOK(p) /\ HeldOK(p))'
    BY DEF TypeOK, ReqInv, ReqOK, PhaseOK, DefersOK, HeldOK, HasAccount
  <2>3. WakeOK(p)'
    BY Constants DEF TypeOK, ReqInv, ReqOK, PhaseOK, WakeOK
  <2> QED
    BY <2>1, <2>2, <2>3 DEF ReqOK
<1>6. (LimitInv /\ LimitRespected)'
  BY <1>1, <1>4, LimitsKeep, Constants DEF TypeOK, LimitInv, LimitRespected
<1> QED
  BY <1>1, <1>2, <1>3, <1>4, <1>5, <1>6, OthersKeep

\* So does one whose ticker fired.
LEMMA WaitTickInv ==
  ASSUME IInv, NEW p \in Requests, WaitTick(p)
  PROVE  IInv'
<1> USE DEF IInv, WaitTick, shared, gate, db, wait, choice, retry, Goto
<1>1. SlotCount' /\ active' \in [Slots -> Nat] /\ held' \in [Requests -> SUBSET Slots]
  BY SlotsUnchanged DEF TypeOK
<1>2. QueueCount' /\ waiting' \in [Queues -> Nat] /\ queued' \in Nat /\ inQueue' \in [Requests -> BOOLEAN]
  BY QueuesUnchanged DEF TypeOK, ReqInv, ReqOK, QueueOK, PhaseOK
<1>3. TypeOK'
  BY <1>1, <1>2, Constants DEF TypeOK, Labels
<1>4. Frame(p) /\ WakeFrame(p)
  BY <1>1 DEF TypeOK, Frame, WakeFrame
<1>5. ReqOK(p)'
  <2>1. (PhaseOK(p) /\ QueueOK(p))'
    BY DEF TypeOK, ReqInv, ReqOK, PhaseOK, QueueOK
  <2>2. (DefersOK(p) /\ HeldOK(p))'
    BY DEF TypeOK, ReqInv, ReqOK, PhaseOK, DefersOK, HeldOK, HasAccount
  <2>3. WakeOK(p)'
    BY Constants DEF TypeOK, ReqInv, ReqOK, PhaseOK, WakeOK
  <2> QED
    BY <2>1, <2>2, <2>3 DEF ReqOK
<1>6. (LimitInv /\ LimitRespected)'
  BY <1>1, <1>4, LimitsKeep, Constants DEF TypeOK, LimitInv, LimitRespected
<1> QED
  BY <1>1, <1>2, <1>3, <1>4, <1>5, <1>6, OthersKeep

\* A request whose keep-alive failed leaves its queue.
LEMMA WaitPingFailsInv ==
  ASSUME IInv, NEW p \in Requests, WaitPingFails(p)
  PROVE  IInv'
<1> USE DEF IInv, WaitPingFails, shared, gate, db, wait, choice, retry, Goto
<1>1. SlotCount' /\ active' \in [Slots -> Nat] /\ held' \in [Requests -> SUBSET Slots]
  BY SlotsUnchanged DEF TypeOK
<1>2. QueueCount' /\ waiting' \in [Queues -> Nat] /\ queued' \in Nat /\ inQueue' \in [Requests -> BOOLEAN]
  BY QueuesUnchanged, LeaveCounts DEF TypeOK, ReqInv, ReqOK, QueueOK, PhaseOK
<1>3. TypeOK'
  BY <1>1, <1>2, Constants DEF TypeOK, Labels, LeaveQueue
<1>4. Frame(p) /\ WakeFrame(p)
  BY <1>1 DEF TypeOK, Frame, WakeFrame, LeaveQueue
<1>5. ReqOK(p)'
  <2>1. (PhaseOK(p) /\ QueueOK(p))'
    BY DEF TypeOK, ReqInv, ReqOK, PhaseOK, QueueOK, LeaveQueue
  <2>2. (DefersOK(p) /\ HeldOK(p))'
    BY DEF TypeOK, ReqInv, ReqOK, PhaseOK, DefersOK, HeldOK, HasAccount, LeaveQueue
  <2>3. WakeOK(p)'
    BY Constants DEF TypeOK, ReqInv, ReqOK, PhaseOK, WakeOK, LeaveQueue
  <2> QED
    BY <2>1, <2>2, <2>3 DEF ReqOK
<1>6. (LimitInv /\ LimitRespected)'
  BY <1>1, <1>4, LimitsKeep, Constants DEF TypeOK, LimitInv, LimitRespected, LeaveQueue
<1> QED
  BY <1>1, <1>2, <1>3, <1>4, <1>5, <1>6, OthersKeep

\* The key slot is new to the request and its release deferred.
LEMMA TrackKeyInv ==
  ASSUME IInv, NEW p \in Requests, TrackKey(p)
  PROVE  IInv'
<1> USE DEF IInv, shared, gate, db, wait, choice, retry
<1>1. held[p] = {UserOf[p]} /\ defers[p] = {UserOf[p]} /\ KeyOf[p] \in Slots /\ KeyOf[p] \notin Queues /\ KeyOf[p] # UserOf[p]
  BY Constants DEF TypeOK, TrackKey, ReqInv, ReqOK, DefersOK, HeldOK, HasAccount
<1>2. \/ UNCHANGED <<active, held>>
      \/ \E s \in Slots : s \notin held[p] /\ TakeSlot(p, s) /\ (s \in Queues => active[s] < ceiling[s])
  BY <1>1 DEF TrackKey
<1>3. /\ SlotCount' /\ active' \in [Slots -> Nat] /\ held' \in [Requests -> SUBSET Slots]
      /\ \A t \in Slots : active'[t] \in Nat /\ active'[t] >= active[t]
      /\ \A q \in Requests \ {p} : held'[q] = held[q]
      /\ \A k \in Queues : active'[k] <= ceiling[k]
  BY <1>2, TakeStep
<1>4. QueueCount' /\ waiting' \in [Queues -> Nat] /\ queued' \in Nat /\ inQueue' \in [Requests -> BOOLEAN]
  BY QueuesUnchanged DEF TypeOK, TrackKey
<1>5. TypeOK'
  <2>1. pc' \in [Requests -> Labels]
    BY GotoType DEF TrackKey, Labels
  <2>2. defers' \in [Requests -> SUBSET Slots]
    <3>1. defers' = [defers EXCEPT ![p] = {UserOf[p], KeyOf[p]}] /\ {UserOf[p], KeyOf[p]} \in SUBSET Slots
      BY <1>1, Constants DEF TrackKey
    <3> QED
      BY <3>1 DEF TypeOK
  <2>3. phase' \in [Requests -> {"user", "direct", "account"}]
    BY DEF TypeOK, TrackKey
  <2>4. UNCHANGED <<woken, gate, db, queue, limit, choice, retry, canceled>>
    BY DEF TrackKey
  <2> QED
    BY <1>3, <1>4, <2>1, <2>2, <2>3, <2>4 DEF TypeOK
<1>6. Frame(p) /\ WakeFrame(p)
  BY <1>3 DEF TypeOK, Frame, WakeFrame, TrackKey, Goto
<1>7. ReqOK(p)'
  <2>1. pc'[p] \in {"choose", "return"} /\ phase'[p] = "direct" /\ defers'[p] = {UserOf[p], KeyOf[p]} /\ held'[p] = {UserOf[p], KeyOf[p]}
        /\ ~inQueue'[p]
    BY <1>1 DEF TrackKey, TakeSlot, Goto, TypeOK, ReqInv, ReqOK, QueueOK
  <2> QED
    BY <2>1 DEF ReqOK, PhaseOK, QueueOK, DefersOK, HeldOK, HasAccount, WakeOK
<1>8. (LimitInv /\ LimitRespected)'
  BY <1>3, <1>6, LimitsKeep DEF TypeOK, TrackKey
<1> QED
  BY <1>3, <1>4, <1>5, <1>6, <1>7, <1>8, OthersKeep

\* The limits read with the candidates are bounded by the largest ever set.
LEMMA CandidatesInv ==
  ASSUME IInv, NEW p \in Requests, Candidates(p)
  PROVE  IInv'
<1> USE DEF IInv, Candidates, shared, gate, db, wait, choice, retry, Goto
<1>1. SlotCount' /\ active' \in [Slots -> Nat] /\ held' \in [Requests -> SUBSET Slots]
  BY SlotsUnchanged DEF TypeOK
<1>2. QueueCount' /\ waiting' \in [Queues -> Nat] /\ queued' \in Nat /\ inQueue' \in [Requests -> BOOLEAN]
  BY QueuesUnchanged DEF TypeOK, ReqInv, ReqOK, QueueOK, PhaseOK
<1>3. TypeOK'
  BY <1>1, <1>2, Constants DEF TypeOK, Labels
<1>4. Frame(p) /\ WakeFrame(p)
  BY <1>1 DEF TypeOK, Frame, WakeFrame
<1>5. ReqOK(p)'
  <2>1. (PhaseOK(p) /\ QueueOK(p))'
    BY DEF TypeOK, ReqInv, ReqOK, PhaseOK, QueueOK
  <2>2. (DefersOK(p) /\ HeldOK(p))'
    BY DEF TypeOK, ReqInv, ReqOK, PhaseOK, DefersOK, HeldOK, HasAccount
  <2>3. WakeOK(p)'
    BY Constants DEF TypeOK, ReqInv, ReqOK, PhaseOK, WakeOK
  <2> QED
    BY <2>1, <2>2, <2>3 DEF ReqOK
<1>6. (LimitInv /\ LimitRespected)'
  BY <1>1, <1>4, LimitsKeep, Constants DEF TypeOK, LimitInv, LimitRespected
<1> QED
  BY <1>1, <1>2, <1>3, <1>4, <1>5, <1>6, OthersKeep

\* A failed query leaves the queue and keeps the deferred slots.
LEMMA CandidatesFailInv ==
  ASSUME IInv, NEW p \in Requests, CandidatesFail(p)
  PROVE  IInv'
<1> USE DEF IInv, CandidatesFail, shared, gate, db, wait, choice, retry, SelectError, ReturnError, Goto
<1>1. SlotCount' /\ active' \in [Slots -> Nat] /\ held' \in [Requests -> SUBSET Slots]
  BY SlotsUnchanged DEF TypeOK
<1>2. QueueCount' /\ waiting' \in [Queues -> Nat] /\ queued' \in Nat /\ inQueue' \in [Requests -> BOOLEAN]
  BY QueuesUnchanged, LeaveCounts DEF TypeOK, ReqInv, ReqOK, QueueOK, PhaseOK
<1>3. TypeOK'
  BY <1>1, <1>2, Constants DEF TypeOK, Labels, LeaveQueue
<1>4. Frame(p) /\ WakeFrame(p)
  BY <1>1 DEF TypeOK, Frame, WakeFrame, LeaveQueue
<1>5. ReqOK(p)'
  <2>1. /\ pc[p] = "choose" /\ phase[p] \in {"direct", "account"} /\ held[p] = defers[p] /\ defers[p] = {UserOf[p], KeyOf[p]}
    BY DEF ReqInv, ReqOK, PhaseOK, DefersOK, HeldOK, HasAccount
  <2>2. /\ pc'[p] \in {"check", "return"} /\ phase' = phase
        /\ pc'[p] = "check" => phase[p] = "account"
        /\ pc'[p] = "return" => ~inQueue'[p]
    BY <2>1 DEF TypeOK, LeaveQueue, ReqInv, ReqOK, QueueOK
  <2>3. (PhaseOK(p) /\ QueueOK(p) /\ DefersOK(p) /\ HeldOK(p))'
    BY <2>1, <2>2 DEF PhaseOK, QueueOK, DefersOK, HeldOK, HasAccount
  <2>4. WakeOK(p)'
    BY <2>1, <2>2 DEF WakeOK
  <2> QED
    BY <2>3, <2>4 DEF ReqOK
<1>6. (LimitInv /\ LimitRespected)'
  BY <1>1, <1>4, LimitsKeep, Constants DEF TypeOK, LimitInv, LimitRespected, LeaveQueue
<1> QED
  BY <1>1, <1>2, <1>3, <1>4, <1>5, <1>6, OthersKeep

\* An account slot is taken below the limit read, or the account found full.
LEMMA TryAccountInv ==
  ASSUME IInv, NEW p \in Requests, TryAccount(p)
  PROVE  IInv'
<1> USE DEF IInv, shared, gate, db, wait, choice, retry
<1>1. /\ pc[p] = "scan" /\ phase[p] \in {"direct", "account"} /\ held[p] = defers[p] /\ defers[p] = {UserOf[p], KeyOf[p]}
      /\ phase[p] = "direct" => ~inQueue[p]
  BY DEF TryAccount, ReqInv, ReqOK, PhaseOK, QueueOK, DefersOK, HeldOK, HasAccount
<1>2. PICK a \in todo[p] : TryAccount(p)!2!(a)
  BY DEF TryAccount
<1>3. /\ a \in Accounts /\ a \in Slots /\ a \in Queues /\ a \notin held[p]
      /\ active[a] \in Nat /\ ceiling[a] \in Nat /\ seen[p][a] \in Nat /\ seen[p][a] <= ceiling[a]
  BY <1>1, Constants DEF TypeOK, LimitInv
<1>4. /\ SlotCount' /\ active' \in [Slots -> Nat] /\ held' \in [Requests -> SUBSET Slots]
      /\ \A t \in Slots : active'[t] \in Nat /\ active'[t] >= active[t]
      /\ \A q \in Requests \ {p} : held'[q] = held[q]
      /\ \A k \in Queues : active'[k] <= ceiling[k]
  <2>1. \/ UNCHANGED <<active, held>>
        \/ \E s \in Slots : s \notin held[p] /\ TakeSlot(p, s) /\ (s \in Queues => active[s] < ceiling[s])
    BY <1>2, <1>3 DEF CanTake
  <2> QED
    BY <2>1, TakeStep
<1>5. queue' = queue \/ (phase[p] = "direct" /\ queue' = [queue EXCEPT ![p] = a])
  BY <1>2
<1>6. QueueCount' /\ waiting' \in [Queues -> Nat] /\ queued' \in Nat /\ inQueue' \in [Requests -> BOOLEAN]
  BY <1>1, <1>5, QueuesUnchanged DEF TypeOK, TryAccount
<1>7. TypeOK'
  <2>1. pc' \in [Requests -> Labels]
    BY <1>2 DEF TypeOK, Goto, Labels
  <2>2. queue' \in [Requests -> Queues]
    BY <1>3, <1>5 DEF TypeOK
  <2>3. todo' \in [Requests -> SUBSET Accounts] /\ full' \in [Requests -> SUBSET Accounts]
    <3>1. /\ todo' = [todo EXCEPT ![p] = todo[p] \ {a}]
          /\ full' = full \/ full' = [full EXCEPT ![p] = full[p] \cup {a}] \/ full' = [full EXCEPT ![p] = full[p]]
      BY <1>2
    <3>2. /\ todo \in [Requests -> SUBSET Accounts] /\ full \in [Requests -> SUBSET Accounts]
          /\ todo[p] \in SUBSET Accounts /\ full[p] \in SUBSET Accounts
      BY DEF TypeOK
    <3> QED
      BY <1>3, <3>1, <3>2
  <2>4. account' \in [Requests -> Accounts \cup {None}]
    BY <1>2, <1>3 DEF TypeOK
  <2>5. UNCHANGED <<woken, gate, db, phase, limit, seen, retry, defers, canceled>>
    BY DEF TryAccount
  <2> QED
    BY <1>4, <1>6, <2>1, <2>2, <2>3, <2>4, <2>5 DEF TypeOK
<1>8. Frame(p) /\ WakeFrame(p)
  BY <1>2, <1>4, <1>5 DEF TypeOK, Frame, WakeFrame, TryAccount, Goto
<1>9. ReqOK(p)'
  <2>1. CASE TakeSlot(p, a) /\ account' = [account EXCEPT ![p] = a] /\ Goto(p, "recheck") /\ UNCHANGED full
    <3>1. pc'[p] = "recheck" /\ account'[p] = a /\ held'[p] = defers[p] \cup {a} /\ phase' = phase /\ defers' = defers
      BY <1>1, <2>1 DEF TypeOK, TryAccount, TakeSlot, Goto
    <3>2. (PhaseOK(p) /\ QueueOK(p) /\ DefersOK(p) /\ HeldOK(p))'
      BY <1>1, <1>3, <3>1 DEF PhaseOK, QueueOK, DefersOK, HeldOK, HasAccount, TryAccount
    <3>3. \A b \in full[p] : b \in Slots /\ active[b] \in Nat /\ seen[p][b] \in Nat
      BY Constants DEF TypeOK
    <3>4. WakeOK(p)'
      BY <1>1, <1>4, <2>1, <3>1, <3>3 DEF ReqInv, ReqOK, WakeOK, TryAccount
    <3> QED
      BY <3>2, <3>4 DEF ReqOK
  <2>2. CASE /\ ~CanTake(a, seen[p][a])
             /\ full' = [full EXCEPT ![p] = IF seen[p][a] > 0 THEN @ \cup {a} ELSE @]
             /\ UNCHANGED <<active, held, account, pc>>
    <3>1. /\ pc' = pc /\ phase' = phase /\ defers' = defers /\ held' = held /\ inQueue' = inQueue /\ woken' = woken
          /\ stopped' = stopped /\ lost' = lost /\ seen' = seen /\ active' = active
          /\ full'[p] \in {full[p], full[p] \cup {a}}
          /\ full'[p] # full[p] => seen[p][a] > 0
      BY <2>2 DEF TypeOK, TryAccount
    <3>2. (PhaseOK(p) /\ QueueOK(p) /\ DefersOK(p) /\ HeldOK(p))'
      BY <1>1, <3>1 DEF PhaseOK, QueueOK, DefersOK, HeldOK, HasAccount
    <3>3. WakeOK(p)'
      BY <1>1, <1>3, <2>2, <3>1 DEF ReqInv, ReqOK, WakeOK, CanTake, Closed
    <3> QED
      BY <3>2, <3>3 DEF ReqOK
  <2> QED
    BY <1>2, <2>1, <2>2
<1>10. (LimitInv /\ LimitRespected)'
  BY <1>4, <1>8, LimitsKeep DEF TypeOK, TryAccount
<1> QED
  BY <1>4, <1>6, <1>7, <1>8, <1>9, <1>10, OthersKeep

\* An account refused under its slot gives the slot back.
LEMMA RecheckProfitInv ==
  ASSUME IInv, NEW p \in Requests, RecheckProfit(p)
  PROVE  IInv'
<1> USE DEF IInv, shared, gate, db, wait, choice, retry
<1>1. pc[p] \in HasAccount
  BY DEF RecheckProfit, HasAccount
<1>2. UNCHANGED <<active, held, woken>> \/ \E s \in held[p] : ReleaseSlot(p, s)
  BY <1>1, AccountHeld DEF RecheckProfit, SelectError, ReturnError
<1>3. /\ SlotCount' /\ active' \in [Slots -> Nat] /\ held' \in [Requests -> SUBSET Slots]
      /\ woken' \in [Requests -> BOOLEAN]
      /\ (\A q \in Requests : woken'[q]) \/ UNCHANGED <<active, woken>>
      /\ \A q \in Requests \ {p} : held'[q] = held[q]
      /\ \A k \in Queues : active'[k] <= ceiling[k]
  BY <1>2, ReleaseStep
<1>4. QueueCount' /\ waiting' \in [Queues -> Nat] /\ queued' \in Nat /\ inQueue' \in [Requests -> BOOLEAN]
  BY QueuesUnchanged, LeaveCounts DEF TypeOK, RecheckProfit, SelectError, ReturnError
<1>5. TypeOK'
  <2>1. pc' \in [Requests -> Labels]
    <3>1. Goto(p, "chosen") \/ Goto(p, "scan") \/ Goto(p, "check") \/ Goto(p, "return")
      BY DEF RecheckProfit, SelectError, ReturnError, LeaveQueue
    <3> QED
      BY <3>1, GotoType DEF TypeOK, Labels
  <2>2. account' \in [Requests -> Accounts \cup {None}]
    BY DEF TypeOK, RecheckProfit
  <2>3. UNCHANGED <<gate, db, phase, queue, limit, todo, seen, full, retry, defers, canceled>>
    BY DEF RecheckProfit
  <2> QED
    BY <1>3, <1>4, <2>1, <2>2, <2>3 DEF TypeOK
<1>6. Frame(p) /\ WakeFrame(p)
  BY <1>3 DEF TypeOK, Frame, WakeFrame, RecheckProfit, SelectError, ReturnError, Goto, LeaveQueue
<1>7. ReqOK(p)'
  <2>1. PhaseOK(p)' /\ QueueOK(p)'
    BY <1>1 DEF RecheckProfit, SelectError, ReturnError, Goto, LeaveQueue, TypeOK, HasAccount, ReqInv, ReqOK, PhaseOK, QueueOK
  <2>2. CASE Goto(p, "chosen") /\ UNCHANGED <<shared, held, inQueue, account>>
    BY <2>2, <1>1 DEF RecheckProfit, Goto, LeaveQueue, TypeOK, ReqInv, ReqOK, PhaseOK, QueueOK, DefersOK, HeldOK, HasAccount, WakeOK
  <2>3. CASE ReleaseSlot(p, account[p])
    <3>1. phase' = phase /\ defers' = defers
      BY DEF RecheckProfit
    <3>2. \/ Goto(p, "chosen") /\ UNCHANGED <<shared, held, inQueue, account>>
          \/ Goto(p, "scan") \/ Goto(p, "check") \/ Goto(p, "return")
      BY DEF RecheckProfit, SelectError, ReturnError, LeaveQueue
    <3> QED
      BY <1>1, <2>1, <2>2, <2>3, <3>1, <3>2, GivenBack
  <2> QED
    BY <2>2, <2>3 DEF RecheckProfit
<1>8. (LimitInv /\ LimitRespected)'
  BY <1>3, <1>6, LimitsKeep DEF TypeOK, RecheckProfit, SelectError, ReturnError
<1> QED
  BY <1>3, <1>4, <1>5, <1>6, <1>7, <1>8, OthersKeep

\* A scan without an account holds none.
LEMMA NoAccountInv ==
  ASSUME IInv, NEW p \in Requests, NoAccount(p)
  PROVE  IInv'
<1> USE DEF IInv, NoAccount, shared, gate, db, wait, choice, retry, SelectError, ReturnError, Goto
<1>1. SlotCount' /\ active' \in [Slots -> Nat] /\ held' \in [Requests -> SUBSET Slots]
  BY SlotsUnchanged DEF TypeOK
<1>2. QueueCount' /\ waiting' \in [Queues -> Nat] /\ queued' \in Nat /\ inQueue' \in [Requests -> BOOLEAN]
  BY QueuesUnchanged, LeaveCounts DEF TypeOK, ReqInv, ReqOK, QueueOK, PhaseOK
<1>3. TypeOK'
  BY <1>1, <1>2, Constants DEF TypeOK, Labels, LeaveQueue
<1>4. Frame(p) /\ WakeFrame(p)
  BY <1>1 DEF TypeOK, Frame, WakeFrame, LeaveQueue
<1>5. ReqOK(p)'
  <2>1. /\ pc[p] = "scan" /\ phase[p] \in {"direct", "account"} /\ held[p] = defers[p] /\ defers[p] = {UserOf[p], KeyOf[p]}
    BY DEF ReqInv, ReqOK, PhaseOK, DefersOK, HeldOK, HasAccount
  <2>2. /\ pc'[p] \in {"check", "enqueue", "return"} /\ phase'[p] \in {"direct", "account"}
        /\ pc'[p] \in {"check", "enqueue"} => phase'[p] = "account"
        /\ pc'[p] = "enqueue" => full[p] # {} /\ phase[p] = "account"
        /\ pc'[p] = "return" => ~inQueue'[p]
    BY <2>1 DEF TypeOK, LeaveQueue, ReqInv, ReqOK, QueueOK
  <2>3. (PhaseOK(p) /\ QueueOK(p) /\ DefersOK(p) /\ HeldOK(p))'
    BY <2>1, <2>2 DEF PhaseOK, QueueOK, DefersOK, HeldOK, HasAccount
  <2>4. WakeOK(p)'
    BY <2>1, <2>2 DEF ReqInv, ReqOK, WakeOK
  <2> QED
    BY <2>3, <2>4 DEF ReqOK
<1>6. (LimitInv /\ LimitRespected)'
  BY <1>1, <1>4, LimitsKeep, Constants DEF TypeOK, LimitInv, LimitRespected, LeaveQueue
<1> QED
  BY <1>1, <1>2, <1>3, <1>4, <1>5, <1>6, OthersKeep

\* A chosen account is kept, or given back when the wait is over.
LEMMA ChosenInv ==
  ASSUME IInv, NEW p \in Requests, Chosen(p)
  PROVE  IInv'
<1> USE DEF IInv, shared, gate, db, wait, choice, retry
<1>1. pc[p] \in HasAccount
  BY DEF Chosen, HasAccount
<1>2. UNCHANGED <<active, held, woken>> \/ \E s \in held[p] : ReleaseSlot(p, s)
  BY <1>1, AccountHeld DEF Chosen
<1>3. /\ SlotCount' /\ active' \in [Slots -> Nat] /\ held' \in [Requests -> SUBSET Slots]
      /\ woken' \in [Requests -> BOOLEAN]
      /\ (\A q \in Requests : woken'[q]) \/ UNCHANGED <<active, woken>>
      /\ \A q \in Requests \ {p} : held'[q] = held[q]
      /\ \A k \in Queues : active'[k] <= ceiling[k]
  BY <1>2, ReleaseStep
<1>4. QueueCount' /\ waiting' \in [Queues -> Nat] /\ queued' \in Nat /\ inQueue' \in [Requests -> BOOLEAN]
  BY QueuesUnchanged, LeaveCounts DEF TypeOK, Chosen
<1>5. TypeOK'
  <2>1. pc' \in [Requests -> Labels]
    <3>1. Goto(p, "check") \/ Goto(p, "preflight")
      BY DEF Chosen, LeaveQueue
    <3> QED
      BY <3>1, GotoType DEF TypeOK, Labels
  <2>2. phase' \in [Requests -> {"user", "direct", "account"}] /\ queue' \in [Requests -> Queues]
    BY Constants DEF TypeOK, Chosen
  <2>3. limit' \in [Requests -> Nat] /\ seen' \in [Requests -> [Accounts -> Nat]]
    <3>1. /\ limit' = limit \/ limit' = [limit EXCEPT ![p] = 0]
          /\ seen' = seen \/ seen' = [seen EXCEPT ![p] = [a \in Accounts |-> 0]]
      BY DEF Chosen
    <3> QED
      <4>1. limit \in [Requests -> Nat] /\ seen \in [Requests -> [Accounts -> Nat]]
        BY DEF TypeOK
      <4>2. limit' \in [Requests -> Nat]
        BY <3>1, <4>1
      <4> DEFINE zero == [a \in Accounts |-> 0]
      <4>3. zero \in [Accounts -> Nat] /\ (seen' = seen \/ seen' = [seen EXCEPT ![p] = zero])
        BY <3>1
      <4> HIDE DEF zero
      <4>4. seen' \in [Requests -> [Accounts -> Nat]]
        BY <4>1, <4>3
      <4> QED
        BY <4>2, <4>4
  <2>4. todo' \in [Requests -> SUBSET Accounts] /\ full' \in [Requests -> SUBSET Accounts]
    BY DEF TypeOK, Chosen
  <2>5. account' \in [Requests -> Accounts \cup {None}]
    BY DEF TypeOK, Chosen
  <2>6. UNCHANGED <<gate, db, retry, defers, canceled>>
    BY DEF Chosen
  <2> QED
    BY <1>3, <1>4, <2>1, <2>2, <2>3, <2>4, <2>5, <2>6 DEF TypeOK
<1>6. Frame(p) /\ WakeFrame(p)
  BY <1>3 DEF TypeOK, Frame, WakeFrame, Chosen, Goto, LeaveQueue
<1>7. ReqOK(p)'
  <2>1. PhaseOK(p)' /\ QueueOK(p)'
    BY <1>1 DEF Chosen, Goto, LeaveQueue, TypeOK, HasAccount, ReqInv, ReqOK, PhaseOK, QueueOK
  <2>2. CASE LeaveQueue(p, "preflight") /\ phase' = [phase EXCEPT ![p] = "direct"] /\ UNCHANGED <<active, held, woken, account, defers>>
    <3>1. pc'[p] = "preflight" /\ phase'[p] = "direct" /\ held' = held /\ account' = account /\ defers' = defers
      BY <2>2 DEF LeaveQueue, Goto, TypeOK
    <3>2. DefersOK(p)' /\ HeldOK(p)' /\ WakeOK(p)'
      BY <3>1, <1>1, AccountHeld DEF DefersOK, HeldOK, HasAccount, WakeOK
    <3> QED
      BY <2>1, <3>2 DEF ReqOK
  <2>3. CASE ReleaseSlot(p, account[p]) /\ Goto(p, "check") /\ UNCHANGED wait
    BY <2>1, <2>3, <1>1, GivenBack DEF Chosen
  <2> QED
    BY <2>2, <2>3 DEF Chosen
<1>8. (LimitInv /\ LimitRespected)'
  BY <1>3, <1>6, LimitsKeep DEF TypeOK, Chosen
<1> QED
  BY <1>3, <1>4, <1>5, <1>6, <1>7, <1>8, OthersKeep

\* An early return gives the account slot back.
LEMMA PreflightInv ==
  ASSUME IInv, NEW p \in Requests, Preflight(p)
  PROVE  IInv'
<1> USE DEF IInv, shared, gate, db, wait, choice, retry
<1>1. pc[p] \in HasAccount
  BY DEF Preflight, HasAccount
<1>2. UNCHANGED <<active, held, woken>> \/ \E s \in held[p] : ReleaseSlot(p, s)
  BY <1>1, AccountHeld DEF Preflight, GiveUp
<1>3. /\ SlotCount' /\ active' \in [Slots -> Nat] /\ held' \in [Requests -> SUBSET Slots]
      /\ woken' \in [Requests -> BOOLEAN]
      /\ (\A q \in Requests : woken'[q]) \/ UNCHANGED <<active, woken>>
      /\ \A q \in Requests \ {p} : held'[q] = held[q]
      /\ \A k \in Queues : active'[k] <= ceiling[k]
  BY <1>2, ReleaseStep
<1>4. QueueCount' /\ waiting' \in [Queues -> Nat] /\ queued' \in Nat /\ inQueue' \in [Requests -> BOOLEAN]
  BY QueuesUnchanged DEF TypeOK, Preflight, GiveUp
<1>5. TypeOK'
  BY <1>1, <1>3, <1>4, AccountHeld, Constants DEF TypeOK, Preflight, GiveUp, Goto, Labels
<1>6. Frame(p) /\ WakeFrame(p)
  BY <1>3 DEF TypeOK, Frame, WakeFrame, Preflight, GiveUp, Goto
<1>7. ReqOK(p)'
  <2>1. PhaseOK(p)' /\ QueueOK(p)'
    BY <1>1 DEF Preflight, GiveUp, Goto, TypeOK, HasAccount, ReqInv, ReqOK, PhaseOK, QueueOK
  <2>2. CASE Goto(p, "dispatch") /\ UNCHANGED <<active, held, woken, account>>
    BY <2>2, <1>1 DEF Preflight, Goto, TypeOK, ReqInv, ReqOK, PhaseOK, QueueOK, DefersOK, HeldOK, HasAccount, WakeOK
  <2>3. CASE GiveUp(p, "return")
    BY <2>1, <2>3, <1>1, GivenBack DEF Preflight, GiveUp, Goto
  <2> QED
    BY <2>2, <2>3 DEF Preflight
<1>8. (LimitInv /\ LimitRespected)'
  BY <1>3, <1>6, LimitsKeep DEF TypeOK, Preflight, GiveUp
<1> QED
  BY <1>3, <1>4, <1>5, <1>6, <1>7, <1>8, OthersKeep

\* A refused dispatch gives the account slot back.
LEMMA DispatchInv ==
  ASSUME IInv, NEW p \in Requests, Dispatch(p)
  PROVE  IInv'
<1> USE DEF IInv, shared, gate, db, wait, choice, retry
<1>1. pc[p] \in HasAccount
  BY DEF Dispatch, HasAccount
<1>2. UNCHANGED <<active, held, woken>> \/ \E s \in held[p] : ReleaseSlot(p, s)
  BY <1>1, AccountHeld DEF Dispatch, GiveUp
<1>3. /\ SlotCount' /\ active' \in [Slots -> Nat] /\ held' \in [Requests -> SUBSET Slots]
      /\ woken' \in [Requests -> BOOLEAN]
      /\ (\A q \in Requests : woken'[q]) \/ UNCHANGED <<active, woken>>
      /\ \A q \in Requests \ {p} : held'[q] = held[q]
      /\ \A k \in Queues : active'[k] <= ceiling[k]
  BY <1>2, ReleaseStep
<1>4. QueueCount' /\ waiting' \in [Queues -> Nat] /\ queued' \in Nat /\ inQueue' \in [Requests -> BOOLEAN]
  BY QueuesUnchanged DEF TypeOK, Dispatch, GiveUp
<1>5. TypeOK'
  BY <1>1, <1>3, <1>4, AccountHeld, Constants DEF TypeOK, Dispatch, GiveUp, Goto, Labels
<1>6. Frame(p) /\ WakeFrame(p)
  BY <1>3 DEF TypeOK, Frame, WakeFrame, Dispatch, GiveUp, Goto
<1>7. ReqOK(p)'
  <2>1. PhaseOK(p)' /\ QueueOK(p)'
    BY <1>1 DEF Dispatch, GiveUp, Goto, TypeOK, HasAccount, ReqInv, ReqOK, PhaseOK, QueueOK
  <2>2. CASE Goto(p, "upstream") /\ ~Closed /\ UNCHANGED <<active, held, woken, account>>
    BY <2>2, <1>1 DEF Dispatch, Goto, TypeOK, ReqInv, ReqOK, PhaseOK, QueueOK, DefersOK, HeldOK, HasAccount, WakeOK
  <2>3. CASE GiveUp(p, "return")
    BY <2>1, <2>3, <1>1, GivenBack DEF Dispatch, GiveUp, Goto
  <2> QED
    BY <2>2, <2>3 DEF Dispatch
<1>8. (LimitInv /\ LimitRespected)'
  BY <1>3, <1>6, LimitsKeep DEF TypeOK, Dispatch, GiveUp
<1> QED
  BY <1>3, <1>4, <1>5, <1>6, <1>7, <1>8, OthersKeep

\* An accepted request defers its account slot, any other gives it back.
LEMMA UpstreamInv ==
  ASSUME IInv, NEW p \in Requests, Upstream(p)
  PROVE  IInv'
<1> USE DEF IInv, shared, gate, db, wait, choice, retry
<1>1. pc[p] \in HasAccount
  BY DEF Upstream, HasAccount
<1>2. UNCHANGED <<active, held, woken>> \/ \E s \in held[p] : ReleaseSlot(p, s)
  BY <1>1, AccountHeld DEF Upstream, GiveUp
<1>3. /\ SlotCount' /\ active' \in [Slots -> Nat] /\ held' \in [Requests -> SUBSET Slots]
      /\ woken' \in [Requests -> BOOLEAN]
      /\ (\A q \in Requests : woken'[q]) \/ UNCHANGED <<active, woken>>
      /\ \A q \in Requests \ {p} : held'[q] = held[q]
      /\ \A k \in Queues : active'[k] <= ceiling[k]
  BY <1>2, ReleaseStep
<1>4. QueueCount' /\ waiting' \in [Queues -> Nat] /\ queued' \in Nat /\ inQueue' \in [Requests -> BOOLEAN]
  BY QueuesUnchanged DEF TypeOK, Upstream, GiveUp
<1>5. TypeOK'
  <2>1. pc' \in [Requests -> Labels]
    <3>1. Goto(p, "settle") \/ Goto(p, "choose") \/ Goto(p, "return")
      BY DEF Upstream, GiveUp
    <3> QED
      BY <3>1, GotoType DEF TypeOK, Labels
  <2>2. account[p] \in Accounts /\ account[p] \in Slots
    BY <1>1, AccountHeld, Constants
  <2>3. account' \in [Requests -> Accounts \cup {None}]
    BY DEF TypeOK, Upstream, GiveUp
  <2>4. defers' \in [Requests -> SUBSET Slots] /\ excluded' \in [Requests -> SUBSET Accounts]
    <3>1. /\ defers' = defers \/ defers' = [defers EXCEPT ![p] = defers[p] \cup {account[p]}]
          /\ excluded' = excluded \/ excluded' = [excluded EXCEPT ![p] = excluded[p] \cup {account[p]}]
      BY DEF Upstream, GiveUp
    <3>2. /\ defers \in [Requests -> SUBSET Slots] /\ defers[p] \in SUBSET Slots
          /\ excluded \in [Requests -> SUBSET Accounts] /\ excluded[p] \in SUBSET Accounts
      BY DEF TypeOK
    <3> QED
      BY <2>2, <3>1, <3>2
  <2>5. attempt' \in [Requests -> Nat]
    <3>1. attempt' = attempt \/ attempt' = [attempt EXCEPT ![p] = attempt[p] + 1]
      BY DEF Upstream
    <3>2. attempt \in [Requests -> Nat] /\ attempt[p] + 1 \in Nat
      BY DEF TypeOK
    <3> QED
      BY <3>1, <3>2
  <2>6. UNCHANGED <<waiting, queued, gate, db, wait, todo, seen, full, canceled>>
    BY DEF Upstream
  <2> QED
    BY <1>3, <1>4, <2>1, <2>3, <2>4, <2>5, <2>6 DEF TypeOK
<1>6. Frame(p) /\ WakeFrame(p)
  BY <1>3 DEF TypeOK, Frame, WakeFrame, Upstream, GiveUp, Goto
<1>7. ReqOK(p)'
  <2>1. PhaseOK(p)' /\ QueueOK(p)'
    BY <1>1 DEF Upstream, GiveUp, Goto, TypeOK, HasAccount, ReqInv, ReqOK, PhaseOK, QueueOK
  <2>2. CASE Goto(p, "settle") /\ defers' = [defers EXCEPT ![p] = @ \cup {account[p]}] /\ UNCHANGED <<active, held, woken, account, retry>>
    <3>1. /\ pc'[p] = "settle" /\ defers'[p] = defers[p] \cup {account[p]} /\ held'[p] = held[p]
          /\ woken' = woken /\ phase' = phase /\ phase[p] = "direct"
      BY <2>2 DEF Upstream, Goto, TypeOK, ReqInv, ReqOK, PhaseOK
    <3>2. DefersOK(p)' /\ HeldOK(p)' /\ WakeOK(p)'
      BY <3>1, <1>1, AccountHeld DEF DefersOK, HeldOK, HasAccount, WakeOK
    <3> QED
      BY <2>1, <3>2 DEF ReqOK
  <2>3. CASE UNCHANGED defers /\ (GiveUp(p, "choose") \/ GiveUp(p, "return"))
    <3>1. ReleaseSlot(p, account[p]) /\ (Goto(p, "choose") \/ Goto(p, "return")) /\ phase' = phase /\ defers' = defers
      BY <2>3 DEF Upstream, GiveUp
    <3> QED
      BY <1>1, <2>1, <3>1, GivenBack
  <2> QED
    BY <2>2, <2>3 DEF Upstream
<1>8. (LimitInv /\ LimitRespected)'
  BY <1>3, <1>6, LimitsKeep DEF TypeOK, Upstream, GiveUp
<1> QED
  BY <1>3, <1>4, <1>5, <1>6, <1>7, <1>8, OthersKeep

\* Settlement keeps every slot until its return.
LEMMA SettleInv ==
  ASSUME IInv, NEW p \in Requests, Settle(p)
  PROVE  IInv'
<1> USE DEF IInv, Settle, shared, gate, db, wait, choice, retry, Goto
<1>1. SlotCount' /\ active' \in [Slots -> Nat] /\ held' \in [Requests -> SUBSET Slots]
  BY SlotsUnchanged DEF TypeOK
<1>2. QueueCount' /\ waiting' \in [Queues -> Nat] /\ queued' \in Nat /\ inQueue' \in [Requests -> BOOLEAN]
  BY QueuesUnchanged DEF TypeOK, ReqInv, ReqOK, QueueOK, PhaseOK
<1>3. TypeOK'
  BY <1>1, <1>2, Constants DEF TypeOK, Labels
<1>4. Frame(p) /\ WakeFrame(p)
  BY <1>1 DEF TypeOK, Frame, WakeFrame
<1>5. ReqOK(p)'
  <2>1. (PhaseOK(p) /\ QueueOK(p))'
    BY DEF TypeOK, ReqInv, ReqOK, PhaseOK, QueueOK
  <2>2. (DefersOK(p) /\ HeldOK(p))'
    BY DEF TypeOK, ReqInv, ReqOK, PhaseOK, DefersOK, HeldOK, HasAccount
  <2>3. WakeOK(p)'
    BY Constants DEF TypeOK, ReqInv, ReqOK, PhaseOK, WakeOK
  <2> QED
    BY <2>1, <2>2, <2>3 DEF ReqOK
<1>6. (LimitInv /\ LimitRespected)'
  BY <1>1, <1>4, LimitsKeep, Constants DEF TypeOK, LimitInv, LimitRespected
<1> QED
  BY <1>1, <1>2, <1>3, <1>4, <1>5, <1>6, OthersKeep

\* Each deferred release gives back a slot the request holds.
LEMMA RunDefersInv ==
  ASSUME IInv, NEW p \in Requests, RunDefers(p)
  PROVE  IInv'
<1> USE DEF IInv, shared, gate, db, wait, choice, retry
<1>1. held[p] = defers[p] /\ pc[p] = "return" /\ ~inQueue[p]
  BY DEF TypeOK, RunDefers, ReqInv, ReqOK, QueueOK, HeldOK, HasAccount
<1>2. UNCHANGED <<active, held, woken>> \/ \E s \in held[p] : ReleaseSlot(p, s)
  BY <1>1 DEF RunDefers
<1>3. /\ SlotCount' /\ active' \in [Slots -> Nat] /\ held' \in [Requests -> SUBSET Slots]
      /\ woken' \in [Requests -> BOOLEAN]
      /\ (\A q \in Requests : woken'[q]) \/ UNCHANGED <<active, woken>>
      /\ \A q \in Requests \ {p} : held'[q] = held[q]
      /\ \A k \in Queues : active'[k] <= ceiling[k]
  BY <1>2, ReleaseStep
<1>4. QueueCount' /\ waiting' \in [Queues -> Nat] /\ queued' \in Nat /\ inQueue' \in [Requests -> BOOLEAN]
  BY QueuesUnchanged DEF TypeOK, RunDefers
<1>5. TypeOK'
  <2>1. pc' \in [Requests -> Labels]
    <3>1. Goto(p, "done") \/ pc' = pc
      BY DEF RunDefers
    <3> QED
      BY <3>1, GotoType DEF TypeOK, Labels
  <2>2. defers' \in [Requests -> SUBSET Slots]
    <3>1. defers[p] \in SUBSET Slots /\ defers \in [Requests -> SUBSET Slots]
      BY DEF TypeOK
    <3>2. defers' = defers \/ \E s \in defers[p] : defers' = [defers EXCEPT ![p] = defers[p] \ {s}]
      BY DEF RunDefers
    <3> QED
      BY <3>1, <3>2
  <2>3. UNCHANGED <<waiting, queued, gate, db, wait, choice, retry, canceled>>
    BY DEF RunDefers
  <2> QED
    BY <1>3, <1>4, <2>1, <2>2, <2>3 DEF TypeOK
<1>6. Frame(p) /\ WakeFrame(p)
  BY <1>3 DEF TypeOK, Frame, WakeFrame, RunDefers, Goto
<1>7. ReqOK(p)'
  <2>1. CASE \E s \in defers[p] : ReleaseSlot(p, s) /\ defers' = [defers EXCEPT ![p] = @ \ {s}] /\ UNCHANGED pc
    <3>1. pc'[p] = "return" /\ held'[p] = defers'[p] /\ ~inQueue'[p]
      BY <1>1, <2>1 DEF TypeOK, RunDefers, ReleaseSlot
    <3> QED
      BY <3>1 DEF ReqOK, PhaseOK, QueueOK, DefersOK, HeldOK, HasAccount, WakeOK
  <2>2. CASE defers[p] = {} /\ Goto(p, "done") /\ UNCHANGED <<held, defers>>
    <3>1. pc'[p] = "done" /\ held'[p] = defers'[p] /\ defers'[p] = {} /\ ~inQueue'[p]
      BY <1>1, <2>2 DEF TypeOK, RunDefers, Goto
    <3> QED
      BY <3>1 DEF ReqOK, PhaseOK, QueueOK, DefersOK, HeldOK, HasAccount, WakeOK
  <2> QED
    BY <2>1, <2>2 DEF RunDefers
<1>8. (LimitInv /\ LimitRespected)'
  BY <1>3, <1>6, LimitsKeep DEF TypeOK, RunDefers
<1> QED
  BY <1>3, <1>4, <1>5, <1>6, <1>7, <1>8, OthersKeep

\* A context that ends changes no counter.
LEMMA CancelInv ==
  ASSUME IInv, NEW p \in Requests, Cancel(p)
  PROVE  IInv'
<1> USE DEF IInv, Cancel, shared, gate, db, wait, choice, retry, Goto
<1>1. SlotCount' /\ active' \in [Slots -> Nat] /\ held' \in [Requests -> SUBSET Slots]
  BY SlotsUnchanged DEF TypeOK
<1>2. QueueCount' /\ waiting' \in [Queues -> Nat] /\ queued' \in Nat /\ inQueue' \in [Requests -> BOOLEAN]
  BY QueuesUnchanged DEF TypeOK, ReqInv, ReqOK, QueueOK, PhaseOK
<1>3. TypeOK'
  BY <1>1, <1>2, Constants DEF TypeOK, Labels
<1>4. Frame(p) /\ WakeFrame(p)
  BY <1>1 DEF TypeOK, Frame, WakeFrame
<1>5. ReqOK(p)'
  <2>1. (PhaseOK(p) /\ QueueOK(p))'
    BY DEF TypeOK, ReqInv, ReqOK, PhaseOK, QueueOK
  <2>2. (DefersOK(p) /\ HeldOK(p))'
    BY DEF TypeOK, ReqInv, ReqOK, PhaseOK, DefersOK, HeldOK, HasAccount
  <2>3. WakeOK(p)'
    BY Constants DEF TypeOK, ReqInv, ReqOK, PhaseOK, WakeOK
  <2> QED
    BY <2>1, <2>2, <2>3 DEF ReqOK
<1>6. (LimitInv /\ LimitRespected)'
  BY <1>1, <1>4, LimitsKeep, Constants DEF TypeOK, LimitInv, LimitRespected
<1> QED
  BY <1>1, <1>2, <1>3, <1>4, <1>5, <1>6, OthersKeep

\* Stopping closes the gate and wakes every waiter.
LEMMA StopAdmissionInv ==
  ASSUME IInv, StopAdmission
  PROVE  IInv'
<1> USE DEF IInv, StopAdmission, WakeAll, db, wait, choice, retry
<1>1. SlotCount' /\ QueueCount'
  BY SlotsUnchanged, QueuesUnchanged
<1>2. TypeOK'
  BY DEF TypeOK
<1>3. ReqInv'
  BY DEF TypeOK, ReqInv, ReqOK, PhaseOK, QueueOK, DefersOK, HeldOK, WakeOK
<1>4. (LimitInv /\ LimitRespected)'
  BY DEF LimitInv, LimitRespected
<1> QED
  BY <1>1, <1>2, <1>3, <1>4

\* A lost instance closes the gate before it wakes.
LEMMA LoseInstanceInv ==
  ASSUME IInv, LoseInstance
  PROVE  IInv'
<1> USE DEF IInv, LoseInstance, shared, db, wait, choice, retry
<1>1. SlotCount' /\ QueueCount'
  BY SlotsUnchanged, QueuesUnchanged
<1>2. TypeOK'
  BY DEF TypeOK
<1>3. ReqInv'
  BY DEF TypeOK, ReqInv, ReqOK, PhaseOK, QueueOK, DefersOK, HeldOK, WakeOK
<1>4. (LimitInv /\ LimitRespected)'
  BY DEF LimitInv, LimitRespected
<1> QED
  BY <1>1, <1>2, <1>3, <1>4

\* An administrator's change raises the ceiling with the limit.
LEMMA SetLimitInv ==
  ASSUME IInv, NEW k \in Queues, NEW n \in Limits, SetLimit(k, n)
  PROVE  IInv'
<1> USE DEF IInv, SetLimit, shared, gate, wait, choice, retry
<1>1. SlotCount' /\ QueueCount'
  BY SlotsUnchanged, QueuesUnchanged
<1>2. TypeOK'
  BY Constants, AdmissionAssumption DEF TypeOK
<1>3. ReqInv'
  BY DEF ReqInv, ReqOK, PhaseOK, QueueOK, DefersOK, HeldOK, WakeOK
<1>4. n \in Nat /\ \A j \in Queues : ceiling'[j] >= ceiling[j] /\ config'[j] <= ceiling'[j]
  BY Constants DEF TypeOK, LimitInv
<1>5. (LimitInv /\ LimitRespected)'
  <2>1. \A j \in Queues : config'[j] <= ceiling'[j] /\ active[j] <= ceiling'[j]
    BY <1>4, Constants DEF TypeOK, LimitRespected
  <2>2. \A p \in Requests : limit[p] <= ceiling'[UserOf[p]]
    BY <1>2, <1>4, Constants DEF TypeOK, LimitInv
  <2>3. \A p \in Requests, a \in Accounts : seen[p][a] <= ceiling'[a]
    BY <1>2, <1>4, Constants DEF TypeOK, LimitInv
  <2> QED
    BY <2>1, <2>2, <2>3 DEF LimitInv, LimitRespected
<1> QED
  BY <1>1, <1>2, <1>3, <1>5

\* The invariant speaks of the variables alone.
LEMMA StutterInv == ASSUME IInv, UNCHANGED vars PROVE IInv'
<1> USE DEF vars, shared, gate, db, wait, choice, retry, IInv
<1>1. SlotCount' /\ QueueCount'
  BY SlotsUnchanged, QueuesUnchanged
<1>2. TypeOK' /\ ReqInv'
  BY DEF TypeOK, ReqInv, ReqOK, PhaseOK, QueueOK, DefersOK, HeldOK, WakeOK
<1>3. (LimitInv /\ LimitRespected)'
  BY DEF LimitInv, LimitRespected
<1> QED
  BY <1>1, <1>2, <1>3

\* Every step preserves the inductive invariant.
LEMMA NextInv == ASSUME IInv, [Next]_vars PROVE IInv'
<1>1. ASSUME NEW p \in Requests, Arrive(p) \/ Wait(p) \/ WaitTick(p) \/ WaitPingFails(p) \/ Cancel(p) PROVE IInv'
  BY <1>1, ArriveInv, CheckInv, ReauthorizeInv, TakeUserInv, UserGrantedInv, RevalidateInv, AttemptFailsInv, EnqueueInv,
     WaitSignalInv, WaitTickInv, WaitPingFailsInv, CancelInv DEF Wait
<1>2. ASSUME NEW p \in Requests, Select(p) PROVE IInv'
  BY <1>2, TrackKeyInv, CandidatesInv, CandidatesFailInv, TryAccountInv, RecheckProfitInv, NoAccountInv, ChosenInv DEF Select
<1>3. ASSUME NEW p \in Requests, Serve(p) PROVE IInv'
  BY <1>3, PreflightInv, DispatchInv, UpstreamInv, SettleInv, RunDefersInv DEF Serve
<1>4. CASE StopAdmission \/ LoseInstance
  BY <1>4, StopAdmissionInv, LoseInstanceInv
<1>5. CASE \E k \in Queues, n \in Limits : SetLimit(k, n)
  BY <1>5, SetLimitInv
<1>6. CASE UNCHANGED vars
  BY <1>6, StutterInv
<1> QED
  BY <1>1, <1>2, <1>3, <1>4, <1>5, <1>6 DEF Next

\* The inductive invariant holds in every reachable state.
LEMMA Invariance == Spec => []IInv
  BY InitInv, NextInv, PTL DEF Spec

\* The counters of gatewayActive and gatewayWaiting and the locals of every
\* handler keep their types; in particular no counter becomes negative.
THEOREM TypeCorrect == Spec => []TypeOK
<1>1. IInv => TypeOK
  BY DEF IInv
<1> QED
  BY Invariance, <1>1, PTL

\* No early return of textGateway, chooseAccount or waitAdmission leaks a slot
\* or releases one twice: every counter of gatewayActive is the number of its
\* holders, and a finished request holds nothing.
THEOREM SlotsAreExact == Spec => []SlotAccounting
<1>1. IInv => SlotAccounting
  BY DEF IInv, SlotAccounting, SlotCount, Holders, ReqInv, ReqOK, PhaseOK, DefersOK, HeldOK, HasAccount
<1> QED
  BY Invariance, <1>1, PTL

\* waitAdmission counts its waiters exactly and keeps every queue, and all of
\* them together, within their caps.
THEOREM QueuesAreBounded == Spec => []QueueAccounting
<1>1. IInv => QueueAccounting
  BY DEF IInv, QueueAccounting, QueueCount, Queued, QueuedFor, ReqInv, ReqOK, QueueOK
<1> QED
  BY Invariance, <1>1, PTL

\* takeSlot, called with limits read long before, never lets a user or an
\* account exceed the largest limit it was given.
THEOREM LimitsHold == Spec => []LimitRespected
<1>1. IInv => LimitRespected
  BY DEF IInv
<1> QED
  BY Invariance, <1>1, PTL

\* No request in the select of waitAdmission sleeps through a releaseSlot or
\* StopAdmission that concerns it.
THEOREM NoWakeupIsLost == Spec => []NoLostWakeup
<1>1. IInv => NoLostWakeup
  BY DEF IInv, TypeOK, NoLostWakeup, ReqInv, ReqOK, WakeOK, PhaseOK
<1> QED
  BY Invariance, <1>1, PTL
=============================================================================
