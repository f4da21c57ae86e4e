---------------------------- MODULE AccountHealth ---------------------------
(***************************************************************************)
(* The health of one upstream account: what requests report of it          *)
(* (markGatewayFailure, markStreamTimeout, markBalanceFailure), what the   *)
(* balance probes and the scheduled tests make of it, and what             *)
(* administrators do meanwhile (accountState, updateAccount,               *)
(* deleteAccount).  Each of the automatic ones works with a row it read    *)
(* before it spoke to the upstream, and writes with the condition that     *)
(* updated_at is still the one it read: ver, a new one for every write.    *)
(***************************************************************************)
EXTENDS Integers, FiniteSets

CONSTANTS
    HaRequests,
    TimeoutThreshold,           \* threshold_count of the stream timeout settings
    Cooldowns,                  \* lengths of cooldowns
    HaMaxClock, HaMaxVer, HaMaxAdmin, HaMaxPlan,    \* bounds: time, writes of the account, of administrators, of the plan
    HaMaxBusy                   \* bound: activities under way at a time

ASSUME HaAssumption ==
    /\ TimeoutThreshold \in Nat \ {0} /\ Cooldowns \subseteq Nat \ {0}
    /\ {HaMaxClock, HaMaxAdmin, HaMaxPlan, HaMaxBusy} \subseteq Nat /\ HaMaxVer \in Nat \ {0}

VARIABLES
    haClock,
    haAcct,     \* the row: live, status, sched, ver, until (by cooldown) and why, of the temporary one
    haReq, haProbe, haTest,     \* what is under way, with the row it read
    haCount,    \* the counters of timeouts in Redis, by version
    haPlan,     \* a scheduled test of the account: none, on or off, and its updated_at
    haSave,     \* saveTestPlan between the lock of the account and its write
    haEpoch,    \* actions of administrators so far
    haGhost     \* for the properties: see below

haVars == <<haClock, haAcct, haReq, haProbe, haTest, haCount, haPlan, haSave, haEpoch, haGhost>>
haRun == <<haReq, haProbe, haTest>>
haPlans == <<haPlan, haSave>>

Cooldown == {"rate", "overload", "temp"}
HaIdle == [at |-> "idle"]
NoSave == [at |-> "idle", lock |-> FALSE]

\* asked: the end of each cooldown that was imposed and that nobody entitled to
\* has lifted since.  late: an automatic write came from a read older than the
\* last action of an administrator.  reports: timeouts since the row last changed.
\* unearned: an account was put out with fewer of them than the threshold.
HaInit ==
    /\ haClock = 1
    /\ haAcct = [live |-> TRUE, status |-> "active", sched |-> TRUE, ver |-> 1,
                 until |-> [c \in Cooldown |-> 0], why |-> "none"]
    /\ haReq = [r \in HaRequests |-> HaIdle] /\ haProbe = HaIdle /\ haTest = HaIdle
    /\ haCount = [v \in 1..HaMaxVer |-> 0]
    /\ haPlan = [state |-> "none", ver |-> 0] /\ haSave = NoSave /\ haEpoch = 0
    /\ haGhost = [asked |-> [c \in Cooldown |-> 0], late |-> FALSE, reports |-> 0, unearned |-> FALSE]

\* How much is under way.
Busy == Cardinality({r \in HaRequests : haReq[r] # HaIdle}) + Cardinality({x \in {haProbe, haTest} : x # HaIdle})
        + Cardinality({haSave} \ {NoSave})
MayBegin == Busy < HaMaxBusy

Later(a, b) == IF a >= b THEN a ELSE b              \* GREATEST
Running(c) == haAcct.until[c] > haClock
Schedulable == haAcct.live /\ haAcct.status = "active" /\ haAcct.sched /\ \A c \in Cooldown : ~Running(c)

\* The condition of every automatic write.
UnchangedIgnored(x) == haAcct.live
Unchanged(x) == haAcct.live /\ haAcct.ver = x.ver

\* Every write of the row: the new content, with its new updated_at.
Write(row) == haAcct.ver < HaMaxVer /\ haAcct' = [row EXCEPT !.ver = haAcct.ver + 1]

Learned(x) == [haGhost EXCEPT !.late = @ \/ x.epoch # haEpoch, !.reports = 0]
Asks(g, c, t) == [g EXCEPT !.asked[c] = Later(@, t)]
-----------------------------------------------------------------------------
(* A request: chooseAccount lists the schedulable accounts and then loads  *)
(* them one by one; the row may have changed in between.                   *)

ListAccount(r) ==
    /\ haReq[r] = HaIdle /\ MayBegin /\ Schedulable /\ haReq' = [haReq EXCEPT ![r] = [at |-> "listed"]]
    /\ UNCHANGED <<haClock, haAcct, haProbe, haTest, haCount, haPlans, haEpoch, haGhost>>

LoadAccount(r) ==
    /\ haReq[r].at = "listed"
    /\ haReq' = [haReq EXCEPT ![r] = IF haAcct.live THEN [at |-> "sent", ver |-> haAcct.ver, epoch |-> haEpoch] ELSE HaIdle]
    /\ UNCHANGED <<haClock, haAcct, haProbe, haTest, haCount, haPlans, haEpoch, haGhost>>

Answered(r) == haReq[r].at = "sent" /\ haReq' = [haReq EXCEPT ![r] = HaIdle]

Succeed(r) == Answered(r) /\ UNCHANGED <<haClock, haAcct, haProbe, haTest, haCount, haPlans, haEpoch, haGhost>>

\* markGatewayFailure for 401 and 403, and for 429 and the codes of overload,
\* which never shorten a cooldown.
Reject(r) ==
    /\ Answered(r)
    /\ IF Unchanged(haReq[r]) /\ haAcct.status = "active"
       THEN Write([haAcct EXCEPT !.status = "error"]) /\ haGhost' = Learned(haReq[r])
       ELSE UNCHANGED <<haAcct, haGhost>>
    /\ UNCHANGED <<haClock, haProbe, haTest, haCount, haPlans, haEpoch>>


Limit(r, c, len) ==
    /\ Answered(r)
    /\ IF Unchanged(haReq[r]) /\ haAcct.status = "active"
       THEN /\ Write([haAcct EXCEPT !.until[c] = Later(@, haClock + len)])
            /\ haGhost' = Asks(Learned(haReq[r]), c, haClock + len)
       ELSE UNCHANGED <<haAcct, haGhost>>
    /\ UNCHANGED <<haClock, haProbe, haTest, haCount, haPlans, haEpoch>>

\* A temporary cooldown may be set by the balance: over, or already of that kind.
BalanceMay == ~Running("temp") \/ haAcct.why = "balance"

\* markBalanceFailure.
OutOfBalance(r, len) ==
    /\ Answered(r)
    /\ IF Unchanged(haReq[r]) /\ haAcct.status = "active" /\ haAcct.sched
       THEN /\ Write(IF BalanceMay THEN [haAcct EXCEPT !.until["temp"] = haClock + len, !.why = "balance"] ELSE haAcct)
            /\ haGhost' = Learned(haReq[r])
       ELSE UNCHANGED <<haAcct, haGhost>>
    /\ UNCHANGED <<haClock, haProbe, haTest, haCount, haPlans, haEpoch>>

\* markStreamTimeout: the counter of the version that the request read, one
\* when Redis fails, and the verdict at the threshold, by the action configured.
TimeoutCounter(x) == x.ver

TimedOut(r, len, error, redis) ==
    LET x == haReq[r]
        v == TimeoutCounter(x)
        n == IF redis THEN haCount[v] + 1 ELSE 1
        seen == IF x.ver = haAcct.ver /\ haGhost.reports < TimeoutThreshold THEN haGhost.reports + 1 ELSE haGhost.reports
        verdict == n >= TimeoutThreshold /\ Unchanged(x) /\ haAcct.status = "active" /\ haAcct.sched
        longer == haAcct.until["temp"] < haClock + len
        told == [Learned(x) EXCEPT !.unearned = @ \/ (redis /\ seen < TimeoutThreshold)]
    IN
    /\ Answered(r)
    /\ haCount' = [haCount EXCEPT ![v] = IF verdict THEN 0 ELSE IF redis /\ @ < TimeoutThreshold THEN n ELSE @]
    /\ IF verdict
       THEN /\ Write(IF error THEN [haAcct EXCEPT !.status = "error"]
                     ELSE [haAcct EXCEPT !.until["temp"] = Later(@, haClock + len), !.why = IF longer THEN "timeout" ELSE @])
            /\ haGhost' = IF ~error /\ longer THEN Asks(told, "temp", haClock + len) ELSE told
       ELSE haAcct' = haAcct /\ haGhost' = [haGhost EXCEPT !.reports = seen]
    /\ UNCHANGED <<haClock, haProbe, haTest, haPlans, haEpoch>>

\* The counter of a version expires with its window.
ForgetTimeouts(v) ==
    /\ haCount[v] > 0 /\ haCount' = [haCount EXCEPT ![v] = 0]
    /\ UNCHANGED <<haClock, haAcct, haRun, haPlans, haEpoch, haGhost>>
-----------------------------------------------------------------------------
(* Balance probes: runBalanceChecks for the accounts in use, accountBalance *)
(* for any; only the former decides about scheduling.                      *)

BeginProbe(schedule) ==
    /\ haProbe = HaIdle /\ MayBegin /\ haAcct.live /\ (schedule => haAcct.status = "active" /\ haAcct.sched)
    /\ haProbe' = [at |-> "asked", ver |-> haAcct.ver, epoch |-> haEpoch, schedule |-> schedule]
    /\ UNCHANGED <<haClock, haAcct, haReq, haTest, haCount, haPlans, haEpoch, haGhost>>

\* What a probe makes of the row: it pauses an account of low balance that is
\* otherwise fine, and ends the pause of one that has balance again.
Probed(p, low, len) ==
    IF ~(p.schedule /\ haAcct.status = "active" /\ haAcct.sched) THEN haAcct
    ELSE IF low /\ BalanceMay /\ ~Running("rate") /\ ~Running("overload")
    THEN [haAcct EXCEPT !.until["temp"] = haClock + len, !.why = "balance"]
    ELSE IF ~low /\ haAcct.why = "balance" THEN [haAcct EXCEPT !.until["temp"] = 0, !.why = "none"]
    ELSE haAcct

EndProbe(low, len) ==
    /\ haProbe # HaIdle /\ haProbe' = HaIdle
    /\ IF Unchanged(haProbe) THEN Write(Probed(haProbe, low, len)) /\ haGhost' = Learned(haProbe)
       ELSE UNCHANGED <<haAcct, haGhost>>
    /\ UNCHANGED <<haClock, haReq, haTest, haCount, haPlans, haEpoch>>

\* The request or the answer failed: nothing is written.
ProbeFails ==
    /\ haProbe # HaIdle /\ haProbe' = HaIdle
    /\ UNCHANGED <<haClock, haAcct, haReq, haTest, haCount, haPlans, haEpoch, haGhost>>
-----------------------------------------------------------------------------
(* Scheduled tests: runDueTests takes the due plans, runTestPlan looks     *)
(* again and loads the account, then settles with account and plan locked. *)

TakePlan ==
    /\ haTest = HaIdle /\ MayBegin /\ haPlan.state = "on" /\ haAcct.live /\ haTest' = [at |-> "due", plan |-> haPlan.ver]
    /\ UNCHANGED <<haClock, haAcct, haReq, haProbe, haCount, haPlans, haEpoch, haGhost>>

BeginTest ==
    /\ haTest.at = "due"
    /\ haTest' = IF haPlan.state = "on" /\ haPlan.ver = haTest.plan /\ haAcct.live
                 THEN [at |-> "asked", plan |-> haTest.plan, ver |-> haAcct.ver, epoch |-> haEpoch] ELSE HaIdle
    /\ UNCHANGED <<haClock, haAcct, haReq, haProbe, haCount, haPlans, haEpoch, haGhost>>

Recovered == [haAcct EXCEPT !.status = IF @ = "error" THEN "active" ELSE @, !.until = [c \in Cooldown |-> 0], !.why = "none"]

\* A success lifts what it saw, if the plan says so: recoverTestAccountSQL.
EndTest(success) ==
    /\ haTest.at = "asked" /\ haSave = NoSave /\ haTest' = HaIdle
    /\ IF success /\ haPlan.state # "none" /\ haPlan.ver = haTest.plan
            /\ Unchanged(haTest) /\ haAcct.status # "inactive" /\ haAcct.sched
       THEN /\ Write(Recovered)
            /\ haGhost' = [Learned(haTest) EXCEPT !.asked = IF haAcct.ver = haTest.ver THEN [c \in Cooldown |-> 0] ELSE @]
       ELSE UNCHANGED <<haAcct, haGhost>>
    /\ UNCHANGED <<haClock, haReq, haProbe, haCount, haPlans, haEpoch>>

\* saveTestPlan: the account is locked until the plan is written.
BeginSave ==
    /\ haSave = NoSave /\ MayBegin /\ haAcct.live /\ haPlan.ver < HaMaxPlan /\ haSave' = [at |-> "saving", lock |-> TRUE]
    /\ UNCHANGED <<haClock, haAcct, haRun, haCount, haPlan, haEpoch, haGhost>>

EndSave(state) ==
    /\ haSave # NoSave /\ haSave' = NoSave
    /\ haPlan' = [state |-> state, ver |-> haPlan.ver + 1]
    /\ UNCHANGED <<haClock, haAcct, haRun, haCount, haEpoch, haGhost>>

DropPlan ==
    /\ haPlan.state # "none" /\ haSave = NoSave /\ haPlan' = [haPlan EXCEPT !.state = "none"]
    /\ UNCHANGED <<haClock, haAcct, haRun, haCount, haSave, haEpoch, haGhost>>
-----------------------------------------------------------------------------
(* Administrators: accountState, updateAccount and deleteAccount.          *)

Administer(row, lifted) ==
    /\ haAcct.live /\ ~haSave.lock /\ haEpoch < HaMaxAdmin /\ haEpoch' = haEpoch + 1 /\ Write(row)
    /\ haGhost' = [haGhost EXCEPT !.reports = 0, !.asked = [c \in Cooldown |-> IF c \in lifted THEN 0 ELSE @[c]]]
    /\ UNCHANGED <<haClock, haRun, haCount, haSave>>

SetSchedulable == Administer([haAcct EXCEPT !.sched = ~@], {}) /\ UNCHANGED haPlan
SetStatus(s) == Administer([haAcct EXCEPT !.status = s], {}) /\ UNCHANGED haPlan
ClearTemp == Administer([haAcct EXCEPT !.until["temp"] = 0, !.why = "none"], {"temp"}) /\ UNCHANGED haPlan
ClearRateLimit == Administer([haAcct EXCEPT !.until = [c \in Cooldown |-> 0], !.why = "none"], Cooldown) /\ UNCHANGED haPlan
ClearError == Administer([haAcct EXCEPT !.status = IF @ = "error" THEN "active" ELSE @], {}) /\ UNCHANGED haPlan
ResetQuota == Administer([haAcct EXCEPT !.until["rate"] = 0], {"rate"}) /\ UNCHANGED haPlan
RecoverState == Administer(Recovered, Cooldown) /\ UNCHANGED haPlan

DeleteAccount ==
    /\ Administer([haAcct EXCEPT !.live = FALSE, !.status = "inactive", !.sched = FALSE], {})
    /\ haPlan' = IF haPlan.state = "none" THEN haPlan ELSE [state |-> "off", ver |-> haPlan.ver + 1]

Elapse ==
    /\ haClock < HaMaxClock /\ haClock' = haClock + 1
    /\ UNCHANGED <<haAcct, haRun, haCount, haPlans, haEpoch, haGhost>>

HealthNext ==
    \/ \E r \in HaRequests : \/ ListAccount(r) \/ LoadAccount(r) \/ Succeed(r) \/ Reject(r)
                             \/ \E len \in Cooldowns : \/ \E c \in {"rate", "overload"} : Limit(r, c, len)
                                                       \/ OutOfBalance(r, len)
                                                       \/ \E error, redis \in BOOLEAN : TimedOut(r, len, error, redis)
    \/ \E v \in 1..HaMaxVer : ForgetTimeouts(v)
    \/ \E schedule \in BOOLEAN : BeginProbe(schedule)
    \/ \E low \in BOOLEAN, len \in Cooldowns : EndProbe(low, len)
    \/ ProbeFails \/ TakePlan \/ BeginTest \/ BeginSave \/ DropPlan
    \/ \E success \in BOOLEAN : EndTest(success)
    \/ \E state \in {"on", "off"} : EndSave(state)
    \/ SetSchedulable \/ (\E s \in {"active", "inactive"} : SetStatus(s)) \/ ClearTemp \/ ClearRateLimit
    \/ ClearError \/ ResetQuota \/ RecoverState \/ DeleteAccount \/ Elapse

HealthSpec == HaInit /\ [][HealthNext]_haVars
-----------------------------------------------------------------------------
\* No failure, probe or test that read the account before an administrator acted
\* on it writes to it afterwards: "an old in-flight failure cannot ... undo that
\* administrator action" (stream_timeout.go), however long its upstream took.
AdminHasLastWord == ~haGhost.late

\* A cooldown that a failure imposed lasts until its end unless an administrator
\* lifts it or a test succeeds that began after it: later and shorter ones do not
\* shorten it, and the balance probe clears no cooldown of another origin
\* (markGatewayFailure, markStreamTimeout, probeAccountBalance).
CooldownsKept == \A c \in Cooldown : haGhost.asked[c] > haClock => haAcct.until[c] >= haGhost.asked[c]

\* An account is put out for timeouts only after the configured number of them
\* since it was last edited or written (the counter of markStreamTimeout).
TimeoutsEarned == ~haGhost.unearned

\* A deleted account has no enabled test, though a plan may be under way while
\* it is deleted (saveTestPlan: "can accept a soft-deleted account").
NoTestOfDeleted == ~haAcct.live => haPlan.state # "on"

\* An account's health is what was last known of it: administrators have the
\* last word, cooldowns run their time and are earned, and a deleted account is
\* not tested.
HealthFaithful == AdminHasLastWord /\ CooldownsKept /\ TimeoutsEarned /\ NoTestOfDeleted
=============================================================================
