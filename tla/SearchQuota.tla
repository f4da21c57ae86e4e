----------------------------- MODULE SearchQuota -----------------------------
(***************************************************************************)
(* The monthly quota of the web search providers (web_search.go).  A       *)
(* search reads what is left at each provider, orders them, and for each   *)
(* one in turn reserves a unit, asks the provider and gives the unit back  *)
(* when the provider fails.  The counter is a key in Redis with an epoch;  *)
(* it expires at the end of the month, and an administrator may delete it, *)
(* between any two of these steps.                                         *)
(*                                                                         *)
(* The random weights are a choice among the orders they can produce.      *)
(***************************************************************************)
EXTENDS Integers, Sequences, FiniteSets, FiniteSetsExt

CONSTANTS
    SqProviders,    \* the configured providers, in order
    SqSearches,
    SqLimits,       \* quotas an administrator may set; 0 is none
    SqMaxTurns,     \* bound: ends of a month, resets and edits
    SqMaxFaults     \* bound: failures of Redis

ASSUME SqAssumption ==
    /\ SqProviders \in Seq(STRING) /\ IsFiniteSet(SqSearches)
    /\ SqLimits \subseteq Nat /\ \E n \in SqLimits : \A m \in SqLimits : m <= n
    /\ SqMaxTurns \in Nat /\ SqMaxFaults \in Nat

VARIABLES
    sqLimit,    \* the saved quota of each provider
    sqKey,      \* the counter: [epoch, used], epoch 0 when the key is absent
    sqSearch,   \* the searches
    sqServed,   \* answers obtained under each epoch
    sqLost,     \* units of each epoch whose reservation or return went unanswered
    sqEpoch,    \* epochs used so far
    sqTurns, sqFaults

sqVars == <<sqLimit, sqKey, sqSearch, sqServed, sqLost, sqEpoch, sqTurns, sqFaults>>

Kinds == {SqProviders[i] : i \in DOMAIN SqProviders}
Epochs == 1..(SqMaxTurns + Cardinality(Kinds))
NoKey == [epoch |-> 0, used |-> 0]

SqInit ==
    /\ sqLimit \in [Kinds -> SqLimits]
    /\ sqKey = [p \in Kinds |-> NoKey]
    /\ sqSearch = [s \in SqSearches |-> [phase |-> "idle"]]
    /\ sqServed = [e \in Epochs |-> 0] /\ sqLost = [e \in Epochs |-> 0]
    /\ sqEpoch = 0 /\ sqTurns = 0 /\ sqFaults = 0
-----------------------------------------------------------------------------
Become(s, r) == sqSearch' = [sqSearch EXCEPT ![s] = r]
EndSearch(s, outcome) == Become(s, [phase |-> outcome])
SqFault == sqFaults < SqMaxFaults /\ sqFaults' = sqFaults + 1
SqSame == UNCHANGED <<sqLimit, sqTurns>>

Metered(r, p) == ~r.test /\ r.limit[p] > 0

\* runWebSearch receives the configuration as it is now.
BeginSearch(s, test) ==
    /\ sqSearch[s].phase = "idle"
    /\ Become(s, [phase |-> "weigh", limit |-> sqLimit, test |-> test, next |-> 1, left |-> [p \in {} |-> 0]])
    /\ UNCHANGED <<sqKey, sqServed, sqLost, sqEpoch, sqFaults>> /\ SqSame

\* One provider is weighed after another. One that has expired or has nothing
\* left is not a candidate; one without a quota weighs nothing.
Weigh(s) ==
    LET r == sqSearch[s]
        p == SqProviders[r.next]
        rest == r.limit[p] - sqKey[p].used
    IN /\ r.phase = "weigh" /\ r.next <= Len(SqProviders)
       /\ \/ Become(s, [r EXCEPT !.next = @ + 1]) /\ UNCHANGED sqFaults
          \/ /\ Metered(r, p) => rest > 0
             /\ Become(s, [r EXCEPT !.next = @ + 1,
                    !.left = [q \in DOMAIN @ \cup {p} |-> IF q # p THEN @[q] ELSE IF Metered(r, p) THEN rest ELSE 0]])
             /\ UNCHANGED sqFaults
          \/ Metered(r, p) /\ SqFault /\ EndSearch(s, "failed")
       /\ UNCHANGED <<sqKey, sqServed, sqLost, sqEpoch>> /\ SqSame

\* Each weight is what is left times a number from [0.5, 1.5).
MayPrecede(left, p, q) ==
    \/ 3 * left[p] > left[q]
    \/ /\ left[p] = 0 /\ left[q] = 0
       /\ \E i, j \in DOMAIN SqProviders : i < j /\ SqProviders[i] = p /\ SqProviders[j] = q

Order(s) ==
    LET r == sqSearch[s]
        n == Cardinality(DOMAIN r.left)
    IN /\ r.phase = "weigh" /\ r.next > Len(SqProviders)
       /\ \E queue \in [1..n -> DOMAIN r.left] :
             /\ \A i, j \in 1..n : i < j => queue[i] # queue[j] /\ MayPrecede(r.left, queue[i], queue[j])
             /\ Become(s, [phase |-> "try", limit |-> r.limit, test |-> r.test, queue |-> queue, epoch |-> 0])
       /\ UNCHANGED <<sqKey, sqServed, sqLost, sqEpoch, sqFaults>> /\ SqSame

\* The script webSearchReserve on the key of p: what it answers and leaves.
Reserved(p, limit) ==
    LET k == sqKey[p] IN
    IF k.used >= limit THEN k
    ELSE [epoch |-> IF k.epoch = 0 THEN sqEpoch + 1 ELSE k.epoch, used |-> k.used + 1]

\* A search that is canceled, that has no candidate left, that asks without a
\* quota, that reserves, finds the quota used up, or fails: then the script has
\* run or has not.
Reserve(s) ==
    LET r == sqSearch[s] IN
    /\ r.phase = "try"
    /\ IF r.queue = <<>>
       THEN EndSearch(s, "none") /\ UNCHANGED <<sqKey, sqLost, sqEpoch, sqFaults>>
       ELSE LET p == Head(r.queue)
                key == Reserved(p, r.limit[p])
                Count == sqKey' = [sqKey EXCEPT ![p] = key] /\ sqEpoch' = Max({sqEpoch, key.epoch})
            IN \/ EndSearch(s, "canceled") /\ UNCHANGED <<sqKey, sqLost, sqEpoch, sqFaults>>
               \/ /\ ~Metered(r, p) /\ Become(s, [r EXCEPT !.phase = "ask", !.epoch = 0])
                  /\ UNCHANGED <<sqKey, sqLost, sqEpoch, sqFaults>>
               \/ /\ Metered(r, p) /\ Count /\ UNCHANGED <<sqLost, sqFaults>>
                  /\ Become(s, IF key = sqKey[p] THEN [r EXCEPT !.queue = Tail(@)]
                               ELSE [r EXCEPT !.phase = "ask", !.epoch = key.epoch])
               \/ /\ Metered(r, p) /\ SqFault /\ EndSearch(s, "failed")
                  /\ \/ UNCHANGED <<sqKey, sqLost, sqEpoch>>
                     \/ key # sqKey[p] /\ Count /\ sqLost' = [sqLost EXCEPT ![key.epoch] = @ + 1]
    /\ UNCHANGED sqServed /\ SqSame

\* searchProvider answers or fails.
Ask(s) ==
    LET r == sqSearch[s] IN
    /\ r.phase = "ask"
    /\ \/ /\ EndSearch(s, "served")
          /\ sqServed' = IF r.epoch = 0 THEN sqServed ELSE [sqServed EXCEPT ![r.epoch] = @ + 1]
       \/ /\ Become(s, IF r.epoch = 0 THEN [r EXCEPT !.phase = "try", !.queue = Tail(@)] ELSE [r EXCEPT !.phase = "return"])
          /\ UNCHANGED sqServed
    /\ UNCHANGED <<sqKey, sqLost, sqEpoch, sqFaults>> /\ SqSame

\* The script webSearchRollback.
ReturnedAnyEpoch(p, epoch) == [sqKey[p] EXCEPT !.used = IF @ > 0 THEN @ - 1 ELSE 0]

Returned(p, epoch) ==
    IF sqKey[p].epoch = epoch /\ sqKey[p].used > 0 THEN [sqKey[p] EXCEPT !.used = @ - 1] ELSE sqKey[p]

Return(s) ==
    LET r == sqSearch[s]
        p == Head(r.queue)
        GiveBack == sqKey' = [sqKey EXCEPT ![p] = Returned(p, r.epoch)] /\ UNCHANGED sqLost
    IN /\ r.phase = "return"
       /\ \/ GiveBack /\ Become(s, [r EXCEPT !.phase = "try", !.queue = Tail(@), !.epoch = 0]) /\ UNCHANGED sqFaults
          \/ /\ SqFault /\ EndSearch(s, "failed")
             /\ \/ GiveBack
                \/ sqLost' = [sqLost EXCEPT ![r.epoch] = @ + 1] /\ UNCHANGED sqKey
       /\ UNCHANGED <<sqServed, sqEpoch>> /\ SqSame

\* The key expires, or resetWebSearch deletes it.
EndMonth(p) ==
    /\ sqKey[p].epoch > 0 /\ sqTurns < SqMaxTurns /\ sqTurns' = sqTurns + 1
    /\ sqKey' = [sqKey EXCEPT ![p] = NoKey]
    /\ UNCHANGED <<sqLimit, sqSearch, sqServed, sqLost, sqEpoch, sqFaults>>

SetLimit(p, n) ==
    /\ sqLimit[p] # n /\ sqTurns < SqMaxTurns /\ sqTurns' = sqTurns + 1
    /\ sqLimit' = [sqLimit EXCEPT ![p] = n]
    /\ UNCHANGED <<sqKey, sqSearch, sqServed, sqLost, sqEpoch, sqFaults>>

SqNext ==
    \/ \E s \in SqSearches : (\E test \in BOOLEAN : BeginSearch(s, test)) \/ Weigh(s) \/ Order(s) \/ Reserve(s) \/ Ask(s) \/ Return(s)
    \/ \E p \in Kinds : EndMonth(p) \/ \E n \in SqLimits : SetLimit(p, n)

SqSpec == SqInit /\ [][SqNext]_sqVars
-----------------------------------------------------------------------------
\* The searches that hold a unit of an epoch.
Holding(e) == Cardinality({s \in SqSearches : sqSearch[s].phase \in {"ask", "return"} /\ sqSearch[s].epoch = e})

\* The counter of the current month is exactly what was obtained from the
\* provider in it, what is under way and what a failure of Redis left reserved:
\* a failed search costs nothing, and a unit of an earlier month or of before a
\* reset is never given back to this one.
QuotaExact ==
    \A p \in Kinds : LET k == sqKey[p] IN
        k.epoch > 0 => k.used = sqServed[k.epoch] + Holding(k.epoch) + sqLost[k.epoch]

\* However many searches run at once and read the same remainder, a month never
\* has more of them than the largest quota that was set.
QuotaRespected == \A e \in Epochs : sqServed[e] + Holding(e) <= Max(SqLimits)

\* The monthly quota of searches is neither overspent nor spent on nothing.
QuotaKept == QuotaExact /\ QuotaRespected
=============================================================================
