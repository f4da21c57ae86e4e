------------------------------ MODULE Spending ------------------------------
(***************************************************************************)
(* The spending limits: the quota and the windows of an API key (keys.go,  *)
(* gatewayAuth), the limits of its user on a platform and the quota of the *)
(* account that serves it (quotas.go).  Requests are checked against the   *)
(* counters when they arrive and charged to them when they settle          *)
(* (applyReceipt in settlement.go); in between time passes, windows end,   *)
(* limits are edited and counters are reset.  One user with one key, one   *)
(* platform and one account; every request costs 1.  The fixed days of the *)
(* account begin at midnight: its reset hour and time zone are not edited. *)
(***************************************************************************)
EXTENDS Integers, Sequences, FiniteSets

CONSTANTS
    SpRequests,
    DayTicks,       \* 24 hours
    ShortTicks,     \* the 5 hours of a key
    LongTicks,      \* the 168 hours of a key, whole days
    MonthTicks,     \* the 720 hours of a platform
    SpLimits,       \* limits an administrator may set; 0 is none
    SpMaxClock, SpMaxSpent, SpMaxEdits      \* bounds

ASSUME SpAssumption ==
    /\ {DayTicks, ShortTicks, LongTicks, MonthTicks} \subseteq Nat \ {0} /\ LongTicks % DayTicks = 0
    /\ SpLimits \subseteq Nat /\ 0 \in SpLimits /\ {SpMaxClock, SpMaxSpent, SpMaxEdits} \subseteq Nat

VARIABLES
    spClock,
    spWindow,   \* by counter: usage and start (-1: NULL)
    spLimit,    \* by counter
    spKey,      \* quota, quota_used and status of the key
    spRow,      \* the user has a row in user_platform_quotas
    spReset,    \* quota_daily_reset_at of the account, -1 when unset
    spFixed,    \* quota_daily_reset_mode of the account is fixed
    spReq,      \* requests
    spAdmin,    \* resetPlatformQuota between its clock and its transaction
    spHist,     \* what was charged: [b]egun, [d]one, and the counters that hold it
    spCut,      \* history: how many charges came before the last switch that forgot them
    spEdits

spVars == <<spClock, spWindow, spLimit, spKey, spRow, spReset, spFixed, spReq, spAdmin, spHist, spCut, spEdits>>

KeyWindows == {"key5h", "key1d", "key7d"}
PlatformWindows == {"platformDay", "platformMonth"}
Windows == KeyWindows \cup PlatformWindows \cup {"accountDay"}

DayOf(t) == (t \div DayTicks) * DayTicks        \* date_trunc and quotaStarts
NullStart == -1
Length(w) == CASE w = "key5h" -> ShortTicks [] w = "key7d" -> LongTicks
               [] w = "platformMonth" -> MonthTicks [] OTHER -> DayTicks

SpInit ==
    /\ spClock = 0 /\ spWindow = [w \in Windows |-> [usage |-> 0, start |-> NullStart]]
    /\ \E n \in SpLimits : spLimit = [w \in Windows |-> n] /\ spKey = [quota |-> n, used |-> 0, status |-> "active"]
    /\ spRow = TRUE /\ spReset = NullStart /\ spFixed \in BOOLEAN
    /\ spReq = [r \in SpRequests |-> [at |-> "idle"]] /\ spAdmin = [at |-> "idle"]
    /\ spHist = <<>> /\ spCut = 0 /\ spEdits = 0
-----------------------------------------------------------------------------
(* The counters.                                                           *)

\* The window is over at time t: the CASE expressions of applyReceipt,
\* checkPlatformQuota and incrementPlatformQuota, and quotaExpired.
Over(w, t) ==
    CASE w = "platformDay" -> spWindow[w].start # DayOf(t)
      [] w = "accountDay" /\ spFixed -> spReset = NullStart \/ t >= spReset
      [] OTHER -> spWindow[w].start = NullStart \/ spWindow[w].start + Length(w) <= t

Counted(w, t) == IF Over(w, t) \/ (w \in PlatformWindows /\ ~spRow) THEN 0 ELSE spWindow[w].usage

\* A charge at time t: it opens a window where the last one is over.
ChargedStale(w, t) ==
    [usage |-> IF Over(w, t) /\ w # "key1d" THEN 1 ELSE spWindow[w].usage + 1,
     start |-> IF ~Over(w, t) THEN spWindow[w].start ELSE IF w \in {"key1d", "key7d", "platformDay"} THEN DayOf(t) ELSE t]
Charged(w, t) ==
    [usage |-> IF Over(w, t) THEN 1 ELSE spWindow[w].usage + 1,
     start |-> IF ~Over(w, t) THEN spWindow[w].start ELSE IF w \in {"key1d", "key7d", "platformDay"} THEN DayOf(t) ELSE t]

Emptied(ws) == [w \in Windows |-> IF w \in ws THEN [usage |-> 0, start |-> NullStart] ELSE spWindow[w]]
Forget(ws) == [i \in DOMAIN spHist |-> [spHist[i] EXCEPT !.in = @ \ ws]]
-----------------------------------------------------------------------------
(* What the properties compare the counters with: the charges that lie in  *)
(* the window of w at the present time.                                    *)

\* The charges in the counter of w that satisfy P, but for the first n.
SpentWhere(w, n, P(_)) == Cardinality({i \in DOMAIN spHist : i > n /\ w \in spHist[i].in /\ P(spHist[i])})

\* A window of a calendar day begins at midnight; the others begin with a charge.
Calendar(w) == w \in {"key1d", "platformDay"} \/ (w = "accountDay" /\ spFixed)
CutOf(w) == IF w = "accountDay" THEN spCut ELSE 0
SpentAtLeast(w) ==
    IF Calendar(w) THEN SpentWhere(w, CutOf(w), LAMBDA h : h.b >= DayOf(spClock))
    ELSE IF Over(w, spClock) THEN 0 ELSE SpentWhere(w, CutOf(w), LAMBDA h : h.b >= spWindow[w].start)
SpentAtMost(w) ==
    IF Calendar(w) THEN SpentWhere(w, 0, LAMBDA h : h.d >= DayOf(spClock))
    ELSE SpentWhere(w, 0, LAMBDA h : h.d > spClock - Length(w))
-----------------------------------------------------------------------------
(* A request: gatewayAuth, checkPlatformQuota and accountQuotaAvailable     *)
(* when it arrives, applyReceipt when it settles.                          *)

Within(w) == spLimit[w] = 0 \/ Counted(w, spClock) < spLimit[w]

KeyUsable ==
    /\ spKey.status = "active" /\ (spKey.quota = 0 \/ spKey.used < spKey.quota)
    /\ \A w \in KeyWindows : Within(w)

\* The limits let a request pass.
Usable == KeyUsable /\ \A w \in Windows \ KeyWindows : Within(w)

\* Which counters will be charged is fixed with the price of the request.
Arrive(r) ==
    /\ spReq[r].at = "idle" /\ Usable
    /\ spReq' = [spReq EXCEPT ![r] =
            [at |-> "sent", quota |-> spKey.quota > 0, windows |-> \E w \in KeyWindows : spLimit[w] > 0,
             account |-> spLimit["accountDay"] > 0, stamp |-> NullStart]]
    /\ UNCHANGED <<spClock, spWindow, spLimit, spKey, spRow, spReset, spFixed, spAdmin, spHist, spCut, spEdits>>

\* The transaction begins, which is the now() of its statements, and waits
\* for the lock of the user.
BeginSettle(r) ==
    /\ spReq[r].at = "sent" /\ spReq' = [spReq EXCEPT ![r].at = "settling", ![r].stamp = spClock]
    /\ UNCHANGED <<spClock, spWindow, spLimit, spKey, spRow, spReset, spFixed, spAdmin, spHist, spCut, spEdits>>

KeyCharged == [spKey EXCEPT !.used = @ + 1,
    !.status = IF @ = "active" /\ spKey.quota > 0 /\ spKey.used + 1 >= spKey.quota THEN "quota_exhausted" ELSE @]

\* With the lock: the key by now(), the account and the platform by the clock.
\* accountQuotaDelta leaves a window alone that has no limit.
Settle(r) ==
    LET q == spReq[r]
        hit == (IF q.windows THEN KeyWindows ELSE {})
               \cup (IF q.account /\ spLimit["accountDay"] > 0 THEN {"accountDay"} ELSE {})
               \cup (IF spRow THEN PlatformWindows ELSE {})
    IN
    /\ q.at = "settling" /\ Len(spHist) < SpMaxSpent
    /\ spKey' = IF q.quota THEN KeyCharged ELSE spKey
    /\ spWindow' = [w \in Windows |-> IF w \notin hit THEN spWindow[w]
                                      ELSE Charged(w, IF w \in KeyWindows THEN q.stamp ELSE spClock)]
    /\ spReset' = IF "accountDay" \in hit /\ spFixed /\ Over("accountDay", spClock) THEN DayOf(spClock) + DayTicks ELSE spReset
    /\ spHist' = Append(spHist, [b |-> q.stamp, d |-> spClock, in |-> hit])
    /\ spReq' = [spReq EXCEPT ![r] = [at |-> "idle"]]
    /\ UNCHANGED <<spClock, spLimit, spRow, spFixed, spAdmin, spCut, spEdits>>
-----------------------------------------------------------------------------
(* Edits and resets.                                                       *)

Edit == spEdits < SpMaxEdits /\ spEdits' = spEdits + 1

\* updateKey: each statement works on the row as it then is.  Raising the quota,
\* or lifting it, wakes an exhausted key; resetting it always does.
Recovers(q) == q = 0 \/ q > spKey.used

SetQuota(q) ==
    /\ Edit /\ spKey' = [spKey EXCEPT !.quota = q,
                            !.status = IF @ = "quota_exhausted" /\ Recovers(q) THEN "active" ELSE @]
    /\ UNCHANGED <<spClock, spWindow, spLimit, spRow, spReset, spFixed, spReq, spAdmin, spHist, spCut>>

ResetKeyQuota ==
    /\ Edit /\ spKey' = [spKey EXCEPT !.used = 0, !.status = IF @ = "quota_exhausted" THEN "active" ELSE @]
    /\ UNCHANGED <<spClock, spWindow, spLimit, spRow, spReset, spFixed, spReq, spAdmin, spHist, spCut>>

SetKeyState(status) ==
    /\ Edit /\ spKey' = [spKey EXCEPT !.status = status]
    /\ UNCHANGED <<spClock, spWindow, spLimit, spRow, spReset, spFixed, spReq, spAdmin, spHist, spCut>>

\* The limits of the windows (updateKey, updateAccount, setPlatformQuotas), which
\* leave the counters alone.
SetLimits(ws, n) ==
    /\ Edit /\ spLimit' = [w \in Windows |-> IF w \in ws THEN n ELSE spLimit[w]]
    /\ UNCHANGED <<spClock, spWindow, spKey, spRow, spReset, spFixed, spReq, spAdmin, spHist, spCut>>

\* updateAccount with a quota_daily_reset_mode, which leaves the counter and its
\* times alone.  Fixed days start over unless one of them is open.
SetResetMode(fixed) ==
    /\ Edit /\ fixed # spFixed /\ spFixed' = fixed
    /\ spCut' = IF fixed /\ (spReset = NullStart \/ spClock >= spReset) THEN Len(spHist) ELSE spCut
    /\ UNCHANGED <<spClock, spWindow, spLimit, spKey, spRow, spReset, spReq, spAdmin, spHist>>

\* resetKeyWindows, by the owner and by an administrator.
ResetKeyWindows ==
    /\ Edit /\ spWindow' = Emptied(KeyWindows) /\ spHist' = Forget(KeyWindows)
    /\ UNCHANGED <<spClock, spLimit, spKey, spRow, spReset, spFixed, spReq, spAdmin, spCut>>

\* accountState: reset-quota.
ResetAccountQuota ==
    /\ Edit /\ spWindow' = Emptied({"accountDay"}) /\ spHist' = Forget({"accountDay"}) /\ spReset' = NullStart
    /\ UNCHANGED <<spClock, spLimit, spKey, spRow, spFixed, spReq, spAdmin, spCut>>

\* setPlatformQuotas without the platform drops the row; with it again, a new
\* row starts from nothing.
TogglePlatformRow ==
    /\ Edit /\ spRow' = ~spRow /\ spWindow' = Emptied(PlatformWindows) /\ spHist' = Forget(PlatformWindows)
    /\ UNCHANGED <<spClock, spLimit, spKey, spReset, spFixed, spReq, spAdmin, spCut>>

\* resetPlatformQuota reads the clock before it waits for the lock of the user.
BeginReset(w) ==
    /\ spAdmin.at = "idle" /\ Edit /\ spAdmin' = [at |-> "reset", window |-> w, now |-> spClock]
    /\ UNCHANGED <<spClock, spWindow, spLimit, spKey, spRow, spReset, spFixed, spReq, spHist, spCut>>

EndReset ==
    LET w == spAdmin.window IN
    /\ spAdmin.at = "reset" /\ spAdmin' = [at |-> "idle"]
    /\ IF spRow
       THEN /\ spWindow' = [spWindow EXCEPT ![w] = [usage |-> 0,
                    start |-> IF w = "platformDay" THEN DayOf(spAdmin.now) ELSE spAdmin.now]]
            /\ spHist' = Forget({w})
       ELSE UNCHANGED <<spWindow, spHist>>
    /\ UNCHANGED <<spClock, spLimit, spKey, spRow, spReset, spFixed, spReq, spCut, spEdits>>

Pass ==
    /\ spClock < SpMaxClock /\ spClock' = spClock + 1
    /\ UNCHANGED <<spWindow, spLimit, spKey, spRow, spReset, spFixed, spReq, spAdmin, spHist, spCut, spEdits>>

SpendingNext ==
    \/ \E r \in SpRequests : Arrive(r) \/ BeginSettle(r) \/ Settle(r)
    \/ \E n \in SpLimits : SetQuota(n) \/ \E ws \in {KeyWindows, {"accountDay"}, PlatformWindows} : SetLimits(ws, n)
    \/ \E status \in {"active", "inactive"} : SetKeyState(status)
    \/ \E w \in PlatformWindows : BeginReset(w) \/ \E fixed \in BOOLEAN : SetResetMode(fixed)
    \/ ResetKeyQuota \/ ResetKeyWindows \/ ResetAccountQuota \/ TogglePlatformRow \/ EndReset \/ Pass

SpendingSpec == SpInit /\ [][SpendingNext]_spVars
-----------------------------------------------------------------------------
\* What a check reads is what was charged: everything settled within the window
\* of now, and nothing from before it, whenever a window ended between the check
\* of a request and its settlement.  A settlement that spans the end of a key's
\* window may fall on either side (quotas.go, and the windows of applyReceipt);
\* and what was charged before an account was switched from rolling days to
\* fixed ones, none of which was open, may be forgotten (quotas.go:59-65).
WindowsExact ==
    \A w \in Windows : /\ SpentAtLeast(w) <= Counted(w, spClock)
                       /\ Counted(w, spClock) <= SpentAtMost(w)

\* A request passes only if what was really spent (and not forgotten by such a
\* switch) is under every limit, and is
\* turned away only for what was spent in a window of now, for the quota or for
\* the status of the key (gatewayAuth, checkPlatformQuota, accountQuotaAvailable).
VerdictExact ==
    LET limited == {w \in Windows : spLimit[w] > 0} IN
    IF Usable THEN \A w \in limited : SpentAtLeast(w) < spLimit[w]
    ELSE \/ \E w \in limited : SpentAtMost(w) >= spLimit[w]
         \/ spKey.status # "active" \/ (spKey.quota > 0 /\ spKey.used >= spKey.quota)

\* A key is exhausted only while its quota is: no order of charges, resets and
\* edits of the quota leaves it shut with quota to spend (updateKey, applyReceipt).
NoStuckKey == spKey.status = "quota_exhausted" => spKey.quota > 0 /\ spKey.used >= spKey.quota

\* Limits judge by what was spent: the windows count exactly that, a verdict
\* agrees with them, and no key stays shut with quota to spend.  The one exception
\* is what a switch of an account to fixed days forgets, see WindowsExact.
SpendingExact == WindowsExact /\ VerdictExact /\ NoStuckKey
=============================================================================
