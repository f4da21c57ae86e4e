----------------------------- MODULE ProxyRoutes ----------------------------
(***************************************************************************)
(* Outbound proxies and what refers to them (proxies.go, proxy_fallback.go *)
(* and the proxy side of accounts.go, billing_probe.go and web_search.go). *)
(* Proxies form a graph of fallbacks.  Edits of the graph, assignments to  *)
(* accounts, the expiry worker, reverts and the search configuration take  *)
(* the advisory lock 720034, check, and write when they commit; a billing  *)
(* probe measures an account without it and takes it only to write.        *)
(*                                                                         *)
(* updated_at of an account is modelled by what compares it: a probe is    *)
(* stale once the account it loaded has been written.                      *)
(***************************************************************************)
EXTENDS Integers, FiniteSets

CONSTANTS
    PxProxies, PxAccounts,
    NoProxy,        \* NULL, and the direct route
    PxAdmins,       \* administrators' requests and the expiry worker
    PxTargets,      \* upstream addresses and credentials of an account
    PxDepth,        \* proxies in the longest chain that is followed
    PxFallback, PxAssigned,     \* at the start: the fallback of each proxy, the proxy of each account
    PxMaxEdits      \* bound: transactions and credential edits

Unroutable == "unroutable"
PxRow == [live : BOOLEAN, status : {"active", "inactive", "expired"}, expires : {"never", "later", "past"},
          mode : {"none", "direct", "proxy"}, backup : PxProxies \cup {NoProxy}]

\* The fallbacks at the start do not form a cycle.
ASSUME PxAssumption ==
    /\ NoProxy \notin PxProxies \cup PxAdmins /\ IsFiniteSet(PxProxies)
    /\ PxDepth \in Nat \ {0} /\ PxMaxEdits \in Nat
    /\ PxFallback \in [PxProxies -> [mode : {"none", "direct", "proxy"}, backup : PxProxies \cup {NoProxy}]]
    /\ PxAssigned \in [PxAccounts -> PxProxies \cup {NoProxy}]
    /\ \A C \in SUBSET PxProxies :
          (\A p \in C : PxFallback[p].mode = "proxy" /\ PxFallback[p].backup \in C) => C = {}

VARIABLES
    pxRow,      \* table proxies
    pxAcct,     \* table accounts: proxy_id, proxy_fallback_origin_id, target and snapshot
    pxChosen,   \* the proxy an administrator last chose for each account
    pxSearch,   \* the proxy of the search provider
    pxLock,     \* who holds the advisory lock
    pxTx,       \* what the open transaction of each administrator has checked
    pxProbe,    \* the billing probe
    pxEdit,     \* the updates of accounts that have loaded their rows
    pxMixed,    \* history: accounts whose snapshot was kept on a row that was written since
    pxEdits

pxVars == <<pxRow, pxAcct, pxChosen, pxSearch, pxLock, pxTx, pxProbe, pxEdit, pxMixed, pxEdits>>

PxIdle == [op |-> "idle"]
NoShot == [target |-> 0]

PxInit ==
    /\ pxRow = [p \in PxProxies |-> [live |-> TRUE, status |-> "active", expires |-> "later",
                                     mode |-> PxFallback[p].mode, backup |-> PxFallback[p].backup]]
    /\ pxAcct = [a \in PxAccounts |-> [proxy |-> PxAssigned[a], origin |-> NoProxy, target |-> 1, shot |-> NoShot]]
    /\ pxChosen = PxAssigned
    /\ pxSearch = NoProxy /\ pxLock = NoProxy
    /\ pxTx = [t \in PxAdmins |-> PxIdle] /\ pxProbe = PxIdle
    /\ pxEdit = [t \in PxAdmins |-> PxIdle] /\ pxMixed = {}
    /\ pxEdits = 0

PxTypeOK ==
    /\ pxRow \in [PxProxies -> PxRow]
    /\ \A a \in PxAccounts : {pxAcct[a].proxy, pxAcct[a].origin, pxChosen[a]} \subseteq PxProxies \cup {NoProxy}
    /\ pxSearch \in PxProxies \cup {NoProxy} /\ pxLock \in PxAdmins \cup {NoProxy}
    /\ pxMixed \subseteq PxAccounts /\ pxEdits \in 0..PxMaxEdits
-----------------------------------------------------------------------------
(* The graph.                                                              *)

UsableProxy(p) == pxRow[p].live /\ pxRow[p].status = "active" /\ pxRow[p].expires # "past"

\* resolveProxyTarget: the first proxy that is usable on the chain of
\* fallbacks, or the direct route.  A disabled root enables no fallback.
ResolveProxy(root) ==
    LET within[n \in 0..PxDepth] ==    \* of n proxies
            [p \in PxProxies |->
                IF n = 0 \/ ~pxRow[p].live THEN Unroutable
                ELSE IF UsableProxy(p) THEN p
                ELSE IF pxRow[p].mode = "direct" THEN NoProxy
                ELSE IF pxRow[p].mode = "proxy" /\ pxRow[p].backup # NoProxy THEN within[n - 1][pxRow[p].backup]
                ELSE Unroutable]
    IN  IF pxRow[root].status = "inactive" THEN Unroutable ELSE within[PxDepth][root]

\* What a walk along the backups meets after p, whatever the modes say.
Behind(p, rows) ==
    LET at[n \in 0..PxDepth] ==
            IF n = 0 THEN {} ELSE {rows[q].backup : q \in {p} \cup at[n - 1]} \ {NoProxy}
    IN  at[PxDepth]

\* saveProxy's walk from the backup it is about to write for p: the chain
\* must not come back to p, must exist and must not be too long.
ChainWalk(backup) ==
    LET node[n \in 0..PxDepth - 1] ==
            IF n = 0 THEN backup
            ELSE IF node[n - 1] = NoProxy \/ pxRow[node[n - 1]].mode # "proxy" THEN NoProxy
            ELSE pxRow[node[n - 1]].backup
    IN  node
SoundChain(p, backup) ==
    LET node == ChainWalk(backup) IN
    \A n \in 0..PxDepth - 1 : node[n] # NoProxy => n < PxDepth - 1 /\ node[n] # p /\ pxRow[node[n]].live

\* billingProxyVersion: the rows of the chain with their revisions.
ProxyVersion(p, rows) ==
    IF p = NoProxy THEN NoShot
    ELSE [q \in {p} \cup Behind(p, rows) |-> [rows[q] EXCEPT !.expires = IF @ = "past" THEN "later" ELSE @]]

\* The recursive query of invalidateProxySnapshots: the changed proxies and the
\* live ones with a backup among these; and the accounts on them.
ClosedAbove(S) == \A q \in PxProxies : pxRow[q].live /\ pxRow[q].backup \in S => q \in S
Affected(changed) ==
    {p \in PxProxies : \A S \in SUBSET PxProxies : changed \subseteq S /\ ClosedAbove(S) => p \in S}
Invalidated(changed) == {a \in PxAccounts : pxAcct[a].proxy \in Affected(changed)}

\* Writing an account sets its updated_at.
ProxyTouch(accounts) ==
    pxProbe' = IF pxProbe # PxIdle /\ pxProbe.acct \in accounts THEN [pxProbe EXCEPT !.stale = TRUE] ELSE pxProbe
-----------------------------------------------------------------------------
(* Transactions under the lock: their checks, and what they write.         *)

ProxyEdits(p) ==
    {[pxRow[p] EXCEPT !.mode = mode] : mode \in {"none", "direct", "proxy"}}
    \cup {[pxRow[p] EXCEPT !.mode = "proxy", !.backup = backup] : backup \in PxProxies \cup {NoProxy}}
    \cup {[pxRow[p] EXCEPT !.status = "inactive"], [pxRow[p] EXCEPT !.status = "active"]}

SaveProxyOps ==
    {op \in [op : {"save"}, proxy : PxProxies, row : PxRow, renew : BOOLEAN] :
        /\ pxRow[op.proxy].live /\ op.row \in ProxyEdits(op.proxy)
        /\ op.renew => op.row = [pxRow[op.proxy] EXCEPT !.status = "active"]
        /\ op.row.mode = "proxy" => op.row.backup # NoProxy
        /\ SoundChain(op.proxy, op.row.backup)}

CreateProxyOps ==
    {op \in [op : {"save"}, proxy : PxProxies, row : PxRow, renew : {TRUE}] :
        /\ ~pxRow[op.proxy].live /\ op.row.live /\ op.row.status = "active" /\ op.row.expires = "later"
        /\ op.row.mode = "none" /\ op.row.backup = NoProxy}

ProxyReferenced(p) ==
    \/ \E a \in PxAccounts : p \in {pxAcct[a].proxy, pxAcct[a].origin}
    \/ \E q \in PxProxies : pxRow[q].live /\ pxRow[q].backup = p
    \/ pxSearch = p

DeleteProxyOps == {[op |-> "delete", proxy |-> p] : p \in {q \in PxProxies : pxRow[q].live /\ ~ProxyReferenced(q)}}

\* validateProxyAssignment.
AssignOps ==
    {[op |-> "assign", acct |-> a, proxy |-> p] :
        a \in PxAccounts,
        p \in {q \in PxProxies : pxRow[q].live /\ pxRow[q].status = "active"} \cup {NoProxy}}

SearchOps == {[op |-> "search", proxy |-> p] : p \in {q \in PxProxies : pxRow[q].live} \cup {NoProxy}}

RevertOps ==
    {[op |-> "revert", acct |-> a] :
        a \in {b \in PxAccounts : pxAcct[b].origin # NoProxy /\ UsableProxy(pxAcct[b].origin)}}

Overdue == {p \in PxProxies : pxRow[p].live /\ pxRow[p].status = "active" /\ pxRow[p].expires = "past"}
ExpireOps == {[op |-> "expire", route |-> [p \in d |-> ResolveProxy(p)]] : d \in {Overdue} \ {{}}}

PxOps == SaveProxyOps \cup CreateProxyOps \cup DeleteProxyOps \cup AssignOps
         \cup SearchOps \cup RevertOps \cup ExpireOps

\* A transaction takes the lock and makes its checks.
ProxyBeginUnlocked(t) ==
    /\ pxTx[t] = PxIdle /\ pxEdits < PxMaxEdits /\ pxEdits' = pxEdits + 1
    /\ pxLock' = t /\ pxTx' \in {[pxTx EXCEPT ![t] = op] : op \in PxOps}
    /\ UNCHANGED <<pxRow, pxAcct, pxChosen, pxSearch, pxProbe, pxEdit, pxMixed>>

ProxyBegin(t) ==
    /\ pxTx[t] = PxIdle /\ pxEdits < PxMaxEdits /\ pxEdits' = pxEdits + 1
    /\ pxLock = NoProxy /\ pxLock' = t
    /\ pxTx' \in {[pxTx EXCEPT ![t] = op] : op \in PxOps}
    /\ UNCHANGED <<pxRow, pxAcct, pxChosen, pxSearch, pxProbe, pxEdit, pxMixed>>

\* A save leaves the expiry alone unless it sets one.
SavedRow(op) == [op.row EXCEPT !.expires = IF op.renew THEN "later" ELSE pxRow[op.proxy].expires]

\* saveProxy, deleteProxy: the row, then the snapshots of a changed proxy.
WriteProxy(op) ==
    LET dropped == IF op.op = "save" THEN Invalidated({op.proxy}) ELSE {} IN
    /\ pxRow' = [pxRow EXCEPT ![op.proxy] =
                    IF op.op = "save" THEN SavedRow(op) ELSE [@ EXCEPT !.live = FALSE, !.status = "inactive"]]
    /\ pxAcct' = [a \in PxAccounts |->
                    IF a \in dropped THEN [pxAcct[a] EXCEPT !.shot = NoShot] ELSE pxAcct[a]]
    /\ ProxyTouch(dropped)
    /\ UNCHANGED <<pxChosen, pxSearch>>

\* createAccount, updateAccount with a proxy_id; revertProxyFallback.
WriteAccount(op) ==
    LET a == op.acct
        proxy == IF op.op = "assign" THEN op.proxy ELSE pxAcct[a].origin
    IN
    /\ pxAcct' = [pxAcct EXCEPT ![a].proxy = proxy, ![a].origin = NoProxy, ![a].shot = NoShot]
    /\ pxChosen' = [pxChosen EXCEPT ![a] = IF op.op = "assign" THEN proxy ELSE @]
    /\ ProxyTouch({a})
    /\ UNCHANGED <<pxRow, pxSearch>>

OriginKept(a) == IF pxAcct[a].origin = NoProxy THEN pxAcct[a].proxy ELSE pxAcct[a].origin

\* expireProxies: what is overdue becomes expired, and its accounts move to
\* what its chain resolves to; without a route they stay.
WriteExpiry(op) ==
    LET due == DOMAIN op.route
        moves == {a \in PxAccounts : pxAcct[a].proxy \in due /\ op.route[pxAcct[a].proxy] # Unroutable}
        dropped == Invalidated(due)
    IN
    /\ pxRow' = [p \in PxProxies |-> IF p \in due THEN [pxRow[p] EXCEPT !.status = "expired"] ELSE pxRow[p]]
    /\ pxAcct' = [a \in PxAccounts |->
                    IF a \in moves
                    THEN [pxAcct[a] EXCEPT !.proxy = op.route[@], !.origin = OriginKept(a), !.shot = NoShot]
                    ELSE IF a \in dropped THEN [pxAcct[a] EXCEPT !.shot = NoShot] ELSE pxAcct[a]]
    /\ ProxyTouch(moves \cup dropped)
    /\ UNCHANGED <<pxChosen, pxSearch>>

ProxyCommit(t) ==
    LET op == pxTx[t] IN
    /\ op # PxIdle
    /\ CASE op.op \in {"save", "delete"} -> WriteProxy(op)
         [] op.op \in {"assign", "revert"} -> WriteAccount(op)
         [] op.op = "expire" -> WriteExpiry(op)
         [] op.op = "search" -> pxSearch' = op.proxy /\ UNCHANGED <<pxRow, pxAcct, pxChosen, pxProbe>>
    /\ pxTx' = [pxTx EXCEPT ![t] = PxIdle] /\ pxLock' = NoProxy
    /\ UNCHANGED <<pxEdit, pxMixed, pxEdits>>
-----------------------------------------------------------------------------
(* What runs without the lock.                                             *)

ProxyDue(p) ==
    /\ pxRow[p].live /\ pxRow[p].expires = "later"
    /\ pxRow' = [pxRow EXCEPT ![p].expires = "past"]
    /\ UNCHANGED <<pxAcct, pxChosen, pxSearch, pxLock, pxTx, pxProbe, pxEdit, pxMixed, pxEdits>>

\* updateAccount with credentials: loads the account outside any transaction, and
\* drops the snapshots in its UPDATE if the target it loaded is another.  An
\* edit of the same account may be written in between.
LoadEdit(t, a) ==
    /\ pxEdit[t] = PxIdle /\ pxEdits < PxMaxEdits /\ pxEdits' = pxEdits + 1
    /\ \E new \in PxTargets :
          pxEdit' = [pxEdit EXCEPT ![t] = [op |-> "edit", acct |-> a, new |-> new, crossed |-> FALSE,
                                           drop |-> new # pxAcct[a].target]]
    /\ UNCHANGED <<pxRow, pxAcct, pxChosen, pxSearch, pxLock, pxTx, pxProbe, pxMixed>>
Crossed(e, a) == IF e # PxIdle /\ e.acct = a THEN [e EXCEPT !.crossed = TRUE] ELSE e
WriteEdit(t) ==
    LET e == pxEdit[t] IN
    /\ e # PxIdle
    /\ pxEdit' = [u \in PxAdmins |-> IF u = t THEN PxIdle ELSE Crossed(pxEdit[u], e.acct)]
    /\ pxAcct' = [pxAcct EXCEPT ![e.acct].target = e.new, ![e.acct].shot = IF e.drop THEN NoShot ELSE @]
    /\ pxMixed' = IF e.crossed /\ ~e.drop THEN pxMixed \cup {e.acct} ELSE pxMixed
    /\ ProxyTouch({e.acct})
    /\ UNCHANGED <<pxRow, pxChosen, pxSearch, pxLock, pxTx, pxEdits>>

\* probeBilling: loads the account, then the version of its proxies, asks the
\* upstream, and writes if neither has changed.
LoadProbe(a) ==
    /\ pxProbe = PxIdle
    /\ pxProbe' = [op |-> "load", acct |-> a, stale |-> FALSE, proxy |-> pxAcct[a].proxy,
                   target |-> pxAcct[a].target, version |-> NoShot]
    /\ UNCHANGED <<pxRow, pxAcct, pxChosen, pxSearch, pxLock, pxTx, pxEdit, pxMixed, pxEdits>>
MeasureProbe ==
    /\ pxProbe.op = "load"
    /\ pxProbe' = [pxProbe EXCEPT !.op = "sent", !.version = ProxyVersion(pxProbe.proxy, pxRow)]
    /\ UNCHANGED <<pxRow, pxAcct, pxChosen, pxSearch, pxLock, pxTx, pxEdit, pxMixed, pxEdits>>
WriteProbe ==
    LET fresh == ~pxProbe.stale /\ ProxyVersion(pxProbe.proxy, pxRow) = pxProbe.version
        shot == [target |-> pxProbe.target, proxy |-> pxProbe.proxy, version |-> pxProbe.version]
    IN
    /\ pxProbe.op = "sent" /\ pxProbe' = PxIdle
    /\ pxProbe.proxy = NoProxy \/ pxLock = NoProxy
    /\ pxAcct' = IF fresh THEN [pxAcct EXCEPT ![pxProbe.acct].shot = shot] ELSE pxAcct
    /\ pxMixed' = IF fresh THEN pxMixed \ {pxProbe.acct} ELSE pxMixed
    /\ UNCHANGED <<pxRow, pxChosen, pxSearch, pxLock, pxTx, pxEdit, pxEdits>>

ProxyNext ==
    \/ \E t \in PxAdmins : ProxyBegin(t) \/ ProxyCommit(t) \/ WriteEdit(t) \/ \E a \in PxAccounts : LoadEdit(t, a)
    \/ \E p \in PxProxies : ProxyDue(p)
    \/ \E a \in PxAccounts : LoadProbe(a)
    \/ MeasureProbe \/ WriteProbe

ProxySpec == PxInit /\ [][ProxyNext]_pxVars
-----------------------------------------------------------------------------
\* Where the fallbacks that are in force lead from p.
InForce(p) == pxRow[p].live /\ pxRow[p].mode = "proxy"
FallbacksOf(p) ==
    LET at[n \in 0..Cardinality(PxProxies)] ==
            IF n = 0 THEN p
            ELSE IF at[n - 1] = NoProxy \/ ~InForce(at[n - 1]) THEN NoProxy
            ELSE pxRow[at[n - 1]].backup
    IN  at

\* The fallbacks that are in force never form a cycle, though every edit checks
\* only the chain it starts and two administrators may edit at once.
NoFallbackCycle ==
    \A p \in PxProxies : \A n \in 1..Cardinality(PxProxies) : FallbacksOf(p)[n] # p

\* What an account, a fallback or the search provider refers to exists.
NoDanglingProxy ==
    LET refs == {pxAcct[a].proxy : a \in PxAccounts} \cup {pxAcct[a].origin : a \in PxAccounts}
                \cup {pxRow[p].backup : p \in {q \in PxProxies : pxRow[q].live}} \cup {pxSearch}
    IN  \A p \in refs \ {NoProxy} : pxRow[p].live

\* The proxy that an administrator chose is never forgotten by an expiry: an
\* account is on it, or has it as its origin, through any number of moves.
ChoiceKept ==
    \A a \in PxAccounts :
        pxChosen[a] = IF pxAcct[a].origin = NoProxy THEN pxAcct[a].proxy ELSE pxAcct[a].origin

\* A snapshot that an account keeps was measured through its proxy and the chain
\* behind it as they are now, and at its target: unless an edit of the account
\* kept it that had loaded the account before another edit of it was written,
\* and compared with what it had loaded (accounts.go:434-447, :529).
SnapshotFresh ==
    \A a \in PxAccounts : pxAcct[a].shot # NoShot =>
        /\ a \notin pxMixed => pxAcct[a].shot.target = pxAcct[a].target
        /\ pxAcct[a].shot.proxy = pxAcct[a].proxy
        /\ pxAcct[a].shot.version = ProxyVersion(pxAcct[a].proxy, pxRow)

\* The graph of proxies keeps its promises however edits, deletions, probes and
\* expiries interleave: its fallbacks end, what refers to a proxy finds it, and
\* accounts remember the proxy chosen for them and nothing measured elsewhere
\* (what two edits of one account at a time may keep apart, see SnapshotFresh).
ProxiesSound == PxTypeOK /\ NoFallbackCycle /\ NoDanglingProxy /\ ChoiceKept /\ SnapshotFresh
=============================================================================
