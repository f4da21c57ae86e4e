---------------------------- MODULE Admin_proofs ----------------------------
(***************************************************************************)
(* Proofs about what administrators and users edit while the gateway runs: *)
(* sessions and the users behind them, the access of keys to groups, the   *)
(* graph of groups, the routes of composite groups, the graph of proxies,  *)
(* the records of idempotency keys and the limits of spending, each for    *)
(* any instance, and of all but idempotency for the composition of MCAdmin.*)
(***************************************************************************)
EXTENDS MCAdmin, Sums, TLAPS

(***************************************************************************)
(* KeyAccess.  A request that does not wait was loaded with its key, and   *)
(* knows whether its user has had the right to its group since; what it is *)
(* admitted by is that right as it is now.                                 *)
(***************************************************************************)
KaRow == [born : BOOLEAN, live : BOOLEAN, on : BOOLEAN, group : KaGroups \cup {NoKeyGroup}]
KaWrite == [at : {"write"}, key : KaKeys, group : KaGroups \cup {NoKeyGroup}, grant : BOOLEAN, admin : BOOLEAN, create : BOOLEAN]
KaRequest == [at : {"loaded", "admitted", "waiting"}, key : KaKeys, group : KaGroups, held : BOOLEAN, had : BOOLEAN]

KaTypeOK ==
    /\ kaKey \in [KaKeys -> KaRow] /\ kaEdit \in {KaIdle} \cup KaWrite /\ kaReq \in {KaIdle} \cup KaRequest

\* What the request remembers covers the right as it is.
KaRemembers ==
    kaReq # KaIdle /\ kaReq.at # "waiting" =>
        kaReq.held /\ (HasAccess(kaReq.group, kaGroup, kaAllowed, kaUser) => kaReq.had)

KeyInv == KaTypeOK /\ KaRemembers /\ AdmittedWithAccess

\* Initially there is no request.
LEMMA KeyInit == KaInit => KeyInv
  BY DEF KaInit, KeyInv, KaTypeOK, KaRow, KaRemembers, AdmittedWithAccess

\* Whatever an edit makes of the groups, the grants and the user, the request
\* remembers what they give it then.
LEMMA KeyWatched ==
  ASSUME KeyInv, Watch(kaGroup', kaAllowed', kaUser')
  PROVE  (kaReq \in {KaIdle} \cup KaRequest)' /\ KaRemembers' /\ AdmittedWithAccess'
<1>1. CASE kaReq = KaIdle \/ kaReq.at = "waiting"
  BY <1>1 DEF Watch, KaRemembers, AdmittedWithAccess, KeyInv, KaTypeOK
<1>2. CASE kaReq # KaIdle /\ kaReq.at # "waiting"
  <2> DEFINE had == kaReq.had \/ HasAccess(kaReq.group, kaGroup', kaAllowed', kaUser')
  <2>1. kaReq \in KaRequest
    BY <1>2 DEF KeyInv, KaTypeOK
  <2>2. had \in BOOLEAN
    BY <2>1 DEF KaRequest, HasAccess
  <2>3. kaReq' = [kaReq EXCEPT !.had = had]
    BY <1>2 DEF Watch
  <2> HIDE DEF had
  <2>4. kaReq' \in KaRequest /\ kaReq'.at = kaReq.at /\ kaReq'.group = kaReq.group /\ kaReq'.held = kaReq.held /\ kaReq'.had = had
    BY <2>1, <2>2, <2>3 DEF KaRequest
  <2>5. kaReq.held /\ (kaReq.at = "admitted" => kaReq.had)
    BY <1>2 DEF KeyInv, KaRemembers, AdmittedWithAccess
  <2> QED
    BY <2>4, <2>5 DEF had, KaRemembers, AdmittedWithAccess
<1> QED
  BY <1>1, <1>2

\* A request that was just loaded remembers what it read.
LEMMA LoadedInv ==
  ASSUME KeyInv, NEW k \in KaKeys, NEW g \in KaGroups, kaReq' = Loaded(k, g),
         UNCHANGED <<kaKey, kaGroup, kaAllowed, kaUser, kaEdit>>
  PROVE  KeyInv'
<1> DEFINE had == HasAccess(g, kaGroup, kaAllowed, kaUser)
<1>1. kaReq' = [at |-> "loaded", key |-> k, group |-> g, held |-> TRUE, had |-> had]
  BY DEF Loaded
<1>2. had \in BOOLEAN /\ HasAccess(g, kaGroup', kaAllowed', kaUser') = had
  BY DEF HasAccess
<1> HIDE DEF had
<1>3. kaReq' \in KaRequest /\ kaReq'.at = "loaded" /\ kaReq'.group = g /\ kaReq'.held /\ kaReq'.had = had
  BY <1>1, <1>2 DEF KaRequest
<1> QED
  BY <1>2, <1>3 DEF KeyInv, KaTypeOK, KaRemembers, AdmittedWithAccess

\* Every step of the keys keeps KeyInv.
LEMMA KeyStep == KeyInv /\ [KeyNext]_kaVars => KeyInv'
<1> SUFFICES ASSUME KeyInv, [KeyNext]_kaVars PROVE KeyInv'
  OBVIOUS
<1> USE DEF KeyInv
<1>1. ASSUME NEW k \in KaKeys, NEW g \in KaGroups \cup {NoKeyGroup}, CheckKey(k, g) PROVE KeyInv'
  BY <1>1 DEF CheckKey, KaTypeOK, KaWrite, KaRow, KaRemembers, AdmittedWithAccess
<1>2. ASSUME NEW k \in KaKeys, NEW g \in KaGroups, CheckAdminKey(k, g) PROVE KeyInv'
  BY <1>2 DEF CheckAdminKey, KaTypeOK, KaWrite, KaRemembers, AdmittedWithAccess, GroupAccess, HasAccess
<1>3. ASSUME NEW k \in KaKeys, DeleteKey(k) PROVE KeyInv'
  BY <1>3 DEF DeleteKey, KaTypeOK, KaRow, KaRemembers, AdmittedWithAccess
<1>4. ASSUME NEW k \in KaKeys, NEW on \in BOOLEAN, SetKeyStatus(k, on) PROVE KeyInv'
  BY <1>4 DEF SetKeyStatus, KaTypeOK, KaRow, KaRemembers, AdmittedWithAccess
<1>5. ASSUME NEW k \in KaKeys, LoadKey(k) PROVE KeyInv'
  <2>1. PICK g \in KaGroups : kaReq' = Loaded(k, g)
    BY <1>5 DEF LoadKey
  <2>2. UNCHANGED <<kaKey, kaGroup, kaAllowed, kaUser, kaEdit>>
    BY <1>5 DEF LoadKey
  <2> QED
    BY <2>1, <2>2, LoadedInv
<1>6. ASSUME NEW old \in KaGroups, NEW new \in KaGroups, ReplaceGroup(old, new) PROVE KeyInv'
  <2>1. kaKey' \in [KaKeys -> KaRow]
    BY <1>6 DEF ReplaceGroup, KaTypeOK, KaRow
  <2> QED
    BY <1>6, <2>1, KeyWatched DEF ReplaceGroup, KaTypeOK
<1>7. ASSUME NEW allowed \in SUBSET KaGroups, NEW restricted \in BOOLEAN, SetGrants(allowed, restricted) PROVE KeyInv'
  BY <1>7, KeyWatched DEF SetGrants, KaTypeOK
<1>8. ASSUME NEW g \in KaGroups, ChangeGroup(g) PROVE KeyInv'
  BY <1>8, KeyWatched DEF ChangeGroup, KaTypeOK
<1>9. CASE WriteKey
  <2>1. kaKey' \in [KaKeys -> KaRow]
    BY <1>9 DEF WriteKey, KaTypeOK, KaRow, KaWrite
  <2> QED
    BY <1>9, <2>1, KeyWatched DEF WriteKey, KaTypeOK
<1>10. CASE DropUser
  <2>1. kaKey' \in [KaKeys -> KaRow]
    BY <1>10 DEF DropUser, KaTypeOK, KaRow
  <2> QED
    BY <1>10, <2>1, KeyWatched DEF DropUser, KaTypeOK
<1>11. CASE CheckRequest
  <2>1. kaReq # KaIdle /\ kaReq.group # NoKeyGroup
    BY <1>11, KaAssumption DEF CheckRequest, KaTypeOK, KaRequest, KaIdle
  <2> QED
    BY <1>11, <2>1 DEF CheckRequest, KaTypeOK, KaRequest, Admit, GroupAccess, KaRemembers, AdmittedWithAccess
<1>12. CASE EndRequest
  BY <1>12 DEF EndRequest, KaTypeOK, KaRequest, KaRemembers, AdmittedWithAccess, KaIdle
<1>15. CASE QueueRequest
  <2> PICK r : r = kaReq
    OBVIOUS
  <2>1. UNCHANGED <<kaKey, kaGroup, kaAllowed, kaUser, kaEdit>> /\ r \in KaRequest /\ kaReq' = [r EXCEPT !.at = "waiting", !.held = FALSE, !.had = FALSE]
    BY <1>15 DEF QueueRequest, KaTypeOK, KaIdle
  <2>2. kaReq' \in KaRequest /\ kaReq'.at = "waiting"
    BY <2>1 DEF KaRequest
  <2> QED
    BY <2>1, <2>2 DEF KaTypeOK, KaRemembers, AdmittedWithAccess, KaRequest, KaIdle
<1>14. CASE ReloadKey
  <2>1. kaReq # KaIdle /\ kaReq.key \in KaKeys /\ kaReq.group \in KaGroups
    BY <1>14 DEF ReloadKey, KaTypeOK, KaRequest, KaIdle
  <2>2. UNCHANGED <<kaKey, kaGroup, kaAllowed, kaUser, kaEdit>> /\ (kaReq' = KaIdle \/ kaReq' = Loaded(kaReq.key, kaReq.group))
    BY <1>14 DEF ReloadKey
  <2>3. CASE kaReq' = KaIdle
    BY <2>2, <2>3 DEF KaTypeOK, KaRemembers, AdmittedWithAccess
  <2> QED
    BY <2>1, <2>2, <2>3, LoadedInv
<1>13. CASE UNCHANGED kaVars
  BY <1>13 DEF kaVars, KaTypeOK, KaRemembers, AdmittedWithAccess
<1> QED
  BY <1>1, <1>2, <1>3, <1>4, <1>5, <1>6, <1>7, <1>8, <1>9, <1>10, <1>11, <1>12, <1>13, <1>14, <1>15 DEF KeyNext

\* No request goes on with a group that its key did not name, or its user never
\* had the right to use, since it arrived or last waited: whatever groups, grants
\* and users become between the check that lets a key name a group, gatewayAuth's
\* two reads, its verdict and a wait.
THEOREM AdmissionNeedsAccess == KeySpec => []AdmittedWithAccess
<1>1. KeyInv => AdmittedWithAccess
  BY DEF KeyInv
<1> QED
  BY KeyInit, KeyStep, <1>1, PTL DEF KeySpec

(***************************************************************************)
(* Sessions.                                                               *)
(***************************************************************************)
SsRow == [born : BOOLEAN, live : BOOLEAN, active : BOOLEAN, admin : BOOLEAN, pw : Nat]
SsSession == [user : SsUsers \cup {SsNobody}, pw : Nat, epoch : Nat, refresh : Nat, revoked : BOOLEAN]
SsLogin == [op : {"login"}, user : SsUsers, hash : Nat]
SsStore == [op : {"store"}, user : SsUsers, epoch : Nat]
SsLoaded == [op : {"loaded"}, user : SsUsers, pw : Nat, sess : SessionIds, for : Purposes \cup {"refresh"},
             token : Nat, old : BOOLEAN]
SsRead == [op : {"fields", "accepted"}, user : SsUsers, pw : Nat, sess : SessionIds, for : Purposes \cup {"refresh"},
           token : Nat, old : BOOLEAN, fields : SsSession]
SsEdit == [op : {"edit", "revoked", "kept"}, by : SsUsers, user : SsUsers, edit : UserEdits]
SsState == {SsIdle} \cup SsLogin \cup SsStore \cup SsLoaded \cup SsRead \cup SsEdit

SsTypeOK ==
    /\ ssUser \in [SsUsers -> SsRow] /\ ssEpoch \in [SsUsers -> Nat]
    /\ DOMAIN ssSess \subseteq SessionIds /\ ssSess \in [DOMAIN ssSess -> SsSession]
    /\ ssGraph \in SsClients \cup {SsNobody} /\ ssRow \in [SsUsers -> SsClients \cup {SsNobody}]
    /\ ssProc \in [SsClients -> SsState]
    /\ DOMAIN ssSpent \subseteq SessionIds \X Nat /\ ssSpent \in [DOMAIN ssSpent -> Nat]
    /\ ssChanges \in Nat

\* A row that was never created is the first of its kind, and never live.
UserInv == \A u \in SsUsers : (ssUser[u].live => ssUser[u].born) /\ (~ssUser[u].born => ssUser[u].pw = 0)

\* A session remembers nothing that is yet to come, and if it was revoked one
\* of the two things it remembers is past.
Past(u, pw, epoch) == pw < ssUser[u].pw \/ epoch < ssEpoch[u]
SessionOK(x) ==
    x.user # SsNobody => /\ x.pw <= ssUser[x.user].pw /\ x.epoch <= ssEpoch[x.user]
                         /\ x.revoked => Past(x.user, x.pw, x.epoch)
SessionInv == \A s \in DOMAIN ssSess : SessionOK(ssSess[s])

\* The locks are held by those who think so.
LockHeld(c) ==
    LET p == ssProc[c] IN
    /\ p.op \in {"store", "revoked", "kept"} => ssRow[p.user] = c
    /\ p.op \in {"revoked", "kept"} => ssGraph = c

\* While an edit holds them, it is still permitted, and no session of its user
\* is of the epoch that it began.
EditInv(c) ==
    LET p == ssProc[c] IN
    /\ p.op \in {"edit", "revoked", "kept"} => ssUser[p.user].born
    /\ p.op \in {"revoked", "kept"} => MayEdit(p)
    /\ p.op = "revoked" => \A s \in DOMAIN ssSess : ssSess[s].user = p.user => ssSess[s].epoch < ssEpoch[p.user]

StoreInv(c) == ssProc[c].op = "store" => ssProc[c].epoch <= ssEpoch[ssProc[c].user]

\* What was revoked when a request came stays past in what the request reads.
RequestInv(c) ==
    LET p == ssProc[c] IN
    /\ p.op \in {"loaded", "fields", "accepted"} => p.sess \in DOMAIN ssSess /\ p.pw <= ssUser[p.user].pw
    /\ p.op = "loaded" /\ p.old =>
          ssSess[p.sess].user = SsNobody
          \/ (ssSess[p.sess].user = p.user /\ (ssSess[p.sess].pw < p.pw \/ ssSess[p.sess].epoch < ssEpoch[p.user]))
    /\ p.op = "fields" /\ p.old =>
          p.fields.user # p.user \/ p.fields.pw < p.pw \/ p.fields.epoch < ssEpoch[p.user]
    /\ p.op = "accepted" => ~p.old

\* A token that was spent is older than the one in use.
SpentInv ==
    \A t \in DOMAIN ssSpent : /\ ssSpent[t] = 1 /\ t[1] \in DOMAIN ssSess
                              /\ ssSess[t[1]].user # SsNobody => t[2] < ssSess[t[1]].refresh

ClientInv(c) == LockHeld(c) /\ EditInv(c) /\ StoreInv(c) /\ RequestInv(c)

SessionsInv ==
    /\ SsTypeOK /\ UserInv /\ SessionInv /\ SpentInv /\ AdministratorRemains
    /\ \A c \in SsClients : ClientInv(c)

\* Initially there is nothing.
LEMMA SessionsInit == SsInit => SessionsInv
<1> SUFFICES ASSUME SsInit PROVE SessionsInv
  OBVIOUS
<1>1. SsTypeOK
  BY DEF SsInit, SsTypeOK, SsRow, Unborn, SsState
<1>2. UserInv /\ SessionInv /\ SpentInv /\ AdministratorRemains
  BY DEF SsInit, UserInv, SessionInv, SpentInv, AdministratorRemains, Unborn
<1>3. ASSUME NEW c \in SsClients PROVE ClientInv(c)
  BY DEF SsInit, SsIdle, ClientInv, LockHeld, EditInv, StoreInv, RequestInv
<1> QED
  BY <1>1, <1>2, <1>3 DEF SessionsInv

\* What every step does to rows, epochs and sessions: versions only grow, and a
\* session changes no further than to its end.  A new one is of a user whose
\* row is held by the client c of the step.
SsGrows(c) ==
    /\ \A u \in SsUsers : /\ ssUser[u].pw <= ssUser'[u].pw /\ (ssUser[u].born => ssUser'[u].born)
                          /\ ssEpoch[u] <= ssEpoch'[u]
    /\ \A s \in DOMAIN ssSess :
        /\ s \in DOMAIN ssSess'
        /\ \/ ssSess'[s].user = SsNobody
           \/ /\ ssSess'[s].user = ssSess[s].user /\ ssSess'[s].pw = ssSess[s].pw /\ ssSess'[s].epoch = ssSess[s].epoch
              /\ ssSess[s].refresh <= ssSess'[s].refresh
    /\ \A s \in DOMAIN ssSess' \ DOMAIN ssSess : ssSess'[s].user \in SsUsers /\ ssRow[ssSess'[s].user] = c

\* Nobody but an edit changes who is an administrator.
SsRowsKept ==
    \A u \in SsUsers : ssUser[u].born =>
        ssUser'[u].live = ssUser[u].live /\ ssUser'[u].active = ssUser[u].active /\ ssUser'[u].admin = ssUser[u].admin

\* Locks change hands from and to the client of the step only.
SsLocksKept(c) ==
    /\ ssGraph' = ssGraph \/ ssGraph \in {c, SsNobody}
    /\ \A u \in SsUsers : ssRow'[u] = ssRow[u] \/ ssRow[u] \in {c, SsNobody}

\* A client that does nothing keeps its locks and what it knows.
LEMMA BystanderKept ==
  ASSUME SessionsInv, NEW c, SsGrows(c), SsLocksKept(c), SsTypeOK', NEW d \in SsClients, d # c, ssProc'[d] = ssProc[d]
  PROVE  LockHeld(d)' /\ StoreInv(d)' /\ RequestInv(d)'
<1> DEFINE p == ssProc[d]
<1>1. p \in SsState /\ d # SsNobody
  BY SsAssumption DEF SessionsInv, SsTypeOK
<1>2. /\ p.op = "store" => p.user \in SsUsers /\ p.epoch \in Nat
      /\ p.op \in {"revoked", "kept"} => p.user \in SsUsers
      /\ p.op \in {"loaded", "fields", "accepted"} => p.user \in SsUsers /\ p.pw \in Nat
      /\ p.op \in {"fields", "accepted"} => p.fields \in SsSession
  BY <1>1 DEF SsState, SsIdle, SsLogin, SsStore, SsLoaded, SsRead, SsEdit
<1>3. LockHeld(d) /\ StoreInv(d) /\ RequestInv(d)
  BY DEF SessionsInv, ClientInv
<1>4. \A u \in SsUsers : ssUser[u].pw \in Nat /\ ssUser'[u].pw \in Nat /\ ssEpoch[u] \in Nat /\ ssEpoch'[u] \in Nat
  BY DEF SessionsInv, SsTypeOK, SsRow
<1>5. \A s \in DOMAIN ssSess : ssSess[s].pw \in Nat /\ ssSess[s].epoch \in Nat
  BY DEF SessionsInv, SsTypeOK, SsSession
<1>6. LockHeld(d)'
  BY <1>1, <1>2, <1>3 DEF LockHeld, SsLocksKept
<1>7. StoreInv(d)'
  BY <1>2, <1>3, <1>4 DEF StoreInv, SsGrows
<1>8. RequestInv(d)'
  BY <1>2, <1>3, <1>4, <1>5 DEF RequestInv, SsGrows, SsSession
<1> QED
  BY <1>6, <1>7, <1>8

\* The edit that it has under way stays permitted.
LEMMA EditKept ==
  ASSUME SessionsInv, NEW c, SsGrows(c), SsRowsKept, SsTypeOK', NEW d \in SsClients, d # c, ssProc'[d] = ssProc[d]
  PROVE  EditInv(d)'
<1> DEFINE p == ssProc[d]
<1>1. p \in SsState /\ EditInv(d) /\ LockHeld(d)
  BY DEF SessionsInv, SsTypeOK, ClientInv
<1>2. p.op \in {"edit", "revoked", "kept"} => p.user \in SsUsers
  BY <1>1 DEF SsState, SsIdle, SsLogin, SsStore, SsLoaded, SsRead, SsEdit
<1>3. Admins \subseteq Admins'
  BY DEF Admins, SsRowsKept, SessionsInv, UserInv
<1>4. p.op \in {"revoked", "kept"} => MayEdit(p)'
  BY <1>1, <1>2, <1>3 DEF EditInv, MayEdit, SsRowsKept
<1>5. p.op \in {"edit", "revoked", "kept"} => ssUser'[p.user].born
  BY <1>1, <1>2 DEF EditInv, SsGrows
<1>6. ASSUME p.op = "revoked", NEW s \in DOMAIN ssSess', ssSess'[s].user = p.user
      PROVE  ssSess'[s].epoch < ssEpoch'[p.user]
  <2>1. p.user \in SsUsers /\ ssRow[p.user] = d /\ p.user # SsNobody
    BY <1>1, <1>2, <1>6, SsAssumption DEF LockHeld
  <2>2. s \in DOMAIN ssSess
    BY <1>6, <2>1 DEF SsGrows
  <2>3. ssSess'[s].epoch = ssSess[s].epoch /\ ssSess[s].user = p.user /\ ssSess[s].epoch \in Nat
    BY <1>6, <2>1, <2>2 DEF SsGrows, SessionsInv, SsTypeOK, SsSession
  <2>4. ssEpoch[p.user] \in Nat /\ ssEpoch'[p.user] \in Nat /\ ssEpoch[p.user] <= ssEpoch'[p.user]
    BY <2>1 DEF SsGrows, SessionsInv, SsTypeOK
  <2> QED
    BY <1>1, <1>6, <2>2, <2>3, <2>4 DEF EditInv
<1> QED
  BY <1>4, <1>5, <1>6 DEF EditInv

\* A session that is not revoked by the step, and not opened by it, is what it
\* was to SessionInv.
LEMMA SessionsKept ==
  ASSUME SessionsInv, NEW c, SsGrows(c), SsTypeOK', NEW s \in DOMAIN ssSess, ssSess'[s].revoked => ssSess[s].revoked
  PROVE  SessionOK(ssSess[s])'
<1> SUFFICES ASSUME ssSess'[s].user # SsNobody PROVE SessionOK(ssSess[s])'
  BY DEF SessionOK
<1> DEFINE x == ssSess[s]
           u == x.user
<1>1. x \in SsSession /\ SessionInv
  BY DEF SessionsInv, SsTypeOK
<1>2. ssSess'[s].user = u /\ ssSess'[s].pw = x.pw /\ ssSess'[s].epoch = x.epoch /\ u \in SsUsers
  BY <1>1 DEF SsGrows, SsSession
<1>3. /\ ssUser[u].pw \in Nat /\ ssUser'[u].pw \in Nat /\ ssUser[u].pw <= ssUser'[u].pw
      /\ ssEpoch[u] \in Nat /\ ssEpoch'[u] \in Nat /\ ssEpoch[u] <= ssEpoch'[u]
      /\ x.pw \in Nat /\ x.epoch \in Nat
  BY <1>1, <1>2 DEF SsGrows, SessionsInv, SsTypeOK, SsRow, SsSession
<1>4. x.pw <= ssUser[u].pw /\ x.epoch <= ssEpoch[u] /\ (x.revoked => Past(u, x.pw, x.epoch))
  BY <1>1, <1>2, SsAssumption DEF SessionInv, SessionOK
<1> QED
  BY <1>2, <1>3, <1>4 DEF Past, SessionOK

\* Tokens that were spent stay so.
LEMMA SpentKept ==
  ASSUME SessionsInv, NEW c, SsGrows(c), SsTypeOK', UNCHANGED ssSpent
  PROVE  SpentInv'
<1> SUFFICES ASSUME NEW t \in DOMAIN ssSpent
             PROVE  /\ ssSpent[t] = 1 /\ t[1] \in DOMAIN ssSess'
                    /\ ssSess'[t[1]].user # SsNobody => t[2] < ssSess'[t[1]].refresh
  BY DEF SpentInv
<1>1. /\ ssSpent[t] = 1 /\ t[1] \in DOMAIN ssSess /\ t[2] \in Nat
      /\ ssSess[t[1]].user # SsNobody => t[2] < ssSess[t[1]].refresh
  BY DEF SessionsInv, SpentInv, SsTypeOK
<1>2. t[1] \in DOMAIN ssSess' /\ ssSess[t[1]] \in SsSession /\ ssSess'[t[1]] \in SsSession
  BY <1>1 DEF SessionsInv, SsTypeOK, SsGrows
<1> QED
  BY <1>1, <1>2 DEF SsGrows, SsSession

\* A step of a client c, or of nobody, that keeps everything else in order.
LEMMA SessionsClose ==
  ASSUME SessionsInv, NEW c, SsGrows(c), SsLocksKept(c), SsTypeOK', UserInv', SessionInv', SpentInv',
         AdministratorRemains', c \in SsClients => ClientInv(c)',
         \A d \in SsClients : d # c => ssProc'[d] = ssProc[d] /\ EditInv(d)'
  PROVE  SessionsInv'
<1>1. ASSUME NEW d \in SsClients PROVE ClientInv(d)'
  <2>1. CASE d = c
    BY <2>1
  <2>2. CASE d # c
    <3>1. ssProc'[d] = ssProc[d] /\ EditInv(d)'
      BY <2>2
    <3> QED
      BY <2>2, <3>1, BystanderKept DEF ClientInv
  <2> QED
    BY <2>1, <2>2
<1> QED
  BY <1>1 DEF SessionsInv

\* The same where no user changes and no session is revoked or opened.
LEMMA SessionsQuiet ==
  ASSUME SessionsInv, NEW c, SsGrows(c), SsLocksKept(c), SsTypeOK', UNCHANGED ssUser, SpentInv',
         DOMAIN ssSess' = DOMAIN ssSess, \A s \in DOMAIN ssSess : ssSess'[s].revoked => ssSess[s].revoked,
         c \in SsClients => ClientInv(c)', \A d \in SsClients : d # c => ssProc'[d] = ssProc[d]
  PROVE  SessionsInv'
<1>1. SsRowsKept
  BY DEF SsRowsKept
<1>2. UserInv' /\ AdministratorRemains'
  BY DEF SessionsInv, UserInv, AdministratorRemains, Admins
<1>3. SessionInv'
  BY SessionsKept DEF SessionInv
<1>4. \A d \in SsClients : d # c => ssProc'[d] = ssProc[d] /\ EditInv(d)'
  BY <1>1, EditKept
<1> QED
  BY <1>2, <1>3, <1>4, SessionsClose

\* Nothing changes but what the client c is at, and its locks.
LEMMA SessionsRead ==
  ASSUME SessionsInv, NEW c \in SsClients, NEW p \in SsState, Become(c, p), ClientInv(c)', SsLocksKept(c),
         UNCHANGED <<ssUser, ssEpoch, ssSess, ssSpent>>, ssChanges' \in Nat,
         (ssGraph \in SsClients \cup {SsNobody})', (ssRow \in [SsUsers -> SsClients \cup {SsNobody}])'
  PROVE  SessionsInv'
<1>1. SsTypeOK'
  BY DEF SessionsInv, SsTypeOK, Become
<1>2. SsGrows(c)
  BY DEF SsGrows, SessionsInv, SsTypeOK, SsRow, SsSession
<1>3. \A d \in SsClients : d # c => ssProc'[d] = ssProc[d]
  BY DEF SessionsInv, SsTypeOK, Become
<1>4. SpentInv'
  BY <1>1, <1>2, SpentKept
<1> QED
  BY <1>1, <1>2, <1>3, <1>4, SessionsQuiet

\* A client that is done knows and holds nothing.
LEMMA IdleClient == ASSUME NEW c, ssProc'[c] = SsIdle PROVE ClientInv(c)'
  BY DEF ClientInv, LockHeld, EditInv, StoreInv, RequestInv, SsIdle

\* What a client is at has the fields that its operation needs.
LEMMA ClientState ==
  ASSUME SessionsInv, NEW c \in SsClients
  PROVE  LET p == ssProc[c] IN
         /\ p \in SsState /\ ClientInv(c)
         /\ p.op = "login" => p \in SsLogin
         /\ p.op = "store" => p \in SsStore
         /\ p.op = "loaded" => p \in SsLoaded
         /\ p.op \in {"fields", "accepted"} => p \in SsRead
         /\ p.op \in {"edit", "revoked", "kept"} => p \in SsEdit
         /\ ssProc' = [ssProc EXCEPT ![c] = SsIdle] => ssProc'[c] = SsIdle
  BY DEF SessionsInv, SsTypeOK, SsState, SsIdle, SsLogin, SsStore, SsLoaded, SsRead, SsEdit

\* A new user has no session, and is an administrator only with others, or as
\* the first.
LEMMA AddUserInv ==
  ASSUME SessionsInv, NEW u \in SsUsers, NEW admin \in BOOLEAN, AddUser(u, admin), admin \/ Admins # {}
  PROVE  SessionsInv'
<1> DEFINE row == [born |-> TRUE, live |-> TRUE, active |-> TRUE, admin |-> admin, pw |-> 1]
<1>1. /\ ssUser' = [ssUser EXCEPT ![u] = row] /\ ~ssUser[u].born /\ ssUser[u].pw = 0 /\ ~ssUser[u].live
      /\ UNCHANGED <<ssEpoch, ssSess, ssGraph, ssRow, ssProc, ssSpent, ssChanges>>
  BY DEF AddUser, SessionsInv, UserInv
<1>2. SsTypeOK /\ row \in SsRow
  BY DEF SessionsInv, SsRow
<1>3. SsTypeOK'
  BY <1>1, <1>2 DEF SsTypeOK
<1>4. SsGrows(SsNobody) /\ SsRowsKept /\ SsLocksKept(SsNobody)
  <2>1. \A v \in SsUsers : ssUser[v].pw \in Nat /\ ssEpoch[v] \in Nat /\ ssUser'[v] = IF v = u THEN row ELSE ssUser[v]
    BY <1>1, <1>2 DEF SsTypeOK, SsRow
  <2>2. \A s \in DOMAIN ssSess : ssSess[s].refresh \in Nat
    BY <1>2 DEF SsTypeOK, SsSession
  <2>3. SsGrows(SsNobody)
    BY <1>1, <2>1, <2>2 DEF SsGrows
  <2> QED
    BY <1>1, <2>1, <2>3 DEF SsRowsKept, SsLocksKept
<1>5. UserInv'
  BY <1>1, <1>2 DEF SsTypeOK, UserInv, SessionsInv
<1>6. SessionInv'
  BY <1>1, <1>3, <1>4, SessionsKept DEF SessionInv
<1>7. SpentInv'
  BY <1>1, <1>3, <1>4, SpentKept
<1>8. AdministratorRemains'
  <2>1. CASE admin
    BY <1>1, <1>2, <2>1 DEF AdministratorRemains, Admins, SsTypeOK
  <2>2. CASE Admins # {}
    BY <1>1, <1>2, <2>2 DEF AdministratorRemains, Admins, SsTypeOK
  <2> QED
    BY <2>1, <2>2
<1>9. \A d \in SsClients : d # SsNobody => ssProc'[d] = ssProc[d] /\ EditInv(d)'
  BY <1>1, <1>3, <1>4, EditKept
<1> QED
  BY <1>3, <1>4, <1>5, <1>6, <1>7, <1>8, <1>9, SessionsClose, SsAssumption

\* A login compares the password.
LEMMA LoginCompareInv ==
  ASSUME SessionsInv, NEW c \in SsClients, NEW u \in SsUsers, LoginCompare(c, u)
  PROVE  SessionsInv'
<1> DEFINE p == [op |-> "login", user |-> u, hash |-> ssUser[u].pw]
<1>1. Become(c, p) /\ UNCHANGED <<ssUser, ssEpoch, ssSess, ssGraph, ssRow, ssSpent, ssChanges>> /\ SsTypeOK
  BY DEF LoginCompare, SessionsInv
<1>2. p \in SsState
  BY <1>1 DEF SsTypeOK, SsRow, SsState, SsLogin
<1>3. ClientInv(c)'
  BY <1>1 DEF Become, SsTypeOK, ClientInv, LockHeld, EditInv, StoreInv, RequestInv
<1> QED
  BY <1>1, <1>2, <1>3, SessionsRead DEF SsLocksKept, SsTypeOK

\* A login that holds the row of its user knows an epoch that was.
LEMMA LoginLockInv ==
  ASSUME SessionsInv, NEW c \in SsClients, LoginLock(c)
  PROVE  SessionsInv'
<1> DEFINE u == ssProc[c].user
           p == [op |-> "store", user |-> u, epoch |-> ssEpoch[u]]
<1>1. u \in SsUsers /\ ssRow[u] = SsNobody /\ SsTypeOK
  BY ClientState DEF LoginLock, SsLogin, SessionsInv
<1>2. UNCHANGED <<ssUser, ssEpoch, ssSess, ssGraph, ssSpent, ssChanges>>
  BY DEF LoginLock
<1>3. CASE Become(c, p) /\ ssRow' = [ssRow EXCEPT ![u] = c]
  <2>1. p \in SsState
    BY <1>1 DEF SsTypeOK, SsState, SsStore
  <2>2. ClientInv(c)'
    BY <1>1, <1>2, <1>3 DEF Become, SsTypeOK, ClientInv, LockHeld, EditInv, StoreInv, RequestInv
  <2> QED
    BY <1>1, <1>2, <1>3, <2>1, <2>2, SessionsRead DEF SsLocksKept, SsTypeOK
<1>4. CASE Become(c, SsIdle) /\ UNCHANGED ssRow
  <2>1. ssProc'[c] = SsIdle /\ SsIdle \in SsState
    BY <1>1, <1>4 DEF Become, SsTypeOK, SsState
  <2> QED
    BY <1>1, <1>2, <1>4, <2>1, IdleClient, SessionsRead DEF SsLocksKept, SsTypeOK
<1> QED
  BY <1>3, <1>4 DEF LoginLock

\* A request names a session; if that was revoked, it is past.
LEMMA PresentInv ==
  ASSUME SessionsInv, NEW c \in SsClients, NEW s \in DOMAIN ssSess, NEW for \in Purposes \cup {"refresh"},
         NEW token \in Nat, Present(c, s, for, token)
  PROVE  SessionsInv'
<1> DEFINE u == ssSess[s].user
           p == [op |-> "loaded", user |-> u, pw |-> ssUser[u].pw, sess |-> s, for |-> for,
                 token |-> token, old |-> ssSess[s].revoked]
<1>1. SsTypeOK /\ s \in SessionIds /\ ssSess[s] \in SsSession /\ u \in SsUsers
  BY DEF Present, SessionsInv, SsTypeOK, SsSession
<1>2. Become(c, p) /\ UNCHANGED <<ssUser, ssEpoch, ssSess, ssGraph, ssRow, ssSpent, ssChanges>>
  BY DEF Present
<1>3. p \in SsState
  BY <1>1 DEF SsTypeOK, SsRow, SsState, SsLoaded, SsSession
<1>4. ssProc'[c] = p
  BY <1>1, <1>2 DEF Become, SsTypeOK
<1>5. ssSess[s].revoked => Past(u, ssSess[s].pw, ssSess[s].epoch)
  BY <1>1, SsAssumption DEF SessionsInv, SessionInv, SessionOK
<1>6. RequestInv(c)'
  BY <1>1, <1>2, <1>4, <1>5 DEF RequestInv, Past, SsTypeOK, SsRow
<1>7. ClientInv(c)'
  BY <1>4, <1>6 DEF ClientInv, LockHeld, EditInv, StoreInv
<1> QED
  BY <1>1, <1>2, <1>3, <1>7, SessionsRead DEF SsLocksKept, SsTypeOK

\* A request reads its session.
LEMMA ReadSessionInv ==
  ASSUME SessionsInv, NEW c \in SsClients, ReadSession(c)
  PROVE  SessionsInv'
<1> DEFINE p == ssProc[c]
           q == [op |-> "fields", user |-> p.user, pw |-> p.pw, sess |-> p.sess, for |-> p.for,
                 token |-> p.token, old |-> p.old, fields |-> ssSess[p.sess]]
<1>1. p \in SsLoaded /\ p.op = "loaded" /\ RequestInv(c) /\ SsTypeOK
  BY ClientState DEF ReadSession, ClientInv, SessionsInv
<1>2. Become(c, q) /\ UNCHANGED <<ssUser, ssEpoch, ssSess, ssGraph, ssRow, ssSpent, ssChanges>>
  BY DEF ReadSession
<1>3. p.sess \in DOMAIN ssSess /\ ssSess[p.sess] \in SsSession
  BY <1>1 DEF RequestInv, SsTypeOK
<1>4. q \in SsState
  BY <1>1, <1>3 DEF SsState, SsLoaded, SsRead
<1>5. ssProc'[c] = q
  BY <1>1, <1>2 DEF Become, SsTypeOK
<1>6. RequestInv(c)'
  <2>1. p.user \in SsUsers
    BY <1>1 DEF SsLoaded
  <2> QED
    BY <1>1, <1>2, <1>5, <2>1, SsAssumption DEF RequestInv
<1>7. ClientInv(c)'
  BY <1>5, <1>6 DEF ClientInv, LockHeld, EditInv, StoreInv
<1> QED
  BY <1>1, <1>2, <1>4, <1>7, SessionsRead DEF SsLocksKept, SsTypeOK

\* A request that finds its session in order came when that was not revoked.
LEMMA ReadEpochInv ==
  ASSUME SessionsInv, NEW c \in SsClients, ReadEpoch(c)
  PROVE  SessionsInv'
<1> DEFINE p == ssProc[c]
           q == [p EXCEPT !.op = "accepted"]
<1>1. p \in SsRead /\ p.op = "fields" /\ RequestInv(c) /\ SsTypeOK
  BY ClientState DEF ReadEpoch, ClientInv, SessionsInv
<1>2. Become(c, IF ValidSession(p) THEN q ELSE SsIdle)
      /\ UNCHANGED <<ssUser, ssEpoch, ssSess, ssGraph, ssRow, ssSpent, ssChanges>>
  BY DEF ReadEpoch
<1>3. CASE ValidSession(p)
  <2>1. q \in SsRead /\ q.op = "accepted" /\ q.user = p.user /\ q.pw = p.pw /\ q.sess = p.sess /\ q.old = p.old
    BY <1>1 DEF SsRead
  <2>2. q \in SsState /\ Become(c, q)
    BY <1>2, <1>3, <2>1 DEF SsState
  <2>3. ssProc'[c] = q
    BY <1>1, <2>2 DEF Become, SsTypeOK
  <2>4. ~p.old
    <3>1. p.user \in SsUsers /\ p.pw \in Nat /\ ssEpoch[p.user] \in Nat
      BY <1>1 DEF SsRead, SsTypeOK
    <3> QED
      BY <1>1, <1>3, <3>1 DEF RequestInv, ValidSession
  <2>5. RequestInv(c)'
    BY <1>1, <1>2, <2>1, <2>3, <2>4 DEF RequestInv
  <2>6. ClientInv(c)'
    BY <2>1, <2>3, <2>5 DEF ClientInv, LockHeld, EditInv, StoreInv
  <2> QED
    BY <1>1, <1>2, <2>2, <2>6, SessionsRead DEF SsLocksKept, SsTypeOK
<1>4. CASE ~ValidSession(p)
  <2>1. ssProc'[c] = SsIdle /\ SsIdle \in SsState /\ Become(c, SsIdle)
    BY <1>1, <1>2, <1>4 DEF Become, SsTypeOK, SsState
  <2> QED
    BY <1>1, <1>2, <2>1, IdleClient, SessionsRead DEF SsLocksKept, SsTypeOK
<1> QED
  BY <1>3, <1>4

\* A new session is of the password and the epoch in force.
LEMMA CreateSessionInv ==
  ASSUME SessionsInv, NEW c \in SsClients, CreateSessionStore(c)
  PROVE  SessionsInv'
<1> DEFINE p == ssProc[c]
           u == p.user
           new == CHOOSE s \in SessionIds \ DOMAIN ssSess : TRUE
           fresh == [user |-> u, pw |-> ssUser[u].pw, epoch |-> p.epoch, refresh |-> 0, revoked |-> FALSE]
           opens == p.epoch = ssEpoch[u] /\ SessionIds # DOMAIN ssSess
<1>1. p \in SsStore /\ p.op = "store" /\ LockHeld(c) /\ StoreInv(c) /\ SsTypeOK
  BY ClientState DEF CreateSessionStore, ClientInv, SessionsInv
<1>2. /\ Become(c, SsIdle) /\ ssRow' = [ssRow EXCEPT ![u] = SsNobody]
      /\ UNCHANGED <<ssUser, ssEpoch, ssGraph, ssSpent, ssChanges>>
      /\ ssSess' = IF opens THEN [s \in DOMAIN ssSess \cup {new} |-> IF s = new THEN fresh ELSE ssSess[s]] ELSE ssSess
  BY DEF CreateSessionStore
<1>3. u \in SsUsers /\ p.epoch \in Nat /\ ssRow[u] = c
  BY <1>1 DEF SsStore, LockHeld
<1>4. fresh \in SsSession
  BY <1>1, <1>3 DEF SsSession, SsTypeOK, SsRow
<1>5. ssProc'[c] = SsIdle /\ ssProc' \in [SsClients -> SsState] /\ \A d \in SsClients : d # c => ssProc'[d] = ssProc[d]
  BY <1>1, <1>2 DEF Become, SsTypeOK, SsState
<1>6. ssRow' \in [SsUsers -> SsClients \cup {SsNobody}] /\ SsLocksKept(c)
  BY <1>1, <1>2, <1>3 DEF SsTypeOK, SsLocksKept
<1>7. opens => new \in SessionIds \ DOMAIN ssSess
  <2>1. opens => \E s \in SessionIds \ DOMAIN ssSess : TRUE
    BY <1>1 DEF SsTypeOK
  <2> QED
    BY <2>1
<1> HIDE DEF new, fresh, opens
<1>8. /\ DOMAIN ssSess \subseteq DOMAIN ssSess' /\ \A s \in DOMAIN ssSess : ssSess'[s] = ssSess[s]
      /\ \A s \in DOMAIN ssSess' \ DOMAIN ssSess : s \in SessionIds /\ ssSess'[s] = fresh
      /\ ssSess' = [s \in DOMAIN ssSess' |-> ssSess'[s]]
  <2>1. CASE opens
    BY <1>2, <1>7, <2>1
  <2>2. CASE ~opens
    BY <1>1, <1>2, <2>2 DEF SsTypeOK
  <2> QED
    BY <2>1, <2>2
<1>9. SsTypeOK'
  <2>1. DOMAIN ssSess' \subseteq SessionIds
    BY <1>1, <1>8 DEF SsTypeOK
  <2>2. ASSUME NEW s \in DOMAIN ssSess' PROVE ssSess'[s] \in SsSession
    BY <1>1, <1>4, <1>8, <2>2 DEF SsTypeOK
  <2>3. ssSess' \in [DOMAIN ssSess' -> SsSession]
    BY <1>8, <2>2
  <2> QED
    BY <1>1, <1>2, <1>5, <1>6, <2>1, <2>3 DEF SsTypeOK
<1>10. SsGrows(c)
  <2>1. \A v \in SsUsers : ssUser[v].pw \in Nat /\ ssEpoch[v] \in Nat
    BY <1>1 DEF SsTypeOK, SsRow
  <2>2. \A s \in DOMAIN ssSess : ssSess[s].refresh \in Nat
    BY <1>1 DEF SsTypeOK, SsSession
  <2> QED
    BY <1>2, <1>3, <1>8, <2>1, <2>2 DEF SsGrows, fresh
<1>11. SessionInv'
  <2>1. ASSUME NEW s \in DOMAIN ssSess PROVE SessionOK(ssSess[s])'
    BY <1>8, <1>9, <1>10, <2>1, SessionsKept
  <2>2. ASSUME NEW s \in DOMAIN ssSess' \ DOMAIN ssSess PROVE SessionOK(ssSess[s])'
    <3>1. ssSess'[s] = fresh /\ fresh.user = u /\ fresh.pw = ssUser[u].pw /\ fresh.epoch = p.epoch /\ ~fresh.revoked
      BY <1>8, <2>2 DEF fresh
    <3>2. ssUser[u].pw \in Nat /\ p.epoch <= ssEpoch[u]
      BY <1>1, <1>3 DEF StoreInv, SsTypeOK, SsRow
    <3> QED
      BY <1>2, <3>1, <3>2 DEF SessionOK
  <2> QED
    BY <2>1, <2>2 DEF SessionInv
<1>12. SpentInv' /\ SsRowsKept
  BY <1>2, <1>9, <1>10, SpentKept DEF SsRowsKept
<1>13. UserInv' /\ AdministratorRemains'
  BY <1>2 DEF SessionsInv, UserInv, AdministratorRemains, Admins
<1>14. \A d \in SsClients : d # c => ssProc'[d] = ssProc[d] /\ EditInv(d)'
  BY <1>5, <1>9, <1>10, <1>12, EditKept
<1> QED
  BY <1>5, <1>6, <1>9, <1>10, <1>11, <1>12, <1>13, <1>14, IdleClient, SessionsClose

\* A refresh replaces the token in use by a later one.
LEMMA RotateInv ==
  ASSUME SessionsInv, NEW c \in SsClients, Rotate(c)
  PROVE  SessionsInv'
<1> DEFINE p == ssProc[c]
           s == p.sess
           token == <<s, p.token>>
<1>1. p \in SsRead /\ p.op = "accepted" /\ RequestInv(c) /\ SsTypeOK /\ s \in DOMAIN ssSess
  BY ClientState DEF Rotate, ClientInv, SessionsInv, RequestInv
<1>2. Become(c, SsIdle) /\ UNCHANGED <<ssUser, ssEpoch, ssGraph, ssRow, ssChanges>>
  BY DEF Rotate
<1>3. CASE ~MayRotate(p)
  <2>1. UNCHANGED <<ssSess, ssSpent>>
    BY <1>3 DEF Rotate
  <2>2. ssProc'[c] = SsIdle /\ SsIdle \in SsState
    BY <1>1, <1>2 DEF Become, SsTypeOK, SsState
  <2> QED
    BY <1>1, <1>2, <2>1, <2>2, IdleClient, SessionsRead DEF SsLocksKept, SsTypeOK
<1>4. CASE MayRotate(p)
  <2> DEFINE next == [ssSess[s] EXCEPT !.refresh = p.token + 1]
  <2>1. /\ ssSess' = [ssSess EXCEPT ![s].refresh = p.token + 1]
        /\ ssSpent' = [t \in DOMAIN ssSpent \cup {token} |->
                         IF t \notin DOMAIN ssSpent THEN 1 ELSE IF t = token THEN 2 ELSE ssSpent[t]]
    BY <1>4 DEF Rotate
  <2>2. ssSess[s] \in SsSession /\ p.token \in Nat /\ s \in SessionIds
    BY <1>1 DEF SsTypeOK, SsRead
  <2>3. ssSess[s].user # SsNobody /\ ssSess[s].refresh = p.token
    BY <1>4 DEF MayRotate
  <2>4. /\ next \in SsSession /\ next.user = ssSess[s].user /\ next.pw = ssSess[s].pw /\ next.epoch = ssSess[s].epoch
        /\ next.refresh = p.token + 1 /\ next.revoked = ssSess[s].revoked
    BY <2>2 DEF SsSession
  <2>5. DOMAIN ssSess' = DOMAIN ssSess /\ \A r \in DOMAIN ssSess : ssSess'[r] = IF r = s THEN next ELSE ssSess[r]
    BY <1>1, <2>1 DEF SsTypeOK
  <2> HIDE DEF next
  <2>6. token \notin DOMAIN ssSpent
    BY <1>1, <2>2, <2>3 DEF SessionsInv, SpentInv
  <2>7. DOMAIN ssSpent' = DOMAIN ssSpent \cup {token} /\ \A t \in DOMAIN ssSpent' : ssSpent'[t] = 1
    BY <2>1, <2>6 DEF SessionsInv, SpentInv
  <2>8. SsTypeOK'
    <3>1. ssSess' \in [DOMAIN ssSess' -> SsSession] /\ DOMAIN ssSess' \subseteq SessionIds
      BY <1>1, <2>1, <2>4, <2>5 DEF SsTypeOK
    <3>2. DOMAIN ssSpent' \subseteq SessionIds \X Nat
      BY <1>1, <2>2, <2>7 DEF SsTypeOK
    <3>3. ssSpent' \in [DOMAIN ssSpent' -> Nat]
      <4>1. ssSpent' = [t \in DOMAIN ssSpent' |-> ssSpent'[t]]
        BY <2>1
      <4> QED
        BY <2>7, <4>1
    <3>4. ssProc' \in [SsClients -> SsState]
      BY <1>1, <1>2 DEF Become, SsTypeOK, SsState
    <3> QED
      BY <1>1, <1>2, <3>1, <3>2, <3>3, <3>4 DEF SsTypeOK
  <2>9. SsGrows(c)
    <3>1. \A v \in SsUsers : ssUser[v].pw \in Nat /\ ssEpoch[v] \in Nat
      BY <1>1 DEF SsTypeOK, SsRow
    <3>2. \A r \in DOMAIN ssSess : ssSess[r].refresh \in Nat
      BY <1>1 DEF SsTypeOK, SsSession
    <3> QED
      BY <1>2, <2>2, <2>3, <2>4, <2>5, <3>1, <3>2 DEF SsGrows
  <2>10. SpentInv'
    <3> SUFFICES ASSUME NEW t \in DOMAIN ssSpent'
                 PROVE  t[1] \in DOMAIN ssSess' /\ (ssSess'[t[1]].user # SsNobody => t[2] < ssSess'[t[1]].refresh)
      BY <2>7 DEF SpentInv
    <3>1. CASE t = token
      BY <1>1, <2>2, <2>4, <2>5, <3>1
    <3>2. CASE t # token
      <4>1. t \in DOMAIN ssSpent /\ t[1] \in DOMAIN ssSess /\ t[2] \in Nat
            /\ (ssSess[t[1]].user # SsNobody => t[2] < ssSess[t[1]].refresh)
        BY <1>1, <2>7, <3>2 DEF SessionsInv, SpentInv, SsTypeOK
      <4> QED
        BY <2>2, <2>3, <2>4, <2>5, <4>1
    <3> QED
      BY <3>1, <3>2
  <2>11. ssProc'[c] = SsIdle /\ \A d \in SsClients : d # c => ssProc'[d] = ssProc[d]
    BY <1>1, <1>2 DEF Become, SsTypeOK
  <2>12. \A r \in DOMAIN ssSess : ssSess'[r].revoked => ssSess[r].revoked
    BY <2>4, <2>5
  <2>13. SsLocksKept(c)
    BY <1>2 DEF SsLocksKept
  <2> QED
    BY <1>2, <2>5, <2>8, <2>9, <2>10, <2>11, <2>12, <2>13, IdleClient, SessionsQuiet
<1> QED
  BY <1>3, <1>4

\* A session that ends stays out of everything.
LEMMA CloseInv ==
  ASSUME SessionsInv, NEW c, NEW s \in DOMAIN ssSess, ssSess' = [ssSess EXCEPT ![s] = Closed],
         UNCHANGED <<ssUser, ssEpoch, ssGraph, ssRow, ssSpent, ssChanges>>, ssProc' \in [SsClients -> SsState],
         c \in SsClients => ssProc'[c] = SsIdle, \A d \in SsClients : d # c => ssProc'[d] = ssProc[d]
  PROVE  SessionsInv'
<1>1. SsTypeOK /\ Closed \in SsSession
  BY DEF SessionsInv, SsSession, Closed
<1>2. DOMAIN ssSess' = DOMAIN ssSess /\ \A r \in DOMAIN ssSess : ssSess'[r] = IF r = s THEN Closed ELSE ssSess[r]
  BY <1>1 DEF SsTypeOK
<1>3. SsTypeOK'
  <2>1. ssSess' \in [DOMAIN ssSess' -> SsSession]
    BY <1>1, <1>2 DEF SsTypeOK
  <2> QED
    BY <1>1, <1>2, <2>1 DEF SsTypeOK
<1>4. SsGrows(c)
  <2>1. \A v \in SsUsers : ssUser[v].pw \in Nat /\ ssEpoch[v] \in Nat
    BY <1>1 DEF SsTypeOK, SsRow
  <2>2. \A r \in DOMAIN ssSess : ssSess[r].refresh \in Nat
    BY <1>1 DEF SsTypeOK, SsSession
  <2> QED
    BY <1>2, <2>1, <2>2 DEF SsGrows, Closed
<1>5. \A r \in DOMAIN ssSess : ssSess'[r].revoked => ssSess[r].revoked
  BY <1>2 DEF Closed
<1>6. SsLocksKept(c) /\ SpentInv'
  BY <1>3, <1>4, SpentKept DEF SsLocksKept
<1> QED
  BY <1>2, <1>3, <1>4, <1>5, <1>6, IdleClient, SessionsQuiet

\* A logout closes the session, by the request's session or by a token alone.
LEMMA LogoutInv ==
  ASSUME SessionsInv, NEW c \in SsClients, Logout(c)
  PROVE  SessionsInv'
<1>1. ssProc[c].sess \in DOMAIN ssSess /\ SsTypeOK
  BY ClientState DEF Logout, SessionsInv, ClientInv, RequestInv
<1>2. ssProc' \in [SsClients -> SsState] /\ ssProc'[c] = SsIdle /\ \A d \in SsClients : d # c => ssProc'[d] = ssProc[d]
  BY <1>1 DEF Logout, Become, SsTypeOK, SsState
<1> QED
  BY <1>1, <1>2, CloseInv DEF Logout

\* The same with a token alone.
LEMMA LogoutTokenInv ==
  ASSUME SessionsInv, NEW s \in DOMAIN ssSess, NEW token, LogoutToken(s, token)
  PROVE  SessionsInv'
<1>1. SsNobody \notin SsClients /\ ssProc' \in [SsClients -> SsState]
  BY SsAssumption DEF LogoutToken, SessionsInv, SsTypeOK
<1> QED
  BY <1>1, CloseInv DEF LogoutToken

\* What is revoked keeps everything else.
LEMMA RevokedSessions ==
  ASSUME SsTypeOK, NEW u, NEW sess, sess = Revoked(u)
  PROVE  /\ DOMAIN sess = DOMAIN ssSess /\ sess \in [DOMAIN ssSess -> SsSession]
         /\ \A s \in DOMAIN ssSess :
              /\ sess[s].user = ssSess[s].user /\ sess[s].pw = ssSess[s].pw /\ sess[s].epoch = ssSess[s].epoch
              /\ sess[s].refresh = ssSess[s].refresh
              /\ sess[s].revoked => ssSess[s].revoked \/ ssSess[s].user = u
<1>1. ASSUME NEW s \in DOMAIN ssSess
      PROVE  /\ sess[s] \in SsSession
             /\ sess[s].user = ssSess[s].user /\ sess[s].pw = ssSess[s].pw /\ sess[s].epoch = ssSess[s].epoch
             /\ sess[s].refresh = ssSess[s].refresh
             /\ sess[s].revoked => ssSess[s].revoked \/ ssSess[s].user = u
  <2> DEFINE b == ssSess[s].revoked \/ ssSess[s].user = u
  <2>1. sess[s] = [ssSess[s] EXCEPT !.revoked = b]
    BY DEF Revoked
  <2>2. ssSess[s] \in SsSession /\ b \in BOOLEAN
    BY DEF SsTypeOK, SsSession
  <2> HIDE DEF b
  <2>3. sess[s].revoked = b
    BY <2>1, <2>2 DEF SsSession
  <2>4. /\ sess[s] \in SsSession
        /\ sess[s].user = ssSess[s].user /\ sess[s].pw = ssSess[s].pw /\ sess[s].epoch = ssSess[s].epoch
        /\ sess[s].refresh = ssSess[s].refresh
    BY <2>1, <2>2 DEF SsSession
  <2> QED
    BY <2>3, <2>4 DEF b
<1>2. sess = [s \in DOMAIN ssSess |-> sess[s]]
  BY DEF Revoked
<1> QED
  BY <1>1, <1>2

\* A revocation keeps SessionInv if it leaves nothing of its user in force.
LEMMA RevokedInv ==
  ASSUME SessionsInv, NEW c, SsGrows(c), SsTypeOK', NEW u \in SsUsers, ssSess' = Revoked(u),
         \A s \in DOMAIN ssSess :
            ssSess[s].user = u => ssSess[s].pw < ssUser'[u].pw \/ ssSess[s].epoch < ssEpoch'[u]
  PROVE  SessionInv'
<1>1. SsTypeOK
  BY DEF SessionsInv
<1> SUFFICES ASSUME NEW s \in DOMAIN ssSess PROVE SessionOK(ssSess[s])'
  BY <1>1, RevokedSessions DEF SessionInv
<1>2. CASE ssSess[s].user # u
  BY <1>1, <1>2, RevokedSessions, SessionsKept
<1>3. CASE ssSess[s].user = u
  <2>1. /\ ssSess[s].pw \in Nat /\ ssSess[s].epoch \in Nat /\ ssUser[u].pw \in Nat /\ ssEpoch[u] \in Nat
        /\ ssUser'[u].pw \in Nat /\ ssEpoch'[u] \in Nat
    BY <1>1 DEF SsTypeOK, SsSession, SsRow
  <2>2. ssSess[s].pw <= ssUser[u].pw /\ ssSess[s].epoch <= ssEpoch[u]
    BY <1>3, SsAssumption DEF SessionsInv, SessionInv, SessionOK
  <2>3. ssUser[u].pw <= ssUser'[u].pw /\ ssEpoch[u] <= ssEpoch'[u]
    BY DEF SsGrows
  <2>4. ssSess'[s].user = u /\ ssSess'[s].pw = ssSess[s].pw /\ ssSess'[s].epoch = ssSess[s].epoch
    BY <1>1, <1>3, RevokedSessions
  <2> QED
    BY <1>3, <2>1, <2>2, <2>3, <2>4 DEF SessionOK, Past
<1> QED
  BY <1>2, <1>3

\* All sessions of a user are revoked by the epoch.
LEMMA RevokeAllInv ==
  ASSUME SessionsInv, NEW c \in SsClients, RevokeAll(c)
  PROVE  SessionsInv'
<1> DEFINE u == ssProc[c].user
<1>1. u \in SsUsers /\ SsTypeOK
  BY ClientState DEF RevokeAll, SsRead, SessionsInv
<1>2. /\ Become(c, SsIdle) /\ ssChanges' \in Nat /\ UNCHANGED <<ssUser, ssGraph, ssRow, ssSpent>>
      /\ ssEpoch' = [ssEpoch EXCEPT ![u] = @ + 1] /\ ssSess' = Revoked(u)
  BY <1>1 DEF RevokeAll, Change, SsTypeOK
<1>3. ssProc' \in [SsClients -> SsState] /\ ssProc'[c] = SsIdle /\ \A d \in SsClients : d # c => ssProc'[d] = ssProc[d]
  BY <1>1, <1>2 DEF Become, SsTypeOK, SsState
<1>4. ssEpoch' \in [SsUsers -> Nat] /\ \A v \in SsUsers : ssEpoch'[v] = IF v = u THEN ssEpoch[v] + 1 ELSE ssEpoch[v]
  BY <1>1, <1>2 DEF SsTypeOK
<1>5. SsTypeOK'
  BY <1>1, <1>2, <1>3, <1>4, RevokedSessions DEF SsTypeOK
<1>6. SsGrows(c)
  <2>1. \A v \in SsUsers : ssUser[v].pw \in Nat /\ ssEpoch[v] \in Nat /\ ssEpoch[v] <= ssEpoch'[v]
    BY <1>1, <1>4 DEF SsTypeOK, SsRow
  <2>2. \A r \in DOMAIN ssSess : ssSess[r].refresh \in Nat
    BY <1>1 DEF SsTypeOK, SsSession
  <2> QED
    BY <1>1, <1>2, <2>1, <2>2, RevokedSessions DEF SsGrows
<1>7. SessionInv'
  <2>1. \A s \in DOMAIN ssSess : ssSess[s].user = u => ssSess[s].epoch <= ssEpoch[u] /\ ssSess[s].epoch \in Nat
    BY <1>1, SsAssumption DEF SessionsInv, SessionInv, SessionOK, SsTypeOK, SsSession
  <2>2. ssEpoch[u] \in Nat /\ ssEpoch'[u] = ssEpoch[u] + 1
    BY <1>1, <1>4 DEF SsTypeOK
  <2> QED
    BY <1>1, <1>2, <1>5, <1>6, <2>1, <2>2, RevokedInv
<1>8. SpentInv' /\ SsRowsKept /\ SsLocksKept(c)
  BY <1>2, <1>5, <1>6, SpentKept DEF SsRowsKept, SsLocksKept
<1>9. UserInv' /\ AdministratorRemains'
  BY <1>2 DEF SessionsInv, UserInv, AdministratorRemains, Admins
<1>10. \A d \in SsClients : d # c => ssProc'[d] = ssProc[d] /\ EditInv(d)'
  BY <1>3, <1>5, <1>6, <1>8, EditKept
<1> QED
  BY <1>3, <1>5, <1>6, <1>7, <1>8, <1>9, <1>10, IdleClient, SessionsClose

\* They are revoked by a new password too.
LEMMA ChangePasswordInv ==
  ASSUME SessionsInv, NEW c \in SsClients, ChangePassword(c)
  PROVE  SessionsInv'
<1> DEFINE u == ssProc[c].user
           row == [ssUser[u] EXCEPT !.pw = @ + 1]
<1>1. u \in SsUsers /\ SsTypeOK /\ ssUser[u] \in SsRow
  BY ClientState DEF ChangePassword, SsRead, SessionsInv, SsTypeOK
<1>2. Become(c, SsIdle) /\ ssChanges' \in Nat /\ UNCHANGED <<ssEpoch, ssGraph, ssRow, ssSpent>>
  BY <1>1 DEF ChangePassword, Change, SsTypeOK
<1>3. ssProc' \in [SsClients -> SsState] /\ ssProc'[c] = SsIdle /\ \A d \in SsClients : d # c => ssProc'[d] = ssProc[d]
  BY <1>1, <1>2 DEF Become, SsTypeOK, SsState
<1>4. CASE UNCHANGED <<ssUser, ssSess>>
  BY <1>1, <1>2, <1>3, <1>4, IdleClient, SessionsRead DEF SsLocksKept, SsTypeOK, SsState
<1>5. CASE ssUser[u].live /\ ssUser' = [ssUser EXCEPT ![u].pw = @ + 1] /\ ssSess' = Revoked(u)
  <2>1. /\ row \in SsRow /\ row.pw = ssUser[u].pw + 1 /\ row.born = ssUser[u].born /\ row.live = ssUser[u].live
        /\ row.active = ssUser[u].active /\ row.admin = ssUser[u].admin
    BY <1>1 DEF SsRow
  <2>2. ssUser' \in [SsUsers -> SsRow] /\ \A v \in SsUsers : ssUser'[v] = IF v = u THEN row ELSE ssUser[v]
    BY <1>1, <1>5, <2>1 DEF SsTypeOK
  <2> HIDE DEF row
  <2>3. SsTypeOK'
    BY <1>1, <1>2, <1>3, <1>5, <2>2, RevokedSessions DEF SsTypeOK
  <2>4. \A v \in SsUsers : ssUser[v].pw \in Nat /\ ssEpoch[v] \in Nat /\ ssUser[v].pw <= ssUser'[v].pw
    BY <1>1, <2>1, <2>2 DEF SsTypeOK, SsRow
  <2>5. SsGrows(c)
    <3>1. \A r \in DOMAIN ssSess : ssSess[r].refresh \in Nat
      BY <1>1 DEF SsTypeOK, SsSession
    <3> QED
      BY <1>1, <1>2, <1>5, <2>1, <2>2, <2>4, <3>1, RevokedSessions DEF SsGrows
  <2>6. SessionInv'
    <3>1. \A s \in DOMAIN ssSess : ssSess[s].user = u => ssSess[s].pw <= ssUser[u].pw /\ ssSess[s].pw \in Nat
      BY <1>1, SsAssumption DEF SessionsInv, SessionInv, SessionOK, SsTypeOK, SsSession
    <3>2. ssUser[u].pw \in Nat /\ ssUser'[u].pw = ssUser[u].pw + 1
      BY <1>1, <2>1, <2>2, <2>4
    <3> QED
      BY <1>1, <1>5, <2>3, <2>5, <3>1, <3>2, RevokedInv
  <2>7. SpentInv' /\ SsRowsKept /\ SsLocksKept(c)
    BY <1>2, <2>1, <2>2, <2>3, <2>5, SpentKept DEF SsRowsKept, SsLocksKept
  <2>8. UserInv' /\ AdministratorRemains'
    <3>1. ssUser[u].born
      BY <1>1, <1>5 DEF SessionsInv, UserInv
    <3> QED
      BY <2>1, <2>2, <3>1 DEF SessionsInv, UserInv, AdministratorRemains, Admins
  <2>9. \A d \in SsClients : d # c => ssProc'[d] = ssProc[d] /\ EditInv(d)'
    BY <1>3, <2>3, <2>5, <2>7, EditKept
  <2> QED
    BY <1>3, <2>3, <2>5, <2>6, <2>7, <2>8, <2>9, IdleClient, SessionsClose
<1> QED
  BY <1>4, <1>5 DEF ChangePassword

\* What an edit makes of a row: it removes an administrator only as MayEdit
\* knows it.
LEMMA EditedRow ==
  ASSUME NEW row \in SsRow, NEW edit \in UserEdits
  PROVE  LET new == AfterEdit(row, edit) IN
         /\ new \in SsRow /\ new.born = row.born /\ (new.live => row.live) /\ row.pw <= new.pw
         /\ edit.what = "password" => new.pw = row.pw + 1
         /\ edit.what = "password" \/ edit.to =>
               (row.live /\ row.active /\ row.admin => new.live /\ new.active /\ new.admin)
<1>1. edit.what \in {"status", "role", "password", "delete"} /\ edit.to \in BOOLEAN
      /\ (edit.what = "delete" => ~edit.to)
  BY DEF UserEdits
<1>2. CASE edit.what = "status"
  BY <1>1, <1>2 DEF AfterEdit, SsRow
<1>3. CASE edit.what = "role"
  BY <1>1, <1>3 DEF AfterEdit, SsRow
<1>4. CASE edit.what = "password"
  BY <1>1, <1>4 DEF AfterEdit, SsRow
<1>5. CASE edit.what = "delete"
  <2>1. AfterEdit(row, edit) = [row EXCEPT !.live = FALSE, !.active = FALSE]
    BY <1>5 DEF AfterEdit
  <2>2. row.pw \in Nat
    BY DEF SsRow
  <2>3. AfterEdit(row, edit) \in SsRow /\ AfterEdit(row, edit).born = row.born /\ AfterEdit(row, edit).pw = row.pw
    BY <2>1 DEF SsRow
  <2>4. ~AfterEdit(row, edit).live
    BY <2>1 DEF SsRow
  <2>5. edit.what # "password" /\ ~edit.to
    BY <1>1, <1>5
  <2> QED
    BY <2>2, <2>3, <2>4, <2>5
<1> QED
  BY <1>1, <1>2, <1>3, <1>4, <1>5

\* An administrator asks for an edit.
LEMMA StartEditInv ==
  ASSUME SessionsInv, NEW c \in SsClients, NEW by \in SsUsers, NEW u \in SsUsers, NEW edit \in UserEdits,
         StartEdit(c, by, u, edit)
  PROVE  SessionsInv'
<1> DEFINE p == [op |-> "edit", by |-> by, user |-> u, edit |-> edit]
<1>1. SsTypeOK /\ ssUser[u].born
  BY DEF StartEdit, SessionsInv, UserInv
<1>2. Become(c, p) /\ ssChanges' \in Nat /\ UNCHANGED <<ssUser, ssEpoch, ssSess, ssGraph, ssRow, ssSpent>>
  BY <1>1 DEF StartEdit, Change, SsTypeOK
<1>3. p \in SsState
  BY DEF SsState, SsEdit
<1>4. ssProc'[c] = p
  BY <1>1, <1>2 DEF Become, SsTypeOK
<1>5. ClientInv(c)'
  BY <1>1, <1>2, <1>4 DEF ClientInv, LockHeld, EditInv, StoreInv, RequestInv
<1> QED
  BY <1>1, <1>2, <1>3, <1>5, SessionsRead DEF SsLocksKept, SsTypeOK

\* An edit that gets the locks may be made, and the epoch that it begins is
\* later than that of every session of its user.
LEMMA EditBeginInv ==
  ASSUME SessionsInv, NEW c \in SsClients, EditBegin(c)
  PROVE  SessionsInv'
<1> DEFINE p == ssProc[c]
           u == p.user
           op == IF Revokes(p) THEN "revoked" ELSE "kept"
           q == [p EXCEPT !.op = op]
<1>1. p \in SsEdit /\ u \in SsUsers /\ SsTypeOK /\ ssRow[u] = SsNobody /\ ssGraph = SsNobody /\ EditInv(c) /\ p.op = "edit"
  BY ClientState DEF EditBegin, EditLock, SsEdit, SessionsInv, ClientInv
<1>2. UNCHANGED <<ssUser, ssSess, ssSpent, ssChanges>>
  BY DEF EditBegin, EditLock
<1>3. CASE Become(c, SsIdle) /\ UNCHANGED <<ssGraph, ssRow, ssEpoch>>
  <2>1. ssProc'[c] = SsIdle /\ SsIdle \in SsState
    BY <1>1, <1>3 DEF Become, SsTypeOK, SsState
  <2> QED
    BY <1>1, <1>2, <1>3, <2>1, IdleClient, SessionsRead DEF SsLocksKept, SsTypeOK
<1>4. CASE /\ ssUser[u].live /\ MayEdit(p)
           /\ Become(c, q) /\ ssGraph' = c /\ ssRow' = [ssRow EXCEPT ![u] = c]
           /\ ssEpoch' = IF Revokes(p) THEN [ssEpoch EXCEPT ![u] = @ + 1] ELSE ssEpoch
  <2>1. op \in {"revoked", "kept"} /\ (op = "revoked" => Revokes(p))
    OBVIOUS
  <2>2. ssProc' = [ssProc EXCEPT ![c] = q]
    BY <1>4 DEF Become
  <2> HIDE DEF op
  <2>3. q \in SsEdit /\ q.op = op /\ q.user = u /\ q.by = p.by /\ q.edit = p.edit
    BY <1>1, <2>1 DEF SsEdit
  <2> HIDE DEF q
  <2>4. ssProc' \in [SsClients -> SsState] /\ ssProc'[c] = q /\ \A d \in SsClients : d # c => ssProc'[d] = ssProc[d]
    BY <1>1, <2>2, <2>3 DEF SsTypeOK, SsState
  <2>5. /\ ssEpoch' \in [SsUsers -> Nat]
        /\ \A v \in SsUsers : ssEpoch'[v] = IF v = u /\ Revokes(p) THEN ssEpoch[v] + 1 ELSE ssEpoch[v]
    BY <1>1, <1>4 DEF SsTypeOK
  <2>6. SsTypeOK'
    BY <1>1, <1>2, <1>4, <2>4, <2>5 DEF SsTypeOK
  <2>7. SsGrows(c)
    <3>1. \A v \in SsUsers : ssUser[v].pw \in Nat /\ ssEpoch[v] \in Nat /\ ssEpoch[v] <= ssEpoch'[v]
      BY <1>1, <2>5 DEF SsTypeOK, SsRow
    <3>2. \A r \in DOMAIN ssSess : ssSess[r].refresh \in Nat
      BY <1>1 DEF SsTypeOK, SsSession
    <3> QED
      BY <1>2, <3>1, <3>2 DEF SsGrows
  <2>8. SsLocksKept(c)
    BY <1>1, <1>4 DEF SsLocksKept, SsTypeOK
  <2>9. EditInv(c)'
    <3>1. MayEdit(ssProc[c])'
      BY <1>2, <1>4, <2>3, <2>4 DEF MayEdit, Admins
    <3>2. ASSUME op = "revoked", NEW s \in DOMAIN ssSess, ssSess[s].user = u PROVE ssSess[s].epoch < ssEpoch'[u]
      <4>1. ssSess[s].epoch \in Nat /\ ssEpoch[u] \in Nat /\ ssEpoch'[u] = ssEpoch[u] + 1
        BY <1>1, <2>1, <2>5, <3>2 DEF SsTypeOK, SsSession
      <4>2. ssSess[s].epoch <= ssEpoch[u]
        BY <1>1, <3>2, SsAssumption DEF SessionsInv, SessionInv, SessionOK
      <4> QED
        BY <4>1, <4>2
    <3> QED
      BY <1>1, <1>2, <2>3, <2>4, <3>1, <3>2 DEF EditInv
  <2>10. ClientInv(c)'
    BY <1>1, <1>4, <2>1, <2>3, <2>4, <2>9 DEF ClientInv, LockHeld, StoreInv, RequestInv, SsTypeOK
  <2>11. SpentInv'
    BY <1>2, <2>6, <2>7, SpentKept
  <2> QED
    BY <1>2, <2>4, <2>6, <2>7, <2>8, <2>10, <2>11, SessionsQuiet
<1> QED
  BY <1>3, <1>4 DEF EditBegin, EditLock

\* An edit is committed while what MayEdit saw still holds: it leaves an
\* administrator, and what it revokes is past.
LEMMA EditCommitInv ==
  ASSUME SessionsInv, NEW c \in SsClients, EditCommit(c)
  PROVE  SessionsInv'
<1> DEFINE p == ssProc[c]
           u == p.user
           row == AfterEdit(ssUser[u], p.edit)
           revokes == p.op = "revoked" \/ p.edit.what = "password"
<1>1. /\ p \in SsEdit /\ u \in SsUsers /\ p.edit \in UserEdits /\ p.op \in {"revoked", "kept"} /\ SsTypeOK
      /\ LockHeld(c) /\ EditInv(c)
  BY ClientState DEF EditCommit, SsEdit, SessionsInv, ClientInv
<1>2. ssRow[u] = c /\ ssGraph = c /\ ssUser[u].born /\ MayEdit(p) /\ ssUser[u] \in SsRow
  BY <1>1 DEF LockHeld, EditInv, SsTypeOK
<1>3. /\ Become(c, SsIdle) /\ ssGraph' = SsNobody /\ ssRow' = [ssRow EXCEPT ![u] = SsNobody]
      /\ UNCHANGED <<ssEpoch, ssSpent, ssChanges>>
  BY DEF EditCommit
<1>4. ssProc' \in [SsClients -> SsState] /\ ssProc'[c] = SsIdle /\ \A d \in SsClients : d # c => ssProc'[d] = ssProc[d]
  BY <1>1, <1>3 DEF Become, SsTypeOK, SsState
<1>5. SsLocksKept(c) /\ ssRow' \in [SsUsers -> SsClients \cup {SsNobody}]
  BY <1>1, <1>2, <1>3 DEF SsLocksKept, SsTypeOK
<1>6. CASE UNCHANGED <<ssUser, ssSess>>
  <2>1. SsIdle \in SsState /\ ssGraph' \in SsClients \cup {SsNobody} /\ ssChanges' \in Nat
    BY <1>1, <1>3 DEF SsState, SsTypeOK
  <2> QED
    BY <1>3, <1>4, <1>5, <1>6, <2>1, IdleClient, SessionsRead
<1>7. CASE ssUser' = [ssUser EXCEPT ![u] = row] /\ ssSess' = IF revokes THEN Revoked(u) ELSE ssSess
  <2>1. /\ row \in SsRow /\ row.born = ssUser[u].born /\ (row.live => ssUser[u].live) /\ ssUser[u].pw <= row.pw
        /\ p.edit.what = "password" => row.pw = ssUser[u].pw + 1
        /\ p.edit.what = "password" \/ p.edit.to =>
              (u \in Admins => row.live /\ row.active /\ row.admin)
    BY <1>1, <1>2, EditedRow DEF Admins
  <2>2. ssUser' \in [SsUsers -> SsRow] /\ \A v \in SsUsers : ssUser'[v] = IF v = u THEN row ELSE ssUser[v]
    BY <1>1, <1>7, <2>1 DEF SsTypeOK
  <2> HIDE DEF row
  <2>3. /\ DOMAIN ssSess' = DOMAIN ssSess /\ ssSess' \in [DOMAIN ssSess -> SsSession]
        /\ \A s \in DOMAIN ssSess :
              /\ ssSess'[s].user = ssSess[s].user /\ ssSess'[s].pw = ssSess[s].pw /\ ssSess'[s].epoch = ssSess[s].epoch
              /\ ssSess'[s].refresh = ssSess[s].refresh
    <3>1. CASE revokes
      BY <1>1, <1>7, <3>1, RevokedSessions
    <3>2. CASE ~revokes
      BY <1>1, <1>7, <3>2 DEF SsTypeOK
    <3> QED
      BY <3>1, <3>2
  <2>4. SsTypeOK'
    BY <1>1, <1>3, <1>4, <1>5, <2>2, <2>3 DEF SsTypeOK
  <2>5. \A v \in SsUsers : /\ ssUser[v].pw \in Nat /\ ssEpoch[v] \in Nat
                           /\ ssUser[v].pw <= ssUser'[v].pw /\ (ssUser[v].born => ssUser'[v].born)
    BY <1>1, <2>1, <2>2 DEF SsTypeOK, SsRow
  <2>6. SsGrows(c)
    <3>1. \A r \in DOMAIN ssSess : ssSess[r].refresh \in Nat
      BY <1>1 DEF SsTypeOK, SsSession
    <3> QED
      BY <1>3, <2>3, <2>5, <3>1 DEF SsGrows
  <2>7. SessionInv'
    <3>1. CASE revokes
      <4>1. ASSUME NEW s \in DOMAIN ssSess, ssSess[s].user = u
            PROVE  ssSess[s].pw < ssUser'[u].pw \/ ssSess[s].epoch < ssEpoch'[u]
        <5>1. CASE p.op = "revoked"
          BY <1>1, <1>3, <4>1, <5>1 DEF EditInv
        <5>2. CASE p.edit.what = "password"
          <6>1. ssSess[s].pw <= ssUser[u].pw
            BY <1>1, <4>1, SsAssumption DEF SessionsInv, SessionInv, SessionOK
          <6>2. ssSess[s].pw \in Nat /\ ssUser[u].pw \in Nat /\ ssUser'[u].pw = ssUser[u].pw + 1
            BY <1>1, <2>1, <2>2, <2>5, <5>2 DEF SsTypeOK, SsSession
          <6> QED
            BY <6>1, <6>2
        <5> QED
          BY <3>1, <5>1, <5>2
      <4> QED
        BY <1>1, <1>7, <2>4, <2>6, <3>1, <4>1, RevokedInv
    <3>2. CASE ~revokes
      BY <1>7, <2>4, <2>6, <3>2, SessionsKept DEF SessionInv
    <3> QED
      BY <3>1, <3>2
  <2>8. SpentInv'
    BY <1>3, <2>4, <2>6, SpentKept
  <2>9. UserInv'
    BY <1>2, <2>1, <2>2 DEF SessionsInv, UserInv
  <2>10. AdministratorRemains'
    <3>1. PICK a \in Admins : a # u \/ (row.live /\ row.active /\ row.admin)
      <4>1. CASE p.edit.what = "password" \/ p.edit.to
        BY <1>1, <1>2, <2>1, <4>1 DEF SessionsInv, AdministratorRemains
      <4>2. CASE ~(p.edit.what = "password" \/ p.edit.to) /\ ssUser[u].admin
        BY <1>2, <4>2 DEF MayEdit
      <4>3. CASE ~ssUser[u].admin
        BY <1>1, <1>2, <4>3 DEF SessionsInv, AdministratorRemains, Admins
      <4> QED
        BY <4>1, <4>2, <4>3
    <3> QED
      BY <1>1, <2>2, <3>1 DEF AdministratorRemains, Admins
  <2>11. ASSUME NEW d \in SsClients, d # c PROVE EditInv(d)'
    <3>1. ssProc'[d] = ssProc[d] /\ EditInv(d) /\ LockHeld(d) /\ ssProc[d] \in SsState
      BY <1>4, <2>11 DEF SessionsInv, ClientInv, SsTypeOK
    <3>2. ssProc[d].op \notin {"revoked", "kept"}
      BY <1>2, <2>11, <3>1 DEF LockHeld
    <3>3. ssProc[d].op = "edit" => ssProc[d].user \in SsUsers
      BY <3>1 DEF SsState, SsIdle, SsLogin, SsStore, SsLoaded, SsRead, SsEdit
    <3> QED
      BY <2>5, <3>1, <3>2, <3>3 DEF EditInv
  <2> QED
    BY <1>4, <1>5, <2>4, <2>6, <2>7, <2>8, <2>9, <2>10, <2>11, IdleClient, SessionsClose
<1>8. \E ok \in BOOLEAN : /\ ssUser' = IF ok THEN [ssUser EXCEPT ![u] = row] ELSE ssUser
                          /\ ssSess' = IF ok /\ revokes THEN Revoked(u) ELSE ssSess
  BY DEF EditCommit
<1> QED
  BY <1>6, <1>7, <1>8

\* Every step of the sessions keeps SessionsInv.
LEMMA SessionStep == SessionsInv /\ [SessionNext]_ssVars => SessionsInv'
<1> SUFFICES ASSUME SessionsInv, [SessionNext]_ssVars PROVE SessionsInv'
  OBVIOUS
<1>1. ASSUME NEW u \in SsUsers, Bootstrap(u) PROVE SessionsInv'
  BY <1>1, AddUserInv DEF Bootstrap
<1>2. ASSUME NEW u \in SsUsers, NEW admin \in BOOLEAN, CreateUser(u, admin) PROVE SessionsInv'
  BY <1>2, AddUserInv DEF CreateUser
<1>3. ASSUME NEW c \in SsClients, NEW u \in SsUsers, LoginCompare(c, u) PROVE SessionsInv'
  BY <1>3, LoginCompareInv
<1>4. ASSUME NEW c \in SsClients, NEW by \in SsUsers, NEW u \in SsUsers, NEW edit \in UserEdits, StartEdit(c, by, u, edit)
      PROVE  SessionsInv'
  BY <1>4, StartEditInv
<1>5. ASSUME NEW c \in SsClients, NEW s \in DOMAIN ssSess, NEW purpose \in Purposes, Present(c, s, purpose, 0)
      PROVE  SessionsInv'
  BY <1>5, PresentInv
<1>6. ASSUME NEW c \in SsClients, NEW s \in DOMAIN ssSess, NEW token \in 0..(SsMaxRefresh - 1), Present(c, s, "refresh", token)
      PROVE  SessionsInv'
  <2>1. token \in Nat
    BY SsAssumption
  <2> QED
    BY <1>6, <2>1, PresentInv
<1>7. ASSUME NEW s \in DOMAIN ssSess, NEW token \in 0..SsMaxRefresh, LogoutToken(s, token) PROVE SessionsInv'
  BY <1>7, LogoutTokenInv
<1>8. ASSUME NEW c \in SsClients,
             \/ LoginLock(c) \/ CreateSessionStore(c)
             \/ ReadSession(c) \/ ReadEpoch(c) \/ Rotate(c) \/ Logout(c) \/ RevokeAll(c) \/ ChangePassword(c)
             \/ EditBegin(c) \/ EditCommit(c)
      PROVE  SessionsInv'
  BY <1>8, LoginLockInv, CreateSessionInv, ReadSessionInv, ReadEpochInv, RotateInv, LogoutInv, RevokeAllInv,
     ChangePasswordInv, EditBeginInv, EditCommitInv
<1>9. CASE UNCHANGED ssVars
  <2>1. SsTypeOK' /\ UserInv' /\ SpentInv' /\ AdministratorRemains'
    BY <1>9 DEF ssVars, SessionsInv, SsTypeOK, UserInv, SpentInv, AdministratorRemains, Admins
  <2>2. SessionInv'
    BY <1>9 DEF ssVars, SessionsInv, SessionInv, SessionOK, Past
  <2>3. ASSUME NEW c \in SsClients PROVE ClientInv(c)'
    BY <1>9 DEF ssVars, SessionsInv, ClientInv, LockHeld, EditInv, StoreInv, RequestInv, MayEdit, Admins
  <2> QED
    BY <2>1, <2>2, <2>3 DEF SessionsInv
<1> QED
  BY <1>1, <1>2, <1>3, <1>4, <1>5, <1>6, <1>7, <1>8, <1>9 DEF SessionNext

\* Access that was taken from a user stays away: however logins, requests,
\* refreshes and edits interleave between PostgreSQL and Redis, no request is
\* accepted on a session that was revoked before it came, no refresh token is
\* exchanged twice, and no edits together remove the last administrator.
THEOREM SessionsAreRevocable == SessionSpec => [](AdministratorRemains /\ RevokedStayOut /\ TokenSpentOnce)
<1>1. SessionsInv => AdministratorRemains /\ RevokedStayOut /\ TokenSpentOnce
  BY DEF SessionsInv, ClientInv, RequestInv, RevokedStayOut, SpentInv, TokenSpentOnce
<1> QED
  BY SessionsInit, SessionStep, <1>1, PTL DEF SessionSpec

\* The composition runs each of these components as it is by itself.
LEMMA AdminRunsEach == AdminSpec => SessionSpec /\ KeySpec /\ GroupSpec /\ CompositeSpec /\ ProxySpec /\ SpendingSpec
<1> DEFINE all == <<focus, pxVars, ggVars, ssVars, kaVars, coVars, spVars, vars>>
<1>1. AdminInit => SsInit /\ KaInit /\ GgInit /\ CoInit /\ PxInit /\ SpInit
  BY DEF AdminInit
<1>2. [AdminNext]_all => [SessionNext]_ssVars
  BY DEF AdminNext, Others
<1>3. [AdminNext]_all => [KeyNext]_kaVars
  BY DEF AdminNext, Others
<1>4. [AdminNext]_all => [GroupNext]_ggVars
  BY DEF AdminNext, Others
<1>5. [AdminNext]_all => [CompositeNext]_coVars
  BY DEF AdminNext, Others
<1>6. [AdminNext]_all => [ProxyNext]_pxVars
  BY DEF AdminNext, Others
<1>7. [AdminNext]_all => [SpendingNext]_spVars
  BY DEF AdminNext, Others
<1> QED
  BY <1>1, <1>2, <1>3, <1>4, <1>5, <1>6, <1>7, PTL
  DEF AdminSpec, SessionSpec, KeySpec, GroupSpec, CompositeSpec, ProxySpec, SpendingSpec

\* What the composition checks of access holds for every instance of it.
THEOREM AccessStaysRevocable == AdminSpec => []AccessRevocable
<1>1. AdministratorRemains /\ RevokedStayOut /\ TokenSpentOnce /\ AdmittedWithAccess => AccessRevocable
  BY DEF AccessRevocable
<1> QED
  BY AdminRunsEach, SessionsAreRevocable, AdmissionNeedsAccess, <1>1, PTL

(***************************************************************************)
(* Idempotency, for any number of calls, keys and faults.  OneOpenCall is  *)
(* not inductive alone: Insert overwrites the row without looking at it    *)
(* again.  InsertInv keeps what Lookup saw true until then, for which      *)
(* LockInv is needed, and OwnInv says that an open call still has its      *)
(* processing row, so that Lookup cannot have seen what it saw.            *)
(***************************************************************************)
LockInv == \A c, d \in Calls : Locking(c) /\ Locking(d) /\ KeyOf[c] = KeyOf[d] => c = d

InsertInv == \A c \in Calls : pc[c] = "insert" => ~Live(KeyOf[c])

OwnInv ==
    \A c \in Calls :
        Open(c) => status[KeyOf[c]] = "processing" /\ print[KeyOf[c]] = Fingerprint[c]

HistoryInv ==
    \A c \in Calls :
        /\ pc[c] # "done" => c \notin saved /\ replay[c] = None
        /\ pc[c] \in {"new", "lookup", "insert", "claimed"} => c \notin sent

StoredInv ==
    \A k \in Keys :
        body[k] # None => body[k] \in saved /\ KeyOf[body[k]] = k /\ Fingerprint[body[k]] = print[k]

IInv ==
    /\ TypeOK /\ LockInv /\ InsertInv /\ OwnInv /\ HistoryInv /\ StoredInv
    /\ OneOpenCall /\ ReplayIsOriginal

\* Without rows and calls nothing is open and nothing replayed.
LEMMA InitInv == Init => IInv
  BY IdempotencyAssumption
  DEF Init, IInv, TypeOK, LockInv, InsertInv, OwnInv, HistoryInv, StoredInv, OneOpenCall, ReplayIsOriginal,
      Locking, Live, Open

\* The advisory lock is granted to one call of a key.
LEMMA BeginClaimInv ==
  ASSUME IInv, NEW c \in Calls, BeginClaim(c)
  PROVE  IInv'
<1> USE IdempotencyAssumption DEF IInv, BeginClaim, records, Open, Locking, Goto
<1>1. TypeOK'
  BY DEF TypeOK
<1>2. (LockInv /\ InsertInv)'
  BY DEF TypeOK, LockInv, InsertInv, OwnInv, HistoryInv, Live, Locking
<1>3. (OwnInv /\ HistoryInv /\ OneOpenCall)'
  BY DEF TypeOK, InsertInv, OwnInv, HistoryInv, OneOpenCall, Live
<1>4. (StoredInv /\ ReplayIsOriginal)'
  BY DEF TypeOK, InsertInv, OwnInv, HistoryInv, StoredInv, ReplayIsOriginal
<1> QED
  BY <1>1, <1>2, <1>3, <1>4

\* What Lookup replays was stored by a call with its fingerprint.
LEMMA LookupInv ==
  ASSUME IInv, NEW c \in Calls, Lookup(c)
  PROVE  IInv'
<1> USE IdempotencyAssumption DEF IInv, Lookup, records, Open, Live, Locking, Goto
<1>1. TypeOK'
  BY DEF TypeOK
<1>2. (LockInv /\ InsertInv)'
  BY DEF TypeOK, LockInv, InsertInv, OwnInv, HistoryInv, Live, Locking
<1>3. (OwnInv /\ HistoryInv /\ OneOpenCall)'
  BY DEF TypeOK, InsertInv, OwnInv, HistoryInv, OneOpenCall, Live
<1>4. (StoredInv /\ ReplayIsOriginal)'
  BY DEF TypeOK, InsertInv, OwnInv, HistoryInv, StoredInv, ReplayIsOriginal
<1> QED
  BY <1>1, <1>2, <1>3, <1>4

\* Insert replaces only a row that no open call owns.
LEMMA InsertInvStep ==
  ASSUME IInv, NEW c \in Calls, Insert(c)
  PROVE  IInv'
<1> USE IdempotencyAssumption DEF IInv, Insert, records, Open, Live, Locking, Goto, Fault, NoFault
<1>1. TypeOK'
  BY DEF TypeOK
<1>2. (LockInv /\ InsertInv)'
  BY DEF TypeOK, LockInv, InsertInv, OwnInv, HistoryInv, Live, Locking
<1>3. (OwnInv /\ HistoryInv /\ OneOpenCall)'
  BY DEF TypeOK, InsertInv, OwnInv, HistoryInv, OneOpenCall, Live
<1>4. (StoredInv /\ ReplayIsOriginal)'
  BY DEF TypeOK, InsertInv, OwnInv, HistoryInv, StoredInv, ReplayIsOriginal
<1> QED
  BY <1>1, <1>2, <1>3, <1>4

\* A failed claim changes no row and its call sends nothing.
LEMMA ClaimFailsInv ==
  ASSUME IInv, NEW c \in Calls, ClaimFails(c)
  PROVE  IInv'
<1> USE IdempotencyAssumption DEF IInv, ClaimFails, records, Open, Locking, Goto, Fault
<1>1. TypeOK'
  BY DEF TypeOK
<1>2. (LockInv /\ InsertInv)'
  BY DEF TypeOK, LockInv, InsertInv, OwnInv, HistoryInv, Live, Locking
<1>3. (OwnInv /\ HistoryInv /\ OneOpenCall)'
  BY DEF TypeOK, InsertInv, OwnInv, HistoryInv, OneOpenCall, Live
<1>4. (StoredInv /\ ReplayIsOriginal)'
  BY DEF TypeOK, InsertInv, OwnInv, HistoryInv, StoredInv, ReplayIsOriginal
<1> QED
  BY <1>1, <1>2, <1>3, <1>4

\* A refused call still owns its processing row.
LEMMA RefuseInv ==
  ASSUME IInv, NEW c \in Calls, Refuse(c)
  PROVE  IInv'
<1> USE IdempotencyAssumption DEF IInv, Refuse, records, Open, Goto
<1>1. TypeOK'
  BY DEF TypeOK
<1>2. (LockInv /\ InsertInv)'
  BY DEF TypeOK, LockInv, InsertInv, OwnInv, HistoryInv, Live, Locking
<1>3. (OwnInv /\ HistoryInv /\ OneOpenCall)'
  BY DEF TypeOK, InsertInv, OwnInv, HistoryInv, OneOpenCall, Live
<1>4. (StoredInv /\ ReplayIsOriginal)'
  BY DEF TypeOK, InsertInv, OwnInv, HistoryInv, StoredInv, ReplayIsOriginal
<1> QED
  BY <1>1, <1>2, <1>3, <1>4

\* A call is dispatched only while it owns its processing row.
LEMMA DispatchInv ==
  ASSUME IInv, NEW c \in Calls, Dispatch(c)
  PROVE  IInv'
<1> USE IdempotencyAssumption DEF IInv, Dispatch, records, Open, Goto
<1>1. TypeOK'
  BY DEF TypeOK
<1>2. (LockInv /\ InsertInv)'
  BY DEF TypeOK, LockInv, InsertInv, OwnInv, HistoryInv, Live, Locking
<1>3. (OwnInv /\ HistoryInv /\ OneOpenCall)'
  BY DEF TypeOK, InsertInv, OwnInv, HistoryInv, OneOpenCall, Live
<1>4. (StoredInv /\ ReplayIsOriginal)'
  BY DEF TypeOK, InsertInv, OwnInv, HistoryInv, StoredInv, ReplayIsOriginal
<1> QED
  BY <1>1, <1>2, <1>3, <1>4

\* A call that skips finish leaves its row processing.
LEMMA AnswerInv ==
  ASSUME IInv, NEW c \in Calls, Answer(c)
  PROVE  IInv'
<1> USE IdempotencyAssumption DEF IInv, Answer, records, Open, Goto
<1>1. TypeOK'
  BY DEF TypeOK
<1>2. (LockInv /\ InsertInv)'
  BY DEF TypeOK, LockInv, InsertInv, OwnInv, HistoryInv, Live, Locking
<1>3. (OwnInv /\ HistoryInv /\ OneOpenCall)'
  BY DEF TypeOK, InsertInv, OwnInv, HistoryInv, OneOpenCall, Live
<1>4. (StoredInv /\ ReplayIsOriginal)'
  BY DEF TypeOK, InsertInv, OwnInv, HistoryInv, StoredInv, ReplayIsOriginal
<1> QED
  BY <1>1, <1>2, <1>3, <1>4

\* A call completes the row it owns and no other.
LEMMA FinishInv ==
  ASSUME IInv, NEW c \in Calls, Finish(c)
  PROVE  IInv'
<1> USE IdempotencyAssumption DEF IInv
<1>1. TypeOK'
  BY DEF TypeOK, Finish, Goto, Fault, NoFault
<1>2. /\ status[KeyOf[c]] = "processing" /\ print[KeyOf[c]] = Fingerprint[c]
      /\ \A d \in Calls : Open(d) /\ KeyOf[d] = KeyOf[c] => d = c
      /\ c \notin saved
  BY DEF Finish, OwnInv, OneOpenCall, Open, HistoryInv
<1>3. /\ \A k \in Keys : k # KeyOf[c] => status'[k] = status[k]
      /\ \/ saved' = saved \cup {c}
         \/ saved' = saved /\ status' = status
      /\ print' = print /\ expired' = expired /\ sent' = sent /\ replay' = replay
      /\ pc' = [pc EXCEPT ![c] = "done"]
  BY <1>2 DEF TypeOK, Finish, Goto, Fault, NoFault
<1>4. (LockInv /\ InsertInv)'
  <2>1. \A d \in Calls : pc'[d] \in {"lookup", "insert"} => d # c /\ pc'[d] = pc[d]
    BY <1>3 DEF TypeOK
  <2>2. LockInv'
    BY <2>1 DEF LockInv, Locking
  <2>3. \A d \in Calls : pc[d] = "insert" => KeyOf[d] # KeyOf[c]
    BY <1>2 DEF InsertInv, Live
  <2>4. InsertInv'
    BY <1>3, <2>1, <2>3 DEF InsertInv, Live
  <2> QED
    BY <2>2, <2>4
<1>5. \A d \in Calls : Open(d)' => Open(d) /\ (d = c => saved' = saved)
  BY <1>3 DEF TypeOK, Open
<1>6. (OwnInv /\ OneOpenCall)'
  <2>1. OneOpenCall'
    BY <1>5 DEF OneOpenCall
  <2>2. ASSUME NEW d \in Calls, Open(d)'
        PROVE  status'[KeyOf[d]] = "processing" /\ print'[KeyOf[d]] = Fingerprint[d]
    BY <1>2, <1>3, <1>5, <2>2 DEF OwnInv
  <2> QED
    BY <2>1, <2>2 DEF OwnInv
<1>7. HistoryInv'
  BY <1>3 DEF TypeOK, HistoryInv
<1>8. (StoredInv /\ ReplayIsOriginal)'
  BY <1>2 DEF TypeOK, Finish, StoredInv, ReplayIsOriginal
<1> QED
  BY <1>1, <1>4, <1>6, <1>7, <1>8

\* The passing of 24 hours does not free a processing row.
LEMMA ExpireInv ==
  ASSUME IInv, NEW k \in Keys, Expire(k)
  PROVE  IInv'
<1> USE IdempotencyAssumption DEF IInv, Expire, records, Open
<1>1. TypeOK'
  BY DEF TypeOK
<1>2. (LockInv /\ InsertInv)'
  BY DEF TypeOK, LockInv, InsertInv, OwnInv, HistoryInv, Live, Locking
<1>3. (OwnInv /\ HistoryInv /\ OneOpenCall)'
  BY DEF TypeOK, InsertInv, OwnInv, HistoryInv, OneOpenCall, Live
<1>4. (StoredInv /\ ReplayIsOriginal)'
  BY DEF TypeOK, InsertInv, OwnInv, HistoryInv, StoredInv, ReplayIsOriginal
<1> QED
  BY <1>1, <1>2, <1>3, <1>4

\* A crash leaves the rows of calls that were sent processing.
LEMMA CrashInv ==
  ASSUME IInv, Crash
  PROVE  IInv'
<1> USE IdempotencyAssumption DEF IInv, Crash, records, Open, Fault
<1>1. TypeOK'
  BY DEF TypeOK
<1>2. (LockInv /\ InsertInv)'
  BY DEF TypeOK, LockInv, InsertInv, OwnInv, HistoryInv, Live, Locking
<1>3. (OwnInv /\ HistoryInv /\ OneOpenCall)'
  BY DEF TypeOK, InsertInv, OwnInv, HistoryInv, OneOpenCall, Live
<1>4. (StoredInv /\ ReplayIsOriginal)'
  BY DEF TypeOK, InsertInv, OwnInv, HistoryInv, StoredInv, ReplayIsOriginal
<1> QED
  BY <1>1, <1>2, <1>3, <1>4

\* The invariant speaks of the variables alone.
LEMMA StutterInv == ASSUME IInv, UNCHANGED vars PROVE IInv'
  BY DEF IInv, vars, records, TypeOK, LockInv, InsertInv, OwnInv, HistoryInv, StoredInv, OneOpenCall, ReplayIsOriginal,
         Locking, Live, Open

\* Every step preserves the inductive invariant.
LEMMA NextInv == ASSUME IInv, [Next]_vars PROVE IInv'
<1>1. CASE \E c \in Calls : Call(c)
  BY <1>1, BeginClaimInv, LookupInv, InsertInvStep, ClaimFailsInv, RefuseInv, DispatchInv, AnswerInv, FinishInv DEF Call
<1>2. CASE \E k \in Keys : Expire(k)
  BY <1>2, ExpireInv
<1>3. CASE Crash
  BY <1>3, CrashInv
<1>4. CASE UNCHANGED vars
  BY <1>4, StutterInv
<1> QED
  BY <1>1, <1>2, <1>3, <1>4 DEF Next

\* The inductive invariant holds in every reachable state.
LEMMA Invariance == Spec => []IInv
  BY InitInv, NextInv, PTL DEF Spec

\* Rows and calls keep their types: a row has one of the three statuses that
\* claimGatewayRequest writes.
THEOREM TypeCorrect == Spec => []TypeOK
<1>1. IInv => TypeOK
  BY DEF IInv
<1> QED
  BY Invariance, <1>1, PTL

(* At most one call of a key can have an unknown outcome: what may have    *)
(* been paid for upstream is never sent again, across expiry and crashes.  *)
THEOREM NeverSentTwice == Spec => []OneOpenCall
<1>1. IInv => OneOpenCall
  BY DEF IInv
<1> QED
  BY Invariance, <1>1, PTL

\* What claimGatewayRequest replays is the stored response of the same request.
THEOREM ReplaysAreOriginal == Spec => []ReplayIsOriginal
<1>1. IInv => ReplayIsOriginal
  BY DEF IInv
<1> QED
  BY Invariance, <1>1, PTL

(* A processing row is only ever completed, and a completed row is         *)
(* replaced only after it expired.                                         *)
THEOREM ProcessingIsNeverStolen == Spec => NeverTakenOver
<1>1. ASSUME IInv, [Next]_vars PROVE [RowLifecycle]_vars
  <2> SUFFICES ASSUME Next PROVE RowLifecycle
    BY <1>1
  <2> USE <1>1 DEF IInv, TypeOK, RowLifecycle, records
  <2>1. CASE \E c \in Calls : Insert(c)
    BY <2>1, IdempotencyAssumption DEF Insert, InsertInv, Live
  <2>2. CASE \E c \in Calls : Finish(c)
    BY <2>2, IdempotencyAssumption DEF Finish
  <2>3. CASE \E c \in Calls : \/ BeginClaim(c) \/ Lookup(c) \/ ClaimFails(c)
                              \/ Refuse(c) \/ Dispatch(c) \/ Answer(c)
    BY <2>3 DEF BeginClaim, Lookup, ClaimFails, Refuse, Dispatch, Answer
  <2>4. CASE \E k \in Keys : Expire(k)
    BY <2>4 DEF Expire
  <2>5. CASE Crash
    BY <2>5 DEF Crash
  <2> QED
    BY <2>1, <2>2, <2>3, <2>4, <2>5 DEF Next, Call
<1> QED
  BY Invariance, <1>1, PTL DEF Spec, NeverTakenOver

(***************************************************************************)
(* Walks: functions on the numbers up to a bound, each value from the last *)
(***************************************************************************)
\* The function that starts with z and goes on by s.
Iterates(f, z, s, m) == f = [n \in 0..m |-> IF n = 0 THEN z ELSE s[f[n - 1]]]

\* A walk of any length exists.
LEMMA WalkExists ==
  ASSUME NEW S, NEW z \in S, NEW s \in [S -> S], NEW m \in Nat
  PROVE  \E f \in [0..m -> S] : Iterates(f, z, s, m)
<1> DEFINE B == {n \in Nat : ~\E f \in [0..n -> S] : Iterates(f, z, s, n)}
<1>1. SUFFICES ASSUME B # {} PROVE FALSE
  OBVIOUS
<1>2. PICK n \in B : \A k \in B : n <= k
  <2>1. B \subseteq Nat
    OBVIOUS
  <2> HIDE DEF B
  <2> QED
    BY <1>1, <2>1, LeastNumber
<1>3. n \in Nat /\ ~\E f \in [0..n -> S] : Iterates(f, z, s, n)
  OBVIOUS
<1>4. CASE n = 0
  <2> DEFINE f == [k \in 0..0 |-> z]
  <2>1. f \in [0..0 -> S] /\ Iterates(f, z, s, 0)
    <3>1. 0..0 = {0}
      OBVIOUS
    <3> QED
      BY <3>1 DEF Iterates
  <2> QED
    BY <1>3, <1>4, <2>1
<1>5. CASE n # 0
  <2>1. n - 1 \in Nat /\ n - 1 \notin B
    BY <1>2, <1>3, <1>5
  <2>2. PICK g \in [0..(n - 1) -> S] : Iterates(g, z, s, n - 1)
    BY <2>1
  <2> DEFINE f == [k \in 0..n |-> IF k = n THEN s[g[n - 1]] ELSE g[k]]
  <2>3. ASSUME NEW k \in 0..n PROVE f[k] \in S /\ f[k] = IF k = 0 THEN z ELSE s[f[k - 1]]
    <3>1. CASE k = n
      <4>1. n - 1 \in 0..(n - 1) /\ n - 1 \in 0..n /\ n - 1 # n
        BY <1>3, <1>5, <2>1
      <4>2. f[n - 1] = g[n - 1] /\ f[n] = s[g[n - 1]] /\ g[n - 1] \in S
        BY <4>1, <3>1
      <4> HIDE DEF f
      <4> QED
        BY <1>5, <3>1, <4>2
    <3>2. CASE k # n
      <4>1. k \in 0..(n - 1)
        BY <1>3, <3>2
      <4>2. f[k] = g[k] /\ g[k] = IF k = 0 THEN z ELSE s[g[k - 1]]
        BY <2>2, <3>2, <4>1 DEF Iterates
      <4>3. k # 0 => f[k - 1] = g[k - 1]
        BY <1>3, <4>1
      <4> HIDE DEF f
      <4> QED
        BY <4>1, <4>2, <4>3
    <3> QED
      BY <3>1, <3>2
  <2>4. f = [k \in 0..n |-> f[k]]
    OBVIOUS
  <2> HIDE DEF f
  <2>5. f = [k \in 0..n |-> IF k = 0 THEN z ELSE s[f[k - 1]]] /\ f \in [0..n -> S]
    BY <2>3, <2>4
  <2> QED
    BY <1>3, <2>5 DEF Iterates
<1> QED
  BY <1>4, <1>5

\* What holds at the start of a walk and from each place to the next holds all
\* along.  The property is given as the set of the places where it holds.
LEMMA WalkInduction ==
  ASSUME NEW m \in Nat, NEW P, 0 \in P, \A n \in 1..m : n - 1 \in P => n \in P
  PROVE  0..m \subseteq P
<1> DEFINE B == {n \in 0..m : n \notin P}
<1>1. SUFFICES ASSUME B # {} PROVE FALSE
  OBVIOUS
<1>2. PICK n \in B : \A k \in B : n <= k
  <2>1. B \subseteq Nat
    OBVIOUS
  <2> HIDE DEF B
  <2> QED
    BY <1>1, <2>1, LeastNumber
<1>3. n \in 1..m /\ n - 1 \in 0..m /\ n - 1 \notin B
  BY <1>2
<1> QED
  BY <1>3

(***************************************************************************)
(* GroupGraph.  A cycle is a set of live groups whose fallbacks stay in it *)
(* (Ends: there is none).  A transaction that has checked its edit keeps   *)
(* the graph sound as it would leave it, whatever is deleted meanwhile.    *)
(***************************************************************************)
GgWrite == [at : {"write"}, group : GgGroups, row : GgRow]
GgRequest == [at : {"route", "refused", "invalid", "unavailable", "routed"}, seen : SUBSET GgGroups,
              next : GgGroups \cup {NoGroup}, quiet : BOOLEAN, group : GgGroups \cup {NoGroup}]

GgTypeOK ==
    /\ ggGroup \in [GgGroups -> GgRow] /\ ggTx \in [GgAdmins -> {GgIdle} \cup GgWrite]
    /\ ggReq \in {GgIdle} \cup GgRequest

\* The fallbacks stay in C.
StaysIn(C, rows) == \A g \in C : rows[g].live /\ rows[g].fallback \in C
Ends(rows) == \A C \in SUBSET GgGroups : StaysIn(C, rows) => C = {}
\* A reserved group is no fallback.
Reserved(rows) ==
    \A g, h \in GgGroups : rows[g].live /\ rows[h].live /\ rows[h].fallback = g => ~rows[g].codeOnly
GraphSound(rows) == Ends(rows) /\ Reserved(rows)

\* A transaction writes under the lock, and what it writes is sound.
GgTxInv ==
    \A t \in GgAdmins : ggTx[t] # GgIdle =>
        /\ ggLock = t /\ ggTx[t].row.live
        /\ GraphSound([ggGroup EXCEPT ![ggTx[t].group] = ggTx[t].row])

\* A request that nothing disturbs stands at its own group, which is reserved.
AtHome(g) ==
    /\ ggReq.seen = {g} /\ ggReq.at # "invalid" /\ ggGroup[g].live /\ ggGroup[g].codeOnly
    /\ ggReq.at = "route" => ggReq.next = ggGroup[g].fallback
GgReqInv == ggReq # GgIdle /\ ggReq.quiet => \E g \in GgGroups : AtHome(g)

GroupInv == GgTypeOK /\ GraphSound(ggGroup) /\ GgTxInv /\ GgReqInv

\* What the walk of validateGroupFallback meets.
LEMMA FallbackWalkStep ==
  ASSUME NEW g \in GgGroups, NEW rows \in [GgGroups -> GgRow]
  PROVE  /\ FallbackWalk(g, rows)[0] = g
         /\ \A n \in 1..GgMaxChain :
              FallbackWalk(g, rows)[n] = IF FallbackWalk(g, rows)[n - 1] = NoGroup THEN NoGroup
                                         ELSE rows[FallbackWalk(g, rows)[n - 1]].fallback
<1> DEFINE S == GgGroups \cup {NoGroup}
           s == [x \in S |-> IF x = NoGroup THEN NoGroup ELSE rows[x].fallback]
           w == FallbackWalk(g, rows)
<1>1. s \in [S -> S]
  BY GgAssumption DEF GgRow
<1>2. GgMaxChain \in Nat /\ g \in S
  BY GgAssumption
<1> HIDE DEF s
<1>3. PICK f \in [0..GgMaxChain -> S] : Iterates(f, g, s, GgMaxChain)
  BY <1>1, <1>2, WalkExists
<1>4. f = [n \in 0..GgMaxChain |-> IF n = 0 THEN g ELSE IF f[n - 1] = NoGroup THEN NoGroup ELSE rows[f[n - 1]].fallback]
  <2>1. \A n \in 0..GgMaxChain : n # 0 => s[f[n - 1]] = IF f[n - 1] = NoGroup THEN NoGroup ELSE rows[f[n - 1]].fallback
    BY <1>2 DEF s
  <2> QED
    BY <1>3, <2>1 DEF Iterates
<1>5. w = [n \in 0..GgMaxChain |-> IF n = 0 THEN g ELSE IF w[n - 1] = NoGroup THEN NoGroup ELSE rows[w[n - 1]].fallback]
  BY <1>4 DEF FallbackWalk
<1> HIDE DEF w
<1>6. w[0] = g /\ \A n \in 1..GgMaxChain : w[n] = IF w[n - 1] = NoGroup THEN NoGroup ELSE rows[w[n - 1]].fallback
  BY <1>2, <1>5
<1> QED
  BY <1>6 DEF w

\* A walk that starts in a set that fallbacks stay in does not end.
LEMMA ValidLeaves ==
  ASSUME NEW rows \in [GgGroups -> GgRow], NEW g \in GgGroups, ValidTargets(g, rows),
         NEW C \in SUBSET GgGroups, StaysIn(C, rows)
  PROVE  g \notin C
<1> SUFFICES ASSUME g \in C PROVE FALSE
  OBVIOUS
<1> DEFINE w == FallbackWalk(g, rows)
           P == {n \in 0..GgMaxChain : w[n] \in C}
<1>1. GgMaxChain \in Nat /\ GgMaxChain > 1 /\ NoGroup \notin C
  BY GgAssumption
<1>2. w[0] = g /\ \A n \in 1..GgMaxChain : w[n] = IF w[n - 1] = NoGroup THEN NoGroup ELSE rows[w[n - 1]].fallback
  BY FallbackWalkStep
<1>3. \A n \in 1..GgMaxChain : w[n] # NoGroup => n < GgMaxChain
  BY DEF ValidTargets
<1> HIDE DEF w
<1>4. 0 \in P
  BY <1>1, <1>2
<1>5. \A n \in 1..GgMaxChain : n - 1 \in P => n \in P
  BY <1>1, <1>2 DEF StaysIn
<1> HIDE DEF P
<1>6. 0..GgMaxChain \subseteq P
  BY <1>1, <1>4, <1>5, WalkInduction
<1>7. GgMaxChain \in P
  BY <1>1, <1>6
<1>8. w[GgMaxChain] \in C
  BY <1>7 DEF P
<1> QED
  BY <1>1, <1>3, <1>8

\* An edit that passes the check leaves the graph sound.
LEMMA EditSound ==
  ASSUME NEW old \in [GgGroups -> GgRow], GraphSound(old), NEW g \in GgGroups, NEW row \in GgRow, row.live,
         NEW checkTarget \in BOOLEAN, ValidGroupFallback(g, [old EXCEPT ![g] = row], checkTarget),
         ~checkTarget => row.fallback = NoGroup \/ (old[g].live /\ row.fallback = old[g].fallback)
  PROVE  GraphSound([old EXCEPT ![g] = row])
<1> DEFINE rows == [old EXCEPT ![g] = row]
<1>1. rows \in [GgGroups -> GgRow] /\ rows[g] = row /\ \A h \in GgGroups : h # g => rows[h] = old[h]
  OBVIOUS
<1>2. ValidGroupFallback(g, rows, checkTarget)
  OBVIOUS
<1> HIDE DEF rows
<1>3. ASSUME NEW C \in SUBSET GgGroups, StaysIn(C, rows) PROVE C = {}
  <2>1. checkTarget => g \notin C
    BY <1>1, <1>2, <1>3, ValidLeaves DEF ValidGroupFallback
  <2>2. NoGroup \notin C
    BY GgAssumption
  <2>3. StaysIn(C, old)
    BY <1>1, <1>3, <2>1, <2>2 DEF StaysIn
  <2> QED
    BY <2>3 DEF GraphSound, Ends
<1>4. ASSUME NEW x \in GgGroups, NEW y \in GgGroups, rows[x].live, rows[y].live, rows[y].fallback = x, rows[x].codeOnly
      PROVE  FALSE
  <2>1. CASE x = g
    BY <1>2, <1>4, <2>1 DEF ValidGroupFallback, Referenced
  <2>2. CASE x # g /\ y # g
    BY <1>1, <1>4, <2>2 DEF GraphSound, Reserved
  <2>3. CASE x # g /\ y = g
    <3>1. CASE checkTarget
      <4>1. 1 \in 1..GgMaxChain /\ g # NoGroup /\ x # NoGroup
        BY GgAssumption
      <4>2. FallbackWalk(g, rows)[0] = g /\ FallbackWalk(g, rows)[1] = rows[g].fallback
        <5>1. 1 - 1 = 0
          OBVIOUS
        <5> QED
          BY <1>1, <4>1, <5>1, FallbackWalkStep
      <4> QED
        BY <1>2, <1>4, <2>3, <3>1, <4>1, <4>2 DEF ValidGroupFallback, ValidTargets
    <3>2. CASE ~checkTarget
      <4>1. x # NoGroup
        BY GgAssumption
      <4> QED
        BY <1>1, <1>4, <2>3, <3>2, <4>1 DEF GraphSound, Reserved
    <3> QED
      BY <3>1, <3>2
  <2> QED
    BY <2>1, <2>2, <2>3
<1>5. Ends(rows) /\ Reserved(rows)
  BY <1>3, <1>4 DEF Ends, Reserved
<1> QED
  BY <1>5 DEF rows, GraphSound

\* Groups that go away leave a sound graph sound.
LEMMA FewerSound ==
  ASSUME NEW old, NEW new, GraphSound(old),
         \A g \in GgGroups : new[g].live => old[g].live /\ new[g].fallback = old[g].fallback /\ new[g].codeOnly = old[g].codeOnly
  PROVE  GraphSound(new)
<1>1. \A C \in SUBSET GgGroups : StaysIn(C, new) => StaysIn(C, old)
  BY DEF StaysIn
<1> QED
  BY <1>1 DEF GraphSound, Ends, Reserved

\* At first there are no groups.
LEMMA GroupInit == GgInit => GroupInv
<1> SUFFICES ASSUME GgInit PROVE GroupInv
  OBVIOUS
<1>1. GgTypeOK
  BY DEF GgInit, GgTypeOK, GgRow, GgIdle
<1>2. GraphSound(ggGroup)
  BY DEF GgInit, GraphSound, Ends, StaysIn, Reserved
<1> QED
  BY <1>1, <1>2 DEF GgInit, GroupInv, GgTxInv, GgReqInv

\* A request that is disturbed keeps its promises, for it makes none.
LEMMA Disturbed ==
  ASSUME GgTypeOK, Disturb
  PROVE  (ggReq \in {GgIdle} \cup GgRequest)' /\ GgReqInv'
<1>1. CASE ggReq = GgIdle
  BY <1>1 DEF Disturb, GgReqInv
<1>2. CASE ggReq # GgIdle
  <2>1. ggReq \in GgRequest /\ ggReq' = [ggReq EXCEPT !.quiet = FALSE]
    BY <1>2 DEF GgTypeOK, Disturb
  <2>2. ggReq' \in GgRequest /\ ~ggReq'.quiet
    BY <2>1 DEF GgRequest
  <2> QED
    BY <2>2 DEF GgReqInv
<1> QED
  BY <1>1, <1>2

\* The check of an edit under the lock.
LEMMA GroupTxKeeps ==
  ASSUME GroupInv, NEW t \in GgAdmins, NEW g \in GgGroups, NEW row \in GgRow, row.live,
         ggGroup[g].live \/ ~ggGroup[g].born, GroupBegin(t, g, row)
  PROVE  GroupInv'
<1> USE DEF GroupInv
<1> DEFINE tx == [at |-> "write", group |-> g, row |-> row]
           checkTarget == ~ggGroup[g].born \/ (row.fallback # ggGroup[g].fallback /\ row.fallback # NoGroup)
<1>1. tx \in GgWrite /\ tx.group = g /\ tx.row = row /\ tx # GgIdle
  BY DEF GgWrite, GgIdle
<1>2. ggLock = NoGroup /\ ggLock' = t /\ ggTx' = [ggTx EXCEPT ![t] = tx] /\ UNCHANGED <<ggGroup, ggReq>>
  BY DEF GroupBegin, GroupTx
<1>3. ValidGroupFallback(g, [ggGroup EXCEPT ![g] = row], checkTarget)
  BY DEF GroupBegin, GroupTx
<1>4. checkTarget \in BOOLEAN /\ (~checkTarget => row.fallback = NoGroup \/ (ggGroup[g].live /\ row.fallback = ggGroup[g].fallback))
  BY DEF GgTypeOK, GgRow
<1> HIDE DEF tx, checkTarget
<1>5. GraphSound([ggGroup EXCEPT ![g] = row])
  BY <1>3, <1>4, EditSound DEF GgTypeOK
<1>6. \A u \in GgAdmins : ggTx[u] = GgIdle
  BY <1>2, GgAssumption DEF GgTxInv
<1>7. GgTxInv'
  BY <1>1, <1>2, <1>5, <1>6 DEF GgTxInv, GgTypeOK
<1>8. GgTypeOK'
  BY <1>1, <1>2 DEF GgTypeOK
<1> QED
  BY <1>2, <1>7, <1>8 DEF GgReqInv, AtHome

\* Every step of the groups keeps GroupInv.
LEMMA GroupStep == GroupInv /\ [GroupNext]_ggVars => GroupInv'
<1> SUFFICES ASSUME GroupInv, [GroupNext]_ggVars PROVE GroupInv'
  OBVIOUS
<1> USE DEF GroupInv
<1>1. ASSUME NEW t \in GgAdmins, NEW g \in GgGroups, CreateGroup(t, g) PROVE GroupInv'
  <2>1. PICK row \in NewGroup : GroupBegin(t, g, row)
    BY <1>1 DEF CreateGroup
  <2> QED
    BY <1>1, <2>1, GroupTxKeeps DEF NewGroup, CreateGroup
<1>2. ASSUME NEW t \in GgAdmins, NEW g \in GgGroups, UpdateGroup(t, g) PROVE GroupInv'
  <2>1. PICK row \in Patched(g) : GroupBegin(t, g, row)
    BY <1>2 DEF UpdateGroup
  <2>2. ggGroup[g].live /\ ggGroup[g] \in GgRow
    BY <1>2 DEF UpdateGroup, GgTypeOK
  <2>3. row \in GgRow /\ row.live
    BY <2>1, <2>2 DEF Patched, GgRow
  <2> QED
    BY <2>1, <2>2, <2>3, GroupTxKeeps
<1>3. ASSUME NEW t \in GgAdmins, GroupCommit(t) PROVE GroupInv'
  <2>1. ggTx[t] \in GgWrite /\ ggTx[t] # GgIdle /\ ggTx[t].group \in GgGroups /\ ggTx[t].row \in GgRow
    BY <1>3 DEF GroupCommit, GgTypeOK, GgWrite
  <2>2. /\ ggGroup' = [ggGroup EXCEPT ![ggTx[t].group] = ggTx[t].row]
        /\ ggTx' = [ggTx EXCEPT ![t] = GgIdle] /\ Disturb
    BY <1>3 DEF GroupCommit
  <2>3. (ggReq \in {GgIdle} \cup GgRequest)' /\ GgReqInv'
    BY <2>2, Disturbed
  <2>4. GraphSound(ggGroup')
    BY <2>1, <2>2 DEF GgTxInv
  <2>5. \A u \in GgAdmins : ggTx'[u] = GgIdle
    BY <2>1, <2>2 DEF GgTxInv, GgTypeOK
  <2>6. GgTypeOK'
    BY <2>1, <2>2, <2>3 DEF GgTypeOK
  <2>7. GraphSound(ggGroup)'
    BY <2>4 DEF GraphSound, Ends, StaysIn, Reserved
  <2> QED
    BY <2>3, <2>5, <2>6, <2>7 DEF GgTxInv
<1>4. ASSUME NEW g \in GgGroups, DeleteGroup(g) PROVE GroupInv'
  <2> DEFINE rows == [ggGroup EXCEPT ![g].live = FALSE, ![g].active = FALSE]
  <2>1. ggGroup' = rows /\ Disturb /\ UNCHANGED <<ggLock, ggTx, ggEdits>>
        /\ \A t \in GgAdmins : ggTx[t] # GgIdle => ggTx[t].group # g
    BY <1>4 DEF DeleteGroup
  <2>2. rows \in [GgGroups -> GgRow] /\ ~rows[g].live /\ \A h \in GgGroups : h # g => rows[h] = ggGroup[h]
    BY DEF GgTypeOK, GgRow
  <2> HIDE DEF rows
  <2>3. (ggReq \in {GgIdle} \cup GgRequest)' /\ GgReqInv'
    BY <2>1, Disturbed
  <2>4. GraphSound(rows)
    BY <2>2, FewerSound
  <2>5. ASSUME NEW t \in GgAdmins, ggTx[t] # GgIdle
        PROVE  GraphSound([rows EXCEPT ![ggTx[t].group] = ggTx[t].row])
    <3> DEFINE h == ggTx[t].group
               old == [ggGroup EXCEPT ![h] = ggTx[t].row]
               new == [rows EXCEPT ![h] = ggTx[t].row]
    <3>1. h \in GgGroups /\ h # g
      BY <2>1, <2>5 DEF GgTypeOK, GgWrite
    <3>2. GraphSound(old)
      BY <2>5 DEF GgTxInv
    <3>3. ASSUME NEW x \in GgGroups, new[x].live
          PROVE  old[x].live /\ new[x].fallback = old[x].fallback /\ new[x].codeOnly = old[x].codeOnly
      BY <2>2, <3>1, <3>3 DEF GgTypeOK
    <3> HIDE DEF old, new
    <3>4. GraphSound(new)
      BY <3>2, <3>3, FewerSound
    <3> QED
      BY <3>4 DEF new
  <2>6. GgTypeOK'
    BY <2>1, <2>2, <2>3 DEF GgTypeOK
  <2>7. GgTxInv'
    BY <2>1, <2>5 DEF GgTxInv
  <2>8. GraphSound(ggGroup)'
    BY <2>1, <2>4 DEF GraphSound, Ends, StaysIn, Reserved
  <2> QED
    BY <2>3, <2>6, <2>7, <2>8
<1>5. ASSUME NEW g \in GgGroups, Authenticated(g) PROVE GroupInv'
  <2> DEFINE q == [at |-> "route", seen |-> {g}, next |-> ggGroup[g].fallback, quiet |-> TRUE, group |-> NoGroup]
  <2>1. ggReq' = q /\ ggGroup[g].live /\ ggGroup[g].codeOnly /\ UNCHANGED <<ggGroup, ggLock, ggTx, ggEdits>>
    BY <1>5 DEF Authenticated
  <2>2. q \in GgRequest /\ q.seen = {g} /\ q.at = "route" /\ q.next = ggGroup[g].fallback
    BY DEF GgRequest, GgTypeOK, GgRow
  <2> HIDE DEF q
  <2>3. GgReqInv'
    BY <2>1, <2>2 DEF GgReqInv, AtHome
  <2> QED
    BY <2>1, <2>2, <2>3 DEF GgTypeOK, GgTxInv, GraphSound, Ends, StaysIn, Reserved
<1>6. ASSUME FollowFallback PROVE GroupInv'
  <2>1. ggReq.at = "route" /\ UNCHANGED <<ggGroup, ggLock, ggTx, ggEdits>>
    BY <1>6 DEF FollowFallback
  <2>2. ggReq \in GgRequest
    BY <2>1 DEF GgTypeOK, GgIdle
  <2>3. ggReq' \in GgRequest /\ ggReq'.quiet = ggReq.quiet
    BY <1>6, <2>2 DEF FollowFallback, GgRequest, GgTypeOK, GgRow
  <2>4. ASSUME NEW g \in GgGroups, AtHome(g) PROVE AtHome(g)'
    <3> DEFINE f == ggReq.next
    <3>1. ggReq.seen = {g} /\ f = ggGroup[g].fallback /\ ggGroup[g].live /\ ggGroup[g].codeOnly
      BY <2>1, <2>4 DEF AtHome
    <3>2. Cardinality(ggReq.seen) = 1 /\ ~(Cardinality(ggReq.seen) >= GgMaxChain)
      <4>1. Cardinality({g}) = 1
        BY FS_Singleton
      <4> QED
        BY <3>1, <4>1, GgAssumption
    <3>3. f \in GgGroups \cup {NoGroup}
      BY <2>2 DEF GgRequest
    <3>4. f # NoGroup => f \notin ggReq.seen
      BY <3>1, <3>3 DEF GraphSound, Reserved
    <3>5. f # NoGroup => ~(ggGroup[f].live /\ ggGroup[f].codeOnly)
      BY <3>1, <3>3 DEF GraphSound, Reserved
    <3>6. ggReq'.seen = ggReq.seen /\ ggReq'.at \in {"refused", "unavailable", "routed"}
      BY <1>6, <2>2, <3>2, <3>3, <3>4, <3>5 DEF FollowFallback, GgRequest
    <3> QED
      BY <2>1, <3>1, <3>6 DEF AtHome
  <2>5. ggReq # GgIdle
    BY <2>1 DEF GgIdle
  <2>6. GgReqInv'
    BY <2>3, <2>4, <2>5 DEF GgReqInv
  <2> QED
    BY <2>1, <2>3, <2>6 DEF GgTypeOK, GgTxInv, GraphSound, Ends, StaysIn, Reserved
<1>7. CASE Replied
  BY <1>7 DEF Replied, GgTypeOK, GgTxInv, GgReqInv, GraphSound, Ends, StaysIn, Reserved
<1>8. CASE UNCHANGED ggVars
  BY <1>8 DEF ggVars, GgTypeOK, GgTxInv, GgReqInv, AtHome, GraphSound, Ends, StaysIn, Reserved
<1> QED
  BY <1>1, <1>2, <1>3, <1>4, <1>5, <1>6, <1>7, <1>8 DEF GroupNext

\* Where the fallbacks of a group lead.
LEMMA LiveWalkStep ==
  ASSUME GgTypeOK, NEW g \in GgGroups
  PROVE  /\ LiveWalk(g)[0] = ggGroup[g].fallback
         /\ \A n \in 1..Cardinality(GgGroups) :
              LiveWalk(g)[n] = IF LiveWalk(g)[n - 1] = NoGroup \/ ~ggGroup[LiveWalk(g)[n - 1]].live THEN NoGroup
                               ELSE ggGroup[LiveWalk(g)[n - 1]].fallback
         /\ \A n \in 0..Cardinality(GgGroups) : LiveWalk(g)[n] \in GgGroups \cup {NoGroup}
<1> DEFINE S == GgGroups \cup {NoGroup}
           s == [x \in S |-> IF x = NoGroup \/ ~ggGroup[x].live THEN NoGroup ELSE ggGroup[x].fallback]
           z == ggGroup[g].fallback
           m == Cardinality(GgGroups)
           w == LiveWalk(g)
<1>1. s \in [S -> S] /\ z \in S
  BY GgAssumption DEF GgRow, GgTypeOK
<1>2. m \in Nat
  BY GgAssumption, FS_CardinalityType
<1> HIDE DEF s, m
<1>3. PICK f \in [0..m -> S] : Iterates(f, z, s, m)
  BY <1>1, <1>2, WalkExists
<1>4. f = [n \in 0..m |-> IF n = 0 THEN z ELSE IF f[n - 1] = NoGroup \/ ~ggGroup[f[n - 1]].live THEN NoGroup
                          ELSE ggGroup[f[n - 1]].fallback]
  <2>1. \A n \in 0..m : n # 0 => s[f[n - 1]] = IF f[n - 1] = NoGroup \/ ~ggGroup[f[n - 1]].live THEN NoGroup
                                               ELSE ggGroup[f[n - 1]].fallback
    BY <1>2 DEF s
  <2> QED
    BY <1>3, <2>1 DEF Iterates
<1>5. w = [n \in 0..m |-> IF n = 0 THEN z ELSE IF w[n - 1] = NoGroup \/ ~ggGroup[w[n - 1]].live THEN NoGroup
                          ELSE ggGroup[w[n - 1]].fallback]
  BY <1>4 DEF LiveWalk, m
<1> HIDE DEF w
<1>6. w[0] = z
  BY <1>2, <1>5, SMTT(30)
<1>7. \A n \in 1..m : w[n] = IF w[n - 1] = NoGroup \/ ~ggGroup[w[n - 1]].live THEN NoGroup ELSE ggGroup[w[n - 1]].fallback
  BY <1>2, <1>5
<1> DEFINE P == {n \in 0..m : w[n] \in S}
<1>8. 0 \in P
  BY <1>1, <1>2, <1>6
<1>9. \A n \in 1..m : n - 1 \in P => n \in P
  BY <1>2, <1>7 DEF GgTypeOK, GgRow
<1> HIDE DEF P
<1>10. 0..m \subseteq P
  BY <1>2, <1>8, <1>9, WalkInduction
<1>11. \A n \in 0..m : w[n] \in S
  BY <1>10 DEF P
<1> QED
  BY <1>6, <1>7, <1>11 DEF w, m

\* A walk that came back would stay in the set of what it met.
LEMMA EndsMeansNoCycle == GroupInv => NoGroupCycle
<1> SUFFICES ASSUME GroupInv, NEW g \in GgGroups, ggGroup[g].live, NEW n \in 0..Cardinality(GgGroups), LiveWalk(g)[n] = g
             PROVE  FALSE
  BY DEF NoGroupCycle
<1> DEFINE m == Cardinality(GgGroups)
           w == LiveWalk(g)
           C == {w[i] : i \in 0..n}
           \* Nothing is missing before the place n.
           P == {i \in 0..n : \A j \in 0..n : j = n - i => w[j] # NoGroup /\ ggGroup[w[j]].live}
<1>1. m \in Nat /\ g # NoGroup
  BY GgAssumption, FS_CardinalityType
<1>2. /\ w[0] = ggGroup[g].fallback
      /\ \A i \in 1..m : w[i] = IF w[i - 1] = NoGroup \/ ~ggGroup[w[i - 1]].live THEN NoGroup ELSE ggGroup[w[i - 1]].fallback
      /\ \A i \in 0..m : w[i] \in GgGroups \cup {NoGroup}
  BY LiveWalkStep DEF GroupInv
<1>3. w[n] = g /\ n \in 0..m
  OBVIOUS
<1> HIDE DEF w, m
<1>4. n \in Nat /\ 0..n \subseteq 0..m /\ 1..n \subseteq 1..m
  BY <1>1, <1>3
<1>5. 0 \in P
  BY <1>1, <1>3, <1>4
<1>6. ASSUME NEW i \in 1..n, i - 1 \in P PROVE i \in P
  <2> DEFINE j == n - i
  <2>1. j \in 0..n /\ j + 1 \in 1..m /\ j + 1 = n - (i - 1) /\ (j + 1) - 1 = j /\ i \in 0..n /\ j + 1 \in 0..n
    BY <1>4
  <2>2. w[j + 1] # NoGroup
    BY <1>6, <2>1
  <2>3. w[j] # NoGroup /\ ggGroup[w[j]].live
    BY <1>2, <2>1, <2>2
  <2>4. \A k \in 0..n : k = n - i => k = j
    OBVIOUS
  <2> QED
    BY <2>1, <2>3, <2>4
<1> HIDE DEF P
<1>7. 0..n \subseteq P
  BY <1>4, <1>5, <1>6, WalkInduction
<1>8. ASSUME NEW i \in 0..n PROVE w[i] \in GgGroups /\ ggGroup[w[i]].live
  <2>1. n - i \in 0..n /\ n - (n - i) = i
    BY <1>4
  <2>2. n - i \in P
    BY <1>7, <2>1
  <2>3. w[i] # NoGroup /\ ggGroup[w[i]].live
    BY <2>1, <2>2 DEF P
  <2> QED
    BY <1>2, <1>4, <2>3
<1>9. ASSUME NEW i \in 0..n PROVE ggGroup[w[i]].fallback \in C
  <2>1. CASE i = n
    <3>1. 0 \in 0..n
      BY <1>4
    <3> QED
      BY <1>2, <1>3, <2>1, <3>1
  <2>2. CASE i # n
    <3>1. i + 1 \in 1..m /\ i + 1 \in 0..n /\ (i + 1) - 1 = i
      BY <1>4, <2>2
    <3>2. w[i + 1] = ggGroup[w[i]].fallback
      BY <1>2, <1>8, <3>1, GgAssumption
    <3> QED
      BY <3>1, <3>2
  <2> QED
    BY <2>1, <2>2
<1>10. C \in SUBSET GgGroups /\ g \in C
  BY <1>3, <1>4, <1>8
<1>11. StaysIn(C, ggGroup)
  BY <1>8, <1>9 DEF StaysIn
<1> HIDE DEF C
<1> QED
  BY <1>10, <1>11 DEF GroupInv, GraphSound, Ends

\* The fallbacks of groups never form a cycle, and a request that no edit
\* disturbs is routed in one hop, for any groups, administrators and edits
\* (validateGroupFallback, resolveClientGroup).
THEOREM GroupsRouteInOneHop == GroupSpec => [](NoGroupCycle /\ RoutedInOneHop)
<1>1. GroupInv => RoutedInOneHop
  <2> SUFFICES ASSUME GroupInv, ggReq # GgIdle, ggReq.quiet PROVE ggReq.at # "invalid" /\ Cardinality(ggReq.seen) = 1
    BY DEF RoutedInOneHop
  <2>1. PICK g \in GgGroups : AtHome(g)
    BY DEF GroupInv, GgReqInv
  <2>2. Cardinality({g}) = 1
    BY FS_Singleton
  <2> QED
    BY <2>1, <2>2 DEF AtHome
<1> QED
  BY <1>1, GroupInit, GroupStep, EndsMeansNoCycle, PTL DEF GroupSpec

(***************************************************************************)
(* Folds: an operator applied to the members of a finite set one by one,   *)
(* as the library defines it.  c chooses the next member, o is the         *)
(* operator, b the base and V holds the values.                            *)
(***************************************************************************)
FoldBody(o, c, b, g, s) == IF s = {} THEN b ELSE o[<<c[s], g[s \ {c[s]}]>>]
FoldSolves(o, c, b, S, g) == g = [s \in SUBSET S |-> FoldBody(o, c, b, g, s)]
FoldOver(o, c, b, S) == (CHOOSE g : FoldSolves(o, c, b, S, g))[S]
FoldStep(o, c, b, S) == IF S = {} THEN b ELSE o[<<c[S], FoldOver(o, c, b, S \ {c[S]})>>]
Folding(o, c, b, S, V) ==
    /\ IsFiniteSet(S) /\ b \in V /\ o \in [S \X V -> V]
    /\ \A s \in SUBSET S : s # {} => c[s] \in s

\* Two functions that both satisfy the recursion agree.
LEMMA FoldUnique ==
  ASSUME NEW o, NEW c, NEW b, NEW S, NEW V, Folding(o, c, b, S, V), NEW T \in SUBSET S,
         NEW g, NEW h, FoldSolves(o, c, b, T, g), FoldSolves(o, c, b, T, h)
  PROVE  g = h
<1> DEFINE B == {s \in SUBSET T : g[s] # h[s]}
<1>0. /\ g = [s \in SUBSET T |-> FoldBody(o, c, b, g, s)] /\ h = [s \in SUBSET T |-> FoldBody(o, c, b, h, s)]
  BY DEF FoldSolves
<1>1. SUFFICES ASSUME B # {} PROVE FALSE
  BY <1>0, Zenon
<1>2. PICK s \in B : \A u \in B : u \subseteq s => u = s
  <2>1. B \subseteq SUBSET S
    OBVIOUS
  <2>2. IsFiniteSet(S)
    BY DEF Folding
  <2> HIDE DEF B
  <2> QED
    BY <1>1, <2>1, <2>2, LeastSubset
<1>3. CASE s = {}
  BY <1>0, <1>2, <1>3 DEF FoldBody
<1>4. CASE s # {}
  <2> DEFINE u == s \ {c[s]}
  <2>1. c[s] \in s
    BY <1>4 DEF Folding
  <2>2. u \in SUBSET T /\ u # s /\ u \subseteq s
    BY <2>1
  <2>3. g[u] = h[u]
    BY <1>2, <2>2
  <2>4. g[s] = o[<<c[s], g[u]>>] /\ h[s] = o[<<c[s], h[u]>>]
    BY <1>0, <1>4, s \in SUBSET T DEF FoldBody
  <2> QED
    BY <1>2, <2>3, <2>4
<1> QED
  BY <1>3, <1>4

\* A fold is well defined: one function satisfies the recursion, and its values
\* are those of the operator.
LEMMA FoldExists ==
  ASSUME NEW o, NEW c, NEW b, NEW S, NEW V, Folding(o, c, b, S, V)
  PROVE  \E g \in [SUBSET S -> V] : FoldSolves(o, c, b, S, g)
<1> DEFINE Sol(T) == FoldOver(o, c, b, T)
           Step(T) == FoldStep(o, c, b, T)
           B == {T \in SUBSET S : ~(Sol(T) = Step(T) /\ Step(T) \in V)}
<1>1. ASSUME NEW T \in SUBSET S, \A u \in SUBSET T : u # T => Sol(u) = Step(u) /\ Step(u) \in V,
             NEW s \in SUBSET T, NEW g, g = [u \in SUBSET T |-> Step(u)]
      PROVE  Step(s) = FoldBody(o, c, b, g, s) /\ Step(s) \in V
  <2>1. CASE s = {}
    BY <2>1 DEF FoldStep, FoldBody, Folding
  <2>2. CASE s # {}
    <3> DEFINE u == s \ {c[s]}
    <3>1. c[s] \in s
      BY <2>2 DEF Folding
    <3>2. u \in SUBSET T /\ u # T
      BY <3>1
    <3>3. Sol(u) = Step(u) /\ Step(u) \in V
      BY <1>1, <3>2
    <3>4. g[u] = Step(u)
      BY <1>1, <3>2
    <3>5. Step(s) = o[<<c[s], Sol(u)>>] /\ FoldBody(o, c, b, g, s) = o[<<c[s], g[u]>>]
      BY <2>2 DEF FoldStep, FoldBody
    <3>6. c[s] \in S
      BY <3>1
    <3>7. o[<<c[s], Sol(u)>>] \in V
      <4> HIDE DEF Sol, Step, u
      <4> QED
        BY <3>3, <3>6 DEF Folding
    <3> QED
      BY <3>3, <3>4, <3>5, <3>7
  <2> QED
    BY <2>1, <2>2
<1>2. B = {}
  <2>1. SUFFICES ASSUME B # {} PROVE FALSE
    OBVIOUS
  <2>2. PICK T \in B : \A U \in B : U \subseteq T => U = T
    <3>1. B \subseteq SUBSET S
      OBVIOUS
    <3>2. IsFiniteSet(S)
      BY DEF Folding
    <3> HIDE DEF B
    <3> QED
      BY <2>1, <3>1, <3>2, LeastSubset
  <2> DEFINE g == [s \in SUBSET T |-> Step(s)]
             h == CHOOSE f : FoldSolves(o, c, b, T, f)
  <2>3. T \in SUBSET S /\ \A u \in SUBSET T : u # T => Sol(u) = Step(u) /\ Step(u) \in V
    BY <2>2
  <2>4. \A s \in SUBSET T : Step(s) = FoldBody(o, c, b, g, s) /\ Step(s) \in V
    <3> HIDE DEF Sol, Step
    <3> QED
      BY <1>1, <2>3
  <2>5. FoldSolves(o, c, b, T, g)
    BY <2>4 DEF FoldSolves
  <2>6. g[T] = Step(T) /\ Step(T) \in V
    BY <2>4
  <2> HIDE DEF g
  <2>7. FoldSolves(o, c, b, T, h)
    BY <2>5
  <2>8. Sol(T) = h[T]
    BY DEF FoldOver
  <2> HIDE DEF h
  <2>9. g = h
    BY <2>3, <2>5, <2>7, FoldUnique
  <2> QED
    BY <2>2, <2>6, <2>8, <2>9
<1>3. \A T \in SUBSET S : Sol(T) = Step(T) /\ Step(T) \in V
  BY <1>2
<1> DEFINE g == [s \in SUBSET S |-> Step(s)]
<1>4. \A s \in SUBSET S : Step(s) = FoldBody(o, c, b, g, s) /\ Step(s) \in V
  <2> HIDE DEF Sol, Step
  <2>1. S \in SUBSET S
    OBVIOUS
  <2> QED
    BY <1>1, <1>3, <2>1
<1>5. FoldSolves(o, c, b, S, g) /\ g \in [SUBSET S -> V]
  BY <1>4 DEF FoldSolves
<1> HIDE DEF g
<1> QED
  BY <1>5

(***************************************************************************)
(* Composite.  The routes of a group are finitely many, and one of each id *)
(* is kept; so the comparison of pairs has one best among those that fit.  *)
(***************************************************************************)
CoTypeOK == coRoutes \subseteq CoRoute /\ IsFiniteSet(coRoutes) /\ coAlias \in [CoAccounts -> SUBSET CoModels]
OneOfEachId == \A r, s \in coRoutes : r.id = s.id => r = s
CoRequest == coReq.at \in {"routed", "checked", "sent"} => coReq.held
CompositeInv == CoTypeOK /\ OneOfEachId /\ CoRequest

\* The comparison is a strict order on the routes of a group.
LEMMA BetterOrders ==
  ASSUME CompositeInv, NEW e
  PROVE  /\ \A r, s \in coRoutes : r # s => BetterCompositeRoute(r, s, e) \/ BetterCompositeRoute(s, r, e)
         /\ \A r, s, q \in coRoutes :
              BetterCompositeRoute(r, s, e) /\ BetterCompositeRoute(s, q, e) => BetterCompositeRoute(r, q, e)
         /\ \A r \in coRoutes : ~BetterCompositeRoute(r, r, e)
<1>1. \A r \in coRoutes : r.match \in {"exact", "prefix"} /\ Len(r.model) \in Nat /\ r.priority \in Int /\ r.id \in Nat
  BY CoAssumption DEF CompositeInv, CoTypeOK, CoRoute
<1>2. \A r, s \in coRoutes : r.id = s.id => r = s
  BY DEF CompositeInv, OneOfEachId
<1>3. \A r, s \in coRoutes : r # s => BetterCompositeRoute(r, s, e) \/ BetterCompositeRoute(s, r, e)
  BY <1>1, <1>2 DEF BetterCompositeRoute
<1>4. ASSUME NEW r \in coRoutes, NEW s \in coRoutes, NEW q \in coRoutes,
             BetterCompositeRoute(r, s, e), BetterCompositeRoute(s, q, e)
      PROVE  BetterCompositeRoute(r, q, e)
  BY <1>1, <1>4 DEF BetterCompositeRoute
<1>5. \A r \in coRoutes : ~BetterCompositeRoute(r, r, e)
  BY <1>1 DEF BetterCompositeRoute
<1> QED
  BY <1>3, <1>4, <1>5

\* Some routes have a last one in the order of the query.
LEMMA LastIsLoaded ==
  ASSUME CompositeInv, NEW S \in SUBSET coRoutes, S # {}
  PROVE  LastLoaded(S) \in S
<1> DEFINE Later(r, o) == o.priority < r.priority \/ (o.priority = r.priority /\ o.id <= r.id)
           Above(r) == {o \in S : ~Later(r, o)}
           B == {Above(r) : r \in S}
<1>1. IsFiniteSet(S)
  BY FS_Subset DEF CompositeInv, CoTypeOK
<1>2. PICK T \in B : \A U \in B : U \subseteq T => U = T
  <2>1. B \subseteq SUBSET S
    OBVIOUS
  <2>2. PICK r \in S : TRUE
    OBVIOUS
  <2>3. Above(r) \in B
    OBVIOUS
  <2> HIDE DEF B, Above
  <2> QED
    BY <1>1, <2>1, <2>3, LeastSubset
<1>3. PICK r \in S : T = Above(r)
  OBVIOUS
<1>4. \A o \in S : o.priority \in Int /\ o.id \in Nat
  BY CoAssumption DEF CompositeInv, CoTypeOK, CoRoute
<1>5. ASSUME NEW o \in S, ~Later(r, o) PROVE FALSE
  <2>1. Above(o) \subseteq Above(r) /\ o \in Above(r) /\ o \notin Above(o)
    BY <1>4, <1>5
  <2>2. Above(o) \in B
    OBVIOUS
  <2> QED
    BY <1>2, <1>3, <2>1, <2>2
<1>6. \A o \in S : Later(r, o)
  BY <1>5
<1> QED
  BY <1>6 DEF LastLoaded

\* The loop of resolve ends with a route that is better than all others that fit.
LEMMA BestIsBest ==
  ASSUME CompositeInv, NEW m, NEW e
  PROVE  LET fits == {r \in coRoutes : Matches(r, m, e)}
             best == BestRoute(m, e)
         IN  /\ fits = {} => best = NoRoute
             /\ fits # {} => best \in fits /\ \A r \in fits : r # best => BetterCompositeRoute(best, r, e)
<1> DEFINE S == {r \in coRoutes : Matches(r, m, e)}
           V == coRoutes \cup {NoRoute}
           o == [p \in S \X V |-> BetterOf(p[1], p[2], e)]
           c == [s \in SUBSET S |-> LastLoaded(s)]
           Solution(g) == g = [s \in SUBSET S |-> IF s = {} THEN NoRoute ELSE BetterOf(LastLoaded(s), g[s \ {LastLoaded(s)}], e)]
           h == CHOOSE g : Solution(g)
<1>1. \A s \in SUBSET S : s # {} => LastLoaded(s) \in s
  BY LastIsLoaded
<1>2. Folding(o, c, NoRoute, S, V)
  <2>1. IsFiniteSet(S)
    BY FS_Subset DEF CompositeInv, CoTypeOK
  <2>2. o \in [S \X V -> V]
    BY DEF BetterOf
  <2> HIDE DEF o
  <2> QED
    BY <1>1, <2>1, <2>2 DEF Folding
<1>3. PICK g \in [SUBSET S -> V] : FoldSolves(o, c, NoRoute, S, g)
  <2> HIDE DEF o, c, S, V
  <2> QED
    BY <1>2, FoldExists
<1>4. Solution(g)
  <2>1. ASSUME NEW s \in SUBSET S, s # {}
        PROVE  o[<<c[s], g[s \ {c[s]}]>>] = BetterOf(LastLoaded(s), g[s \ {LastLoaded(s)}], e)
    <3>1. c[s] = LastLoaded(s) /\ LastLoaded(s) \in S
      BY <1>1, <2>1
    <3>2. s \ {LastLoaded(s)} \in SUBSET S
      OBVIOUS
    <3>3. g[s \ {LastLoaded(s)}] \in V
      BY <1>3, <3>2
    <3> QED
      BY <3>1, <3>3
  <2> HIDE DEF o, c, S, V
  <2> QED
    BY <1>3, <2>1 DEF FoldSolves, FoldBody
<1>5. BestRoute(m, e) = h[S]
  BY DEF BestRoute, MapThenFoldSet
<1>6. Solution(h)
  BY <1>4
<1> HIDE DEF h
<1>7. /\ h[{}] = NoRoute
      /\ \A s \in SUBSET S : s # {} => h[s] = BetterOf(LastLoaded(s), h[s \ {LastLoaded(s)}], e)
  BY <1>6
<1> HIDE DEF Solution
<1> DEFINE Best(s) == h[s] \in s /\ \A r \in s : r # h[s] => BetterCompositeRoute(h[s], r, e)
           B == {s \in SUBSET S : s # {} /\ ~Best(s)}
<1>8. B = {}
  <2>1. SUFFICES ASSUME B # {} PROVE FALSE
    OBVIOUS
  <2>2. PICK T \in B : \A U \in B : U \subseteq T => U = T
    <3>1. B \subseteq SUBSET S
      OBVIOUS
    <3>2. IsFiniteSet(S)
      BY <1>2 DEF Folding
    <3> HIDE DEF B
    <3> QED
      BY <2>1, <3>1, <3>2, LeastSubset
  <2> DEFINE x == LastLoaded(T)
             u == T \ {x}
  <2>3. T \in SUBSET S /\ T # {} /\ ~Best(T) /\ x \in T
    BY <1>1, <2>2
  <2>4. h[T] = BetterOf(x, h[u], e)
    BY <1>7, <2>3
  <2>5. u = {} \/ Best(u)
    BY <2>2, <2>3
  <2> HIDE DEF x
  <2>6. CASE u = {}
    BY <1>7, <2>3, <2>4, <2>6 DEF BetterOf
  <2>7. CASE u # {}
    <3> DEFINE y == h[u]
    <3>1. y \in u /\ \A r \in u : r # y => BetterCompositeRoute(y, r, e)
      BY <2>5, <2>7
    <3>2. x \in coRoutes /\ y \in coRoutes /\ y # x /\ u \subseteq coRoutes
      BY <2>3, <3>1
    <3>3. y # NoRoute
      BY <3>2 DEF CompositeInv, CoTypeOK, CoRoute, NoRoute
    <3> HIDE DEF y
    <3>4. CASE BetterCompositeRoute(x, y, e)
      <4>1. h[T] = x
        BY <2>4, <3>4 DEF BetterOf, y
      <4>2. ASSUME NEW r \in T, r # x PROVE BetterCompositeRoute(x, r, e)
        <5>1. r \in u
          BY <4>2
        <5> QED
          BY <3>1, <3>2, <3>4, <5>1, BetterOrders
      <4> QED
        BY <2>3, <4>1, <4>2
    <3>5. CASE ~BetterCompositeRoute(x, y, e)
      <4>1. h[T] = y
        BY <2>4, <3>3, <3>5 DEF BetterOf, y
      <4>2. BetterCompositeRoute(y, x, e)
        BY <3>2, <3>5, BetterOrders
      <4>3. ASSUME NEW r \in T, r # y PROVE BetterCompositeRoute(y, r, e)
        BY <3>1, <4>2, <4>3
      <4> QED
        BY <2>3, <3>1, <4>1, <4>3
    <3> QED
      BY <3>4, <3>5
  <2> QED
    BY <2>6, <2>7
<1>9. S = {} => BestRoute(m, e) = NoRoute
  BY <1>5, <1>7
<1>10. S # {} => Best(S)
  BY <1>8
<1> QED
  BY <1>5, <1>9, <1>10

\* An alias belongs to the one platform whose accounts expose it, if it is one.
LEMMA OwnerIsClaim ==
  ASSUME NEW m
  PROVE  LET A == {a \in CoAccounts : m \in coAlias[a]} IN
         /\ A # {} => Owner(m).claimed
         /\ \A p : A # {} /\ (\A a \in A : CoPlatform[a] = p) => Owner(m).platform = p
         /\ (\E a, b \in A : CoPlatform[a] # CoPlatform[b]) => Owner(m).platform = NoPlatform
<1> DEFINE A == {a \in CoAccounts : m \in coAlias[a]}
           None0 == [claimed |-> FALSE, platform |-> NoPlatform]
           V == [claimed : BOOLEAN, platform : {CoPlatform[a] : a \in CoAccounts} \cup {NoPlatform}]
           Op(a, x) == [claimed |-> TRUE, platform |-> Claim(x, CoPlatform[a])]
           o == [p \in A \X V |-> Op(p[1], p[2])]
           Next0(s) == CHOOSE x \in s : TRUE
           c == [s \in SUBSET A |-> Next0(s)]
           Solution(g) == g = [s \in SUBSET A |-> IF s = {} THEN None0 ELSE Op(Next0(s), g[s \ {Next0(s)}])]
           h == CHOOSE g : Solution(g)
<1>1. \A s \in SUBSET A : s # {} => Next0(s) \in s
  OBVIOUS
<1>2. Folding(o, c, None0, A, V)
  <2>1. IsFiniteSet(A)
    BY FS_Subset, CoAssumption
  <2>2. \A a \in A, x \in V : Op(a, x) \in V
    BY DEF Claim
  <2>3. o \in [A \X V -> V]
    <3> HIDE DEF Op, V
    <3> QED
      BY <2>2
  <2>4. None0 \in V
    OBVIOUS
  <2>5. \A s \in SUBSET A : s # {} => c[s] \in s
    <3> HIDE DEF A, Next0
    <3> QED
      BY <1>1
  <2> HIDE DEF o, c, None0, V, A
  <2> QED
    BY <2>1, <2>3, <2>4, <2>5 DEF Folding
<1>3. PICK g \in [SUBSET A -> V] : FoldSolves(o, c, None0, A, g)
  <2> HIDE DEF o, c, A, V, None0
  <2> QED
    BY <1>2, FoldExists
<1>4. Solution(g)
  <2>1. ASSUME NEW s \in SUBSET A, s # {}
        PROVE  o[<<c[s], g[s \ {c[s]}]>>] = Op(Next0(s), g[s \ {Next0(s)}])
    <3>1. c[s] = Next0(s) /\ Next0(s) \in A
      BY <1>1, <2>1
    <3>2. s \ {Next0(s)} \in SUBSET A
      OBVIOUS
    <3>3. g[s \ {Next0(s)}] \in V
      BY <1>3, <3>2
    <3> HIDE DEF Op, V, A, Next0, c
    <3> QED
      BY <3>1, <3>3
  <2> HIDE DEF o, c, A, V, Op, Next0, None0
  <2> QED
    BY <1>3, <2>1 DEF FoldSolves, FoldBody
<1>5. Owner(m) = h[A]
  BY DEF Owner, FoldSet, MapThenFoldSet
<1>6. Solution(h)
  BY <1>4
<1> HIDE DEF h
<1>7. h[{}] = None0 /\ \A s \in SUBSET A : s # {} => h[s] = Op(Next0(s), h[s \ {Next0(s)}])
  <2> HIDE DEF Op, None0, Next0, A
  <2> QED
    BY <1>6
<1> HIDE DEF Solution
<1> DEFINE Good(s) == /\ h[s].claimed
                      /\ \A p : (\A a \in s : CoPlatform[a] = p) => h[s].platform = p
                      /\ (\E a, b \in s : CoPlatform[a] # CoPlatform[b]) => h[s].platform = NoPlatform
           B == {s \in SUBSET A : s # {} /\ ~Good(s)}
<1>8. B = {}
  <2>1. SUFFICES ASSUME B # {} PROVE FALSE
    OBVIOUS
  <2>2. PICK T \in B : \A U \in B : U \subseteq T => U = T
    <3>1. B \subseteq SUBSET A
      OBVIOUS
    <3>2. IsFiniteSet(A)
      BY <1>2 DEF Folding
    <3> HIDE DEF B
    <3> QED
      BY <2>1, <3>1, <3>2, LeastSubset
  <2> DEFINE x == Next0(T)
             u == T \ {x}
             y == h[u]
  <2>3. T \in SUBSET A /\ T # {} /\ ~Good(T) /\ x \in T
    <3> HIDE DEF Good
    <3> QED
      BY <1>1, <2>2
  <2>4. h[T] = Op(x, y)
    <3> HIDE DEF Op
    <3> QED
      BY <1>7, <2>3
  <2>5. u = {} \/ Good(u)
    <3>1. u \in SUBSET A /\ u # T /\ u \subseteq T
      BY <2>3
    <3> HIDE DEF Good, u, A
    <3> QED
      BY <2>2, <3>1
  <2> HIDE DEF x
  <2>6. h[T].claimed /\ h[T].platform = Claim(y, CoPlatform[x])
    BY <2>4
  <2>7. CoPlatform[x] # NoPlatform
    BY <2>3, CoAssumption
  <2>8. CASE u = {}
    <3>1. T = {x}
      BY <2>3, <2>8
    <3>2. h[T].platform = CoPlatform[x]
      <4>1. y = None0
        BY <1>7, <2>8
      <4>2. ~y.claimed
        BY <4>1
      <4> HIDE DEF y
      <4> QED
        BY <2>6, <4>2 DEF Claim
    <3> QED
      BY <2>3, <2>6, <3>1, <3>2
  <2>9. CASE u # {}
    <3>1. /\ y.claimed /\ \A p : (\A a \in u : CoPlatform[a] = p) => y.platform = p
          /\ (\E a, b \in u : CoPlatform[a] # CoPlatform[b]) => y.platform = NoPlatform
      BY <2>5, <2>9
    <3> HIDE DEF y
    <3>2. h[T].platform = IF y.platform # CoPlatform[x] THEN NoPlatform ELSE CoPlatform[x]
      BY <2>6, <3>1 DEF Claim
    <3>3. \A p : (\A a \in T : CoPlatform[a] = p) => h[T].platform = p
      BY <2>3, <3>1, <3>2
    <3>4. ASSUME NEW a \in T, NEW b \in T, CoPlatform[a] # CoPlatform[b] PROVE h[T].platform = NoPlatform
      <4>1. CASE \E i, j \in u : CoPlatform[i] # CoPlatform[j]
        BY <2>7, <3>1, <3>2, <4>1
      <4>2. CASE ~\E i, j \in u : CoPlatform[i] # CoPlatform[j]
        <5>1. PICK i \in u : CoPlatform[i] # CoPlatform[x]
          BY <3>4, <4>2
        <5>2. y.platform = CoPlatform[i]
          BY <3>1, <4>2, <5>1
        <5> QED
          BY <3>2, <5>1, <5>2
      <4> QED
        BY <4>1, <4>2
    <3> QED
      BY <2>3, <2>6, <3>3, <3>4
  <2> QED
    BY <2>8, <2>9
<1>9. A # {} => Good(A)
  <2> HIDE DEF Good, A
  <2> QED
    BY <1>8
<1>10. (\E a, b \in A : CoPlatform[a] # CoPlatform[b]) => A # {}
  OBVIOUS
<1> QED
  BY <1>5, <1>9, <1>10

\* What the loop chooses is what the rules choose.
LEMMA BestIsChosen ==
  ASSUME CompositeInv, NEW m, NEW e
  PROVE  /\ BestRoute(m, e) # NoRoute => ChosenRoutes(m, e) = {BestRoute(m, e)}
         /\ BestRoute(m, e) = NoRoute => ChosenRoutes(m, e) = {}
<1> DEFINE fits == {r \in coRoutes : Matches(r, m, e)}
           b == BestRoute(m, e)
           exact == Narrow(fits, LAMBDA r : r.match = "exact")
           own == Narrow(exact, LAMBDA r : r.endpoint = e)
           long == {r \in own : \A o \in own : Len(o.model) <= Len(r.model)}
           first == {r \in long : \A o \in long : r.priority <= o.priority}
           old == {r \in first : \A o \in first : r.id <= o.id}
<1>1. /\ fits = {} => b = NoRoute
      /\ fits # {} => b \in fits /\ \A r \in fits : r # b => BetterCompositeRoute(b, r, e)
  BY BestIsBest
<1>2. ChosenRoutes(m, e) = old
  BY DEF ChosenRoutes
<1>3. \A r \in coRoutes : r.match \in {"exact", "prefix"} /\ Len(r.model) \in Nat /\ r.priority \in Int /\ r.id \in Nat
  BY CoAssumption DEF CompositeInv, CoTypeOK, CoRoute
<1>4. \A r \in coRoutes : r # NoRoute
  BY DEF CompositeInv, CoTypeOK, CoRoute, NoRoute
<1>5. exact \subseteq fits /\ own \subseteq exact /\ long \subseteq own /\ first \subseteq long /\ old \subseteq first
  BY DEF Narrow
<1>6. fits \subseteq coRoutes
  OBVIOUS
<1>7. CASE fits = {}
  <2>1. old = {}
    BY <1>5, <1>7
  <2> QED
    BY <1>1, <1>2, <1>7, <2>1
<1>8. CASE fits # {}
  <2>1. b \in fits /\ b # NoRoute /\ \A r \in fits : r # b => BetterCompositeRoute(b, r, e)
    BY <1>1, <1>4, <1>6, <1>8
  <2> HIDE DEF b, fits
  <2>2. b \in exact /\ \A r \in exact : r.match = b.match
    BY <1>3, <1>6, <2>1 DEF Narrow, BetterCompositeRoute
  <2>3. exact \subseteq fits
    BY <1>5
  <2> HIDE DEF exact
  <2>4. b \in own /\ \A r \in own : (r.endpoint = e) = (b.endpoint = e)
    BY <1>6, <2>1, <2>2, <2>3 DEF Narrow, BetterCompositeRoute
  <2>5. own \subseteq exact
    BY <1>5
  <2> HIDE DEF own
  <2>6. \A r \in own : r # b => /\ r.match = b.match /\ (r.endpoint = e) = (b.endpoint = e)
                                /\ BetterCompositeRoute(b, r, e) /\ r \in coRoutes
    BY <1>6, <2>1, <2>2, <2>3, <2>4, <2>5
  <2>7. b \in coRoutes
    BY <1>6, <2>1
  <2>8. b \in long /\ \A r \in long : Len(r.model) = Len(b.model)
    BY <1>3, <2>4, <2>6, <2>7 DEF BetterCompositeRoute
  <2>9. long \subseteq own
    OBVIOUS
  <2> HIDE DEF long
  <2>10. b \in first /\ \A r \in first : r.priority = b.priority
    BY <1>3, <2>6, <2>7, <2>8, <2>9 DEF BetterCompositeRoute
  <2>11. first \subseteq long
    OBVIOUS
  <2> HIDE DEF first
  <2>12. \A r \in first : r # b => b.id < r.id
    BY <1>3, <2>6, <2>7, <2>8, <2>9, <2>10, <2>11 DEF BetterCompositeRoute
  <2>13. \A r \in first : r.id \in Nat
    BY <1>3, <2>6, <2>7, <2>9, <2>11
  <2>14. old = {b}
    BY <2>10, <2>12, <2>13
  <2> QED
    BY <1>2, <2>1, <2>14 DEF b
<1> QED
  BY <1>7, <1>8

\* The loop and the aliases decide as the rules say.
LEMMA LoopFollowsRules == CompositeInv => RoutedByRules
<1> SUFFICES ASSUME CompositeInv, NEW m \in CoModels, NEW e \in CoEndpoints
             PROVE  LET d == Resolved(m, e)
                        chosen == ChosenRoutes(m, e)
                        claims == {CoPlatform[a] : a \in {x \in CoAccounts : m \in coAlias[x]}}
                    IN  /\ \A r \in chosen : d.by = r.id
                        /\ chosen = {} /\ claims # {} => d.platform = IF \E p \in claims : claims = {p}
                                                                      THEN CHOOSE p \in claims : TRUE ELSE NoPlatform
  BY DEF RoutedByRules
<1> DEFINE d == Resolved(m, e)
           chosen == ChosenRoutes(m, e)
           A == {x \in CoAccounts : m \in coAlias[x]}
           claims == {CoPlatform[a] : a \in A}
<1>1. /\ BestRoute(m, e) # NoRoute => chosen = {BestRoute(m, e)}
      /\ BestRoute(m, e) = NoRoute => chosen = {}
  BY BestIsChosen
<1>2. \A r \in chosen : d.by = r.id
  <2> HIDE DEF chosen
  <2> QED
    BY <1>1 DEF Resolved
<1>3. ASSUME chosen = {}, claims # {}
      PROVE  d.platform = IF \E p \in claims : claims = {p} THEN CHOOSE p \in claims : TRUE ELSE NoPlatform
  <2>1. /\ Owner(m).claimed
        /\ \A p : (\A a \in A : CoPlatform[a] = p) => Owner(m).platform = p
        /\ (\E a, b \in A : CoPlatform[a] # CoPlatform[b]) => Owner(m).platform = NoPlatform
    <3>1. A # {}
      BY <1>3
    <3> QED
      BY <3>1, OwnerIsClaim
  <2>2. d.platform = Owner(m).platform
    <3>1. BestRoute(m, e) = NoRoute
      BY <1>1, <1>3
    <3> QED
      BY <2>1, <3>1 DEF Resolved
  <2>3. CASE \E p \in claims : claims = {p}
    <3>1. PICK p \in claims : claims = {p}
      BY <2>3
    <3>2. \A a \in A : CoPlatform[a] = p
      <4>1. \A a \in A : CoPlatform[a] \in claims
        OBVIOUS
      <4> HIDE DEF claims, A
      <4> QED
        BY <3>1, <4>1
    <3>3. (CHOOSE q \in claims : TRUE) = p
      <4> HIDE DEF claims
      <4> QED
        BY <3>1
    <3> HIDE DEF claims, d, A
    <3> QED
      BY <2>1, <2>2, <2>3, <3>2, <3>3
  <2>4. CASE ~\E p \in claims : claims = {p}
    <3>1. \E a, b \in A : CoPlatform[a] # CoPlatform[b]
      <4>1. PICK a \in A : TRUE
        BY <1>3
      <4>2. CoPlatform[a] \in claims
        OBVIOUS
      <4>3. PICK q \in claims : q # CoPlatform[a]
        <5> HIDE DEF claims
        <5> QED
          BY <2>4, <4>2
      <4>4. PICK b \in A : q = CoPlatform[b]
        OBVIOUS
      <4> QED
        BY <4>3, <4>4
    <3> HIDE DEF claims, d, A
    <3> QED
      BY <2>1, <2>2, <2>4, <3>1
  <2> QED
    BY <2>3, <2>4
<1> QED
  BY <1>2, <1>3

\* Every step of the composite groups keeps CompositeInv.
LEMMA CompositeStep == CompositeInv /\ [CompositeNext]_coVars => CompositeInv'
<1> SUFFICES ASSUME CompositeInv, [CompositeNext]_coVars PROVE CompositeInv'
  OBVIOUS
<1> USE DEF CompositeInv
<1>1. ASSUME NEW r \in CoRoute, SaveRoute(r) PROVE CompositeInv'
  <2> DEFINE kept == {x \in coRoutes : x.id # r.id}
  <2>1. coRoutes' = kept \cup {r} /\ UNCHANGED <<coAlias, coReq>>
    BY <1>1 DEF SaveRoute
  <2>2. IsFiniteSet(kept \cup {r})
    BY FS_Subset, FS_AddElement DEF CoTypeOK
  <2> QED
    BY <2>1, <2>2 DEF CoTypeOK, OneOfEachId, CoRequest
<1>2. ASSUME NEW r \in CoRoute, DropRoute(r) PROVE CompositeInv'
  <2>1. IsFiniteSet(coRoutes \ {r})
    BY FS_RemoveElement, FS_Subset DEF CoTypeOK
  <2> QED
    BY <1>2, <2>1 DEF DropRoute, CoTypeOK, OneOfEachId, CoRequest
<1>3. ASSUME NEW a \in CoAccounts, NEW models \in SUBSET CoModels, SetAliases(a, models) PROVE CompositeInv'
  BY <1>3 DEF SetAliases, CoTypeOK, OneOfEachId, CoRequest
<1>4. ASSUME NEW m \in CoModels, NEW e \in CoEndpoints, RouteRequest(m, e) PROVE CompositeInv'
  BY <1>4 DEF RouteRequest, CoTypeOK, OneOfEachId, CoRequest
<1>5. CASE AccountBusy
  BY <1>5 DEF AccountBusy, CoTypeOK, OneOfEachId, CoRequest
<1>6. CASE Revalidate
  BY <1>6 DEF Revalidate, StillRouted, CoIdle, CoTypeOK, OneOfEachId, CoRequest
<1>7. CASE SendRequest
  BY <1>7 DEF SendRequest, CoTypeOK, OneOfEachId, CoRequest
<1>8. CASE FinishRequest
  BY <1>8 DEF FinishRequest, CoIdle, CoTypeOK, OneOfEachId, CoRequest
<1>9. CASE UNCHANGED coVars
  BY <1>9 DEF coVars, CoTypeOK, OneOfEachId, CoRequest
<1> QED
  BY <1>1, <1>2, <1>3, <1>4, <1>5, <1>6, <1>7, <1>8, <1>9 DEF CompositeNext

\* At first there are no routes and no aliases.
LEMMA CompositeInit == CoInit => CompositeInv
  BY FS_EmptySet DEF CoInit, CompositeInv, CoTypeOK, OneOfEachId, CoRequest, CoIdle

\* The comparison of pairs chooses as the rules say whatever routes and aliases
\* are in force, and a request that waited leaves by what held after its last
\* wait (resolve, revalidateQueuedRequest), for any models, routes and accounts.
THEOREM RoutesFollowRules == CompositeSpec => [](RoutedByRules /\ QueuedRouteFresh)
<1>1. CompositeInv => QueuedRouteFresh
  BY DEF CompositeInv, CoRequest, QueuedRouteFresh
<1> QED
  BY <1>1, CompositeInit, CompositeStep, LoopFollowsRules, PTL DEF CompositeSpec

\* What the composition checks of groups and routes holds for every instance.
THEOREM RoutingStaysSound == AdminSpec => []RoutingSound
<1>1. NoGroupCycle /\ RoutedInOneHop /\ RoutedByRules /\ QueuedRouteFresh => RoutingSound
  BY DEF RoutingSound
<1> QED
  BY AdminRunsEach, GroupsRouteInOneHop, RoutesFollowRules, <1>1, PTL

(***************************************************************************)
(* ProxyRoutes.  A cycle is a set of proxies whose fallbacks are in force  *)
(* and stay in it (NoneCycles: there is none).  What a transaction has     *)
(* checked stays true until it commits (PxTxInv), since whoever runs       *)
(* without the lock writes neither the graph nor the proxy of an account.  *)
(* A snapshot is dropped with every row of its chain that changes: what is *)
(* not above the change is closed under the fallbacks (VersionAgrees).     *)
(***************************************************************************)
CyclesIn(C, rows) == \A p \in C : rows[p].live /\ rows[p].mode = "proxy" /\ rows[p].backup \in C
NoneCycles(rows) == \A C \in SUBSET PxProxies : CyclesIn(C, rows) => C = {}

\* What the rows and the accounts keep as long as the lock does not move.
SameGraph(rows, others) ==
    \A p \in PxProxies : /\ others[p].live = rows[p].live /\ others[p].mode = rows[p].mode
                         /\ others[p].backup = rows[p].backup

PxProbeShape ==
    pxProbe # PxIdle =>
        /\ pxProbe.op \in {"load", "sent"} /\ pxProbe.acct \in PxAccounts /\ pxProbe.stale \in BOOLEAN
        /\ pxProbe.proxy \in PxProxies \cup {NoProxy}
        /\ pxProbe = [op |-> pxProbe.op, acct |-> pxProbe.acct, stale |-> pxProbe.stale, proxy |-> pxProbe.proxy,
                      target |-> pxProbe.target, version |-> pxProbe.version]
PxEdit == [op : {"edit"}, acct : PxAccounts, new : PxTargets, crossed : BOOLEAN, drop : BOOLEAN]
PxShapes ==
    /\ pxAcct = [a \in PxAccounts |-> [proxy |-> pxAcct[a].proxy, origin |-> pxAcct[a].origin,
                                       target |-> pxAcct[a].target, shot |-> pxAcct[a].shot]]
    /\ DOMAIN pxChosen = PxAccounts /\ DOMAIN pxTx = PxAdmins
    /\ pxEdit \in [PxAdmins -> {PxIdle} \cup PxEdit]

LiveOrNone(p) == p = NoProxy \/ (p \in PxProxies /\ pxRow[p].live)

\* What the commit of an open transaction relies on.
SaveChecked(op) ==
    /\ op \in [op : {"save"}, proxy : PxProxies, row : PxRow, renew : BOOLEAN]
    /\ op.row.live /\ LiveOrNone(op.row.backup)
    /\ NoneCycles([pxRow EXCEPT ![op.proxy] = op.row])
DeleteChecked(op) ==
    /\ op.op = "delete" /\ op.proxy \in PxProxies /\ ~ProxyReferenced(op.proxy)
AssignChecked(op) == op.op = "assign" /\ op.acct \in PxAccounts /\ LiveOrNone(op.proxy)
SearchChecked(op) == op.op = "search" /\ LiveOrNone(op.proxy)
RevertChecked(op) == op.op = "revert" /\ op.acct \in PxAccounts /\ pxAcct[op.acct].origin # NoProxy
ExpireChecked(op) ==
    /\ op.op = "expire" /\ DOMAIN op.route \subseteq PxProxies
    /\ \A p \in DOMAIN op.route : op.route[p] = Unroutable \/ LiveOrNone(op.route[p])
Checked(op) ==
    \/ SaveChecked(op) \/ DeleteChecked(op) \/ AssignChecked(op)
    \/ SearchChecked(op) \/ RevertChecked(op) \/ ExpireChecked(op)

PxTxInv == \A t \in PxAdmins : pxTx[t] # PxIdle => pxLock = t /\ Checked(pxTx[t])
\* An edit compared with the target of its account, until another is written.
PxEditInv ==
    \A t \in PxAdmins : pxEdit[t] # PxIdle /\ ~pxEdit[t].crossed =>
        pxEdit[t].drop = (pxEdit[t].new # pxAcct[pxEdit[t].acct].target)
PxProbeInv ==
    pxProbe # PxIdle /\ ~pxProbe.stale =>
        pxAcct[pxProbe.acct].proxy = pxProbe.proxy /\ pxAcct[pxProbe.acct].target = pxProbe.target

\* What is referred to is live.
RefsLive ==
    /\ \A a \in PxAccounts : LiveOrNone(pxAcct[a].proxy) /\ LiveOrNone(pxAcct[a].origin)
    /\ \A p \in PxProxies : pxRow[p].live => LiveOrNone(pxRow[p].backup)
    /\ LiveOrNone(pxSearch)

ProxyInv ==
    /\ PxTypeOK /\ PxShapes /\ PxProbeShape /\ NoneCycles(pxRow) /\ RefsLive
    /\ PxTxInv /\ PxEditInv /\ PxProbeInv /\ ChoiceKept /\ SnapshotFresh

\* Behind holds what the steps of its walk collect.
LEMMA BehindStep ==
  ASSUME NEW p \in PxProxies, NEW rows \in [PxProxies -> PxRow]
  PROVE  \E at \in [0..PxDepth -> SUBSET PxProxies] :
            /\ Behind(p, rows) = at[PxDepth] /\ at[0] = {}
            /\ \A n \in 1..PxDepth : at[n] = {rows[q].backup : q \in {p} \cup at[n - 1]} \ {NoProxy}
<1> DEFINE S == SUBSET PxProxies
           s == [X \in S |-> {rows[q].backup : q \in {p} \cup X} \ {NoProxy}]
           Fits(f) == f = [n \in 0..PxDepth |-> IF n = 0 THEN {} ELSE {rows[q].backup : q \in {p} \cup f[n - 1]} \ {NoProxy}]
           w == CHOOSE f : Fits(f)
<1>1. s \in [S -> S]
  BY PxAssumption DEF PxRow
<1>2. PxDepth \in Nat /\ {} \in S
  BY PxAssumption
<1> HIDE DEF s
<1>3. PICK f \in [0..PxDepth -> S] : Iterates(f, {}, s, PxDepth)
  BY <1>1, <1>2, WalkExists
<1>4. Fits(f)
  <2>1. \A n \in 0..PxDepth : n # 0 => s[f[n - 1]] = {rows[q].backup : q \in {p} \cup f[n - 1]} \ {NoProxy}
    BY <1>2 DEF s
  <2> QED
    BY <1>3, <2>1 DEF Iterates
<1>5. Fits(w)
  <2> HIDE DEF Fits
  <2> QED
    BY <1>4
<1>6. Behind(p, rows) = w[PxDepth]
  BY DEF Behind
<1> HIDE DEF w
<1>7. w[0] = {} /\ \A n \in 1..PxDepth : w[n] = {rows[q].backup : q \in {p} \cup w[n - 1]} \ {NoProxy}
  <2> DEFINE X(n) == {rows[q].backup : q \in {p} \cup w[n - 1]} \ {NoProxy}
  <2>1. w = [n \in 0..PxDepth |-> IF n = 0 THEN {} ELSE X(n)]
    BY <1>5
  <2> HIDE DEF X
  <2>2. w[0] = {} /\ \A n \in 1..PxDepth : w[n] = X(n)
    BY <1>2, <2>1
  <2> QED
    BY <2>2 DEF X
<1> DEFINE P == {n \in 0..PxDepth : w[n] \in S}
<1>8. 0 \in P
  BY <1>2, <1>7
<1>9. \A n \in 1..PxDepth : n - 1 \in P => n \in P
  <2> SUFFICES ASSUME NEW n \in 1..PxDepth, n - 1 \in P PROVE n \in P
    OBVIOUS
  <2>1. w[n - 1] \in S /\ w[n] = {rows[q].backup : q \in {p} \cup w[n - 1]} \ {NoProxy}
    BY <1>7
  <2>2. w[n] \in S
    BY <2>1 DEF PxRow
  <2> QED
    BY <1>2, <2>2
<1> HIDE DEF P
<1>10. 0..PxDepth \subseteq P
  BY <1>2, <1>8, <1>9, WalkInduction
<1>11. \A n \in 0..PxDepth : w[n] \in S
  BY <1>10 DEF P
<1>12. w \in [0..PxDepth -> S]
  BY <1>5, <1>11
<1> QED
  BY <1>6, <1>7, <1>12

\* A set that the backups stay in holds all that is behind its proxies, and
\* what is behind them does not depend on the other rows.
LEMMA BehindAgrees ==
  ASSUME NEW p \in PxProxies, NEW rows \in [PxProxies -> PxRow], NEW others \in [PxProxies -> PxRow],
         NEW L \in SUBSET PxProxies, p \in L,
         \A q \in L : rows[q].backup \in L \cup {NoProxy} /\ others[q].backup = rows[q].backup
  PROVE  Behind(p, rows) \subseteq L /\ Behind(p, others) = Behind(p, rows)
<1>1. PICK f \in [0..PxDepth -> SUBSET PxProxies] :
         /\ Behind(p, rows) = f[PxDepth] /\ f[0] = {}
         /\ \A n \in 1..PxDepth : f[n] = {rows[q].backup : q \in {p} \cup f[n - 1]} \ {NoProxy}
  BY BehindStep
<1>2. PICK g \in [0..PxDepth -> SUBSET PxProxies] :
         /\ Behind(p, others) = g[PxDepth] /\ g[0] = {}
         /\ \A n \in 1..PxDepth : g[n] = {others[q].backup : q \in {p} \cup g[n - 1]} \ {NoProxy}
  BY BehindStep
<1> DEFINE P == {n \in 0..PxDepth : f[n] \subseteq L /\ g[n] = f[n]}
<1>3. PxDepth \in Nat
  BY PxAssumption
<1>4. 0 \in P
  <2>1. 0 \in 0..PxDepth /\ f[0] = {} /\ g[0] = {}
    BY <1>1, <1>2, <1>3
  <2> QED
    BY <2>1
<1>5. \A n \in 1..PxDepth : n - 1 \in P => n \in P
  <2> SUFFICES ASSUME NEW n \in 1..PxDepth, n - 1 \in P PROVE n \in P
    OBVIOUS
  <2> DEFINE X == {p} \cup f[n - 1]
  <2>1. X \subseteq L
    OBVIOUS
  <2>2. f[n] = {rows[q].backup : q \in X} \ {NoProxy} /\ g[n] = {others[q].backup : q \in X} \ {NoProxy}
    BY <1>1, <1>2
  <2> HIDE DEF X
  <2>3. f[n] \subseteq L /\ g[n] = f[n]
    BY <2>1, <2>2
  <2> QED
    BY <1>3, <2>3
<1> HIDE DEF P
<1>6. 0..PxDepth \subseteq P
  BY <1>3, <1>4, <1>5, WalkInduction
<1>7. PxDepth \in P
  BY <1>3, <1>6
<1> QED
  BY <1>1, <1>2, <1>7 DEF P

\* The version of a row: it does not tell whether the proxy is overdue.
Revision(row) == [row EXCEPT !.expires = IF @ = "past" THEN "later" ELSE @]

\* The version of a chain changes only with the rows that it may reach.
LEMMA VersionAgrees ==
  ASSUME NEW p \in PxProxies, NEW rows \in [PxProxies -> PxRow], NEW others \in [PxProxies -> PxRow],
         NEW L \in SUBSET PxProxies, p \in L,
         \A q \in L : rows[q].backup \in L \cup {NoProxy} /\ Revision(others[q]) = Revision(rows[q])
  PROVE  ProxyVersion(p, others) = ProxyVersion(p, rows)
<1>1. \A q \in L : others[q].backup = rows[q].backup
  <2> SUFFICES ASSUME NEW q \in L PROVE others[q].backup = rows[q].backup
    OBVIOUS
  <2>1. rows[q] \in PxRow /\ others[q] \in PxRow
    OBVIOUS
  <2>2. Revision(others[q]).backup = others[q].backup /\ Revision(rows[q]).backup = rows[q].backup
    BY <2>1 DEF Revision, PxRow
  <2> QED
    BY <2>2
<1>2. Behind(p, rows) \subseteq L /\ Behind(p, others) = Behind(p, rows)
  BY <1>1, BehindAgrees
<1>3. p # NoProxy
  BY PxAssumption
<1>4. ProxyVersion(p, others) = [q \in {p} \cup Behind(p, others) |-> Revision(others[q])]
  BY <1>3 DEF ProxyVersion, Revision
<1>5. ProxyVersion(p, rows) = [q \in {p} \cup Behind(p, rows) |-> Revision(rows[q])]
  BY <1>3 DEF ProxyVersion, Revision
<1> HIDE DEF Revision
<1> QED
  BY <1>2, <1>4, <1>5

\* The walk of a save from the backup it checks.
LEMMA ChainWalkStep ==
  ASSUME PxTypeOK, NEW backup \in PxProxies \cup {NoProxy}
  PROVE  /\ ChainWalk(backup)[0] = backup
         /\ \A n \in 1..PxDepth - 1 :
              ChainWalk(backup)[n] =
                  IF ChainWalk(backup)[n - 1] = NoProxy \/ pxRow[ChainWalk(backup)[n - 1]].mode # "proxy" THEN NoProxy
                  ELSE pxRow[ChainWalk(backup)[n - 1]].backup
<1> DEFINE S == PxProxies \cup {NoProxy}
           s == [x \in S |-> IF x = NoProxy \/ pxRow[x].mode # "proxy" THEN NoProxy ELSE pxRow[x].backup]
           m == PxDepth - 1
           w == ChainWalk(backup)
<1>1. s \in [S -> S]
  BY DEF PxTypeOK, PxRow
<1>2. m \in Nat
  BY PxAssumption
<1> HIDE DEF s, m
<1>3. PICK f \in [0..m -> S] : Iterates(f, backup, s, m)
  BY <1>1, <1>2, WalkExists
<1>4. f = [n \in 0..m |-> IF n = 0 THEN backup
                          ELSE IF f[n - 1] = NoProxy \/ pxRow[f[n - 1]].mode # "proxy" THEN NoProxy ELSE pxRow[f[n - 1]].backup]
  <2>1. \A n \in 0..m : n # 0 => s[f[n - 1]] = IF f[n - 1] = NoProxy \/ pxRow[f[n - 1]].mode # "proxy" THEN NoProxy
                                               ELSE pxRow[f[n - 1]].backup
    BY <1>2 DEF s
  <2> QED
    BY <1>3, <2>1 DEF Iterates
<1>5. w = [n \in 0..m |-> IF n = 0 THEN backup
                          ELSE IF w[n - 1] = NoProxy \/ pxRow[w[n - 1]].mode # "proxy" THEN NoProxy ELSE pxRow[w[n - 1]].backup]
  BY <1>4 DEF ChainWalk, m
<1> HIDE DEF w
<1>6. w[0] = backup /\ \A n \in 1..m : w[n] = IF w[n - 1] = NoProxy \/ pxRow[w[n - 1]].mode # "proxy" THEN NoProxy
                                              ELSE pxRow[w[n - 1]].backup
  BY <1>2, <1>5
<1> QED
  BY <1>6 DEF w, m

\* A sound chain meets neither the saved proxy nor a cycle.
LEMMA ChainLeaves ==
  ASSUME PxTypeOK, NEW p \in PxProxies, NEW row \in PxRow, SoundChain(p, row.backup),
         NEW C \in SUBSET PxProxies, CyclesIn(C, [pxRow EXCEPT ![p] = row])
  PROVE  p \notin C
<1> SUFFICES ASSUME p \in C PROVE FALSE
  OBVIOUS
<1> DEFINE rows == [pxRow EXCEPT ![p] = row]
           m == PxDepth - 1
           w == ChainWalk(row.backup)
           P == {n \in 0..m : w[n] \in C}
<1>1. m \in Nat /\ NoProxy \notin C
  BY PxAssumption
<1>2. w[0] = row.backup /\ \A n \in 1..m : w[n] = IF w[n - 1] = NoProxy \/ pxRow[w[n - 1]].mode # "proxy" THEN NoProxy
                                                  ELSE pxRow[w[n - 1]].backup
  BY ChainWalkStep DEF PxRow
<1>3. \A n \in 0..m : w[n] # NoProxy => n < m /\ w[n] # p
  BY DEF SoundChain
<1>4. \A q \in C : q # p => pxRow[q].mode = "proxy" /\ pxRow[q].backup \in C
  BY DEF CyclesIn, PxTypeOK
<1>5. row.backup \in C
  BY DEF CyclesIn, PxTypeOK
<1> HIDE DEF w, m
<1>6. 0 \in P
  BY <1>1, <1>2, <1>5
<1>7. \A n \in 1..m : n - 1 \in P => n \in P
  <2> SUFFICES ASSUME NEW n \in 1..m, n - 1 \in P PROVE n \in P
    OBVIOUS
  <2>1. n - 1 \in 0..m /\ w[n - 1] \in C
    BY <1>1
  <2>2. w[n - 1] # NoProxy /\ w[n - 1] # p
    BY <1>1, <1>3, <2>1
  <2>3. w[n] = pxRow[w[n - 1]].backup /\ w[n] \in C
    BY <1>2, <1>4, <2>1, <2>2
  <2> QED
    BY <1>1, <2>3
<1> HIDE DEF P
<1>8. 0..m \subseteq P
  BY <1>1, <1>6, <1>7, WalkInduction
<1>9. m \in P
  BY <1>1, <1>8
<1>10. w[m] \in C /\ m \in 0..m
  BY <1>1, <1>9 DEF P
<1> QED
  BY <1>1, <1>3, <1>10

\* What a chain resolves to is a live proxy or the direct route, if any.
LEMMA ResolvesToLive ==
  ASSUME PxTypeOK, NEW root \in PxProxies
  PROVE  ResolveProxy(root) = Unroutable \/ LiveOrNone(ResolveProxy(root))
<1> DEFINE V == {x \in PxProxies \cup {NoProxy, Unroutable} : x = Unroutable \/ LiveOrNone(x)}
           S == [PxProxies -> V]
           Route(p, F) == IF ~pxRow[p].live THEN Unroutable
                          ELSE IF UsableProxy(p) THEN p
                          ELSE IF pxRow[p].mode = "direct" THEN NoProxy
                          ELSE IF pxRow[p].mode = "proxy" /\ pxRow[p].backup # NoProxy THEN F[pxRow[p].backup]
                          ELSE Unroutable
           s == [F \in S |-> [p \in PxProxies |-> Route(p, F)]]
           z == [p \in PxProxies |-> Unroutable]
           Fits(f) == f = [n \in 0..PxDepth |->
            [p \in PxProxies |->
                IF n = 0 \/ ~pxRow[p].live THEN Unroutable
                ELSE IF UsableProxy(p) THEN p
                ELSE IF pxRow[p].mode = "direct" THEN NoProxy
                ELSE IF pxRow[p].mode = "proxy" /\ pxRow[p].backup # NoProxy THEN f[n - 1][pxRow[p].backup]
                ELSE Unroutable]]
           w == CHOOSE f : Fits(f)
<1>1. ASSUME NEW F \in S, NEW p \in PxProxies PROVE Route(p, F) \in V
  <2>1. pxRow[p].backup \in PxProxies \cup {NoProxy}
    BY DEF PxTypeOK, PxRow
  <2>2. pxRow[p].backup # NoProxy => F[pxRow[p].backup] \in V
    BY <2>1
  <2> QED
    BY <2>2 DEF LiveOrNone
<1>2. s \in [S -> S] /\ z \in S
  <2> HIDE DEF Route, V
  <2>1. z \in S
    BY DEF V
  <2> QED
    BY <1>1, <2>1
<1>3. PxDepth \in Nat /\ PxDepth \in 0..PxDepth
  BY PxAssumption
<1> HIDE DEF s
<1>4. PICK f \in [0..PxDepth -> S] : Iterates(f, z, s, PxDepth)
  <2> HIDE DEF z, S
  <2> QED
    BY <1>2, <1>3, WalkExists
<1>5. Fits(f)
  <2>1. f = [n \in 0..PxDepth |-> IF n = 0 THEN z ELSE s[f[n - 1]]]
    BY <1>4 DEF Iterates
  <2> DEFINE e(n) == [p \in PxProxies |->
                IF n = 0 \/ ~pxRow[p].live THEN Unroutable
                ELSE IF UsableProxy(p) THEN p
                ELSE IF pxRow[p].mode = "direct" THEN NoProxy
                ELSE IF pxRow[p].mode = "proxy" /\ pxRow[p].backup # NoProxy THEN f[n - 1][pxRow[p].backup]
                ELSE Unroutable]
  <2>2. ASSUME NEW n \in 0..PxDepth, n # 0 PROVE s[f[n - 1]] = e(n)
    <3>1. n - 1 \in 0..PxDepth
      BY <1>3, <2>2
    <3>2. f[n - 1] \in S
      BY <3>1
    <3>3. s[f[n - 1]] = [p \in PxProxies |-> Route(p, f[n - 1])]
      BY <3>2 DEF s
    <3> QED
      BY <2>2, <3>3
  <2>3. z = e(0)
    BY DEF z
  <2> HIDE DEF e
  <2>4. f = [n \in 0..PxDepth |-> e(n)]
    BY <2>1, <2>2, <2>3
  <2> QED
    BY <2>4 DEF e
<1>6. Fits(w)
  <2> HIDE DEF Fits
  <2> QED
    BY <1>5
<1>7. ResolveProxy(root) = IF pxRow[root].status = "inactive" THEN Unroutable ELSE w[PxDepth][root]
  BY DEF ResolveProxy
<1> HIDE DEF w
<1> DEFINE P == {n \in 0..PxDepth : w[n] \in S}
<1>8. 0 \in P
  <2>1. w[0] = z
    BY <1>3, <1>6
  <2> HIDE DEF z, S
  <2> QED
    BY <1>2, <1>3, <2>1
<1>9. \A n \in 1..PxDepth : n - 1 \in P => n \in P
  <2> SUFFICES ASSUME NEW n \in 1..PxDepth, n - 1 \in P PROVE n \in P
    OBVIOUS
  <2>1. w[n - 1] \in S /\ n \in 0..PxDepth /\ n # 0
    BY <1>3
  <2>2. w[n] = [p \in PxProxies |-> Route(p, w[n - 1])]
    BY <1>6, <2>1
  <2> HIDE DEF Route, V
  <2>3. w[n] \in S
    BY <1>1, <2>1, <2>2
  <2> QED
    BY <2>1, <2>3
<1> HIDE DEF P
<1>10. 0..PxDepth \subseteq P
  BY <1>3, <1>8, <1>9, WalkInduction
<1>11. w[PxDepth] \in S
  BY <1>3, <1>10 DEF P
<1> QED
  BY <1>7, <1>11

\* A proxy that is not above a change reaches nothing that changes.
LEMMA Unaffected ==
  ASSUME PxTypeOK, RefsLive, NEW changed \in SUBSET PxProxies,
         NEW p \in PxProxies, pxRow[p].live, p \notin Affected(changed)
  PROVE  \E L \in SUBSET PxProxies :
            /\ p \in L /\ L \cap changed = {}
            /\ \A q \in L : pxRow[q].backup \in L \cup {NoProxy}
<1>1. PICK S \in SUBSET PxProxies : changed \subseteq S /\ ClosedAbove(S) /\ p \notin S
  BY DEF Affected
<1> DEFINE L == {q \in PxProxies : pxRow[q].live /\ q \notin S}
<1>2. p \in L /\ L \cap changed = {} /\ L \in SUBSET PxProxies
  BY <1>1
<1>3. \A q \in L : pxRow[q].backup \in L \cup {NoProxy}
  BY <1>1 DEF ClosedAbove, RefsLive, LiveOrNone
<1> QED
  BY <1>2, <1>3

\* What a transaction checks holds when it has checked it.
LEMMA ChecksPass ==
  ASSUME PxTypeOK, NoneCycles(pxRow), NEW op \in PxOps
  PROVE  Checked(op)
<1>1. CASE op \in SaveProxyOps
  <2>1. op \in [op : {"save"}, proxy : PxProxies, row : PxRow, renew : BOOLEAN]
    BY <1>1 DEF SaveProxyOps
  <2> PICK p \in PxProxies, row \in PxRow : op.proxy = p /\ op.row = row
    BY <2>1
  <2>2. row.live /\ SoundChain(p, row.backup)
    <3>1. pxRow[p].live /\ row \in ProxyEdits(p) /\ SoundChain(p, row.backup)
      BY <1>1 DEF SaveProxyOps
    <3> PICK old : old = pxRow[p]
      OBVIOUS
    <3>2. old \in PxRow /\ old.live
      BY <3>1 DEF PxTypeOK
    <3>3. \A mode : row = [old EXCEPT !.mode = mode] => row.live
      BY <3>2 DEF PxRow
    <3>4. /\ \A backup : row = [old EXCEPT !.mode = "proxy", !.backup = backup] => row.live
          /\ \A st : row = [old EXCEPT !.status = st] => row.live
      BY <3>2 DEF PxRow
    <3>5. \/ \E mode : row = [old EXCEPT !.mode = mode]
          \/ \E backup : row = [old EXCEPT !.mode = "proxy", !.backup = backup]
          \/ \E st : row = [old EXCEPT !.status = st]
      BY <3>1, Zenon DEF ProxyEdits
    <3> QED
      BY <3>1, <3>3, <3>4, <3>5, Zenon
  <2>3. LiveOrNone(row.backup)
    <3>1. ChainWalk(row.backup)[0] = row.backup /\ row.backup \in PxProxies \cup {NoProxy}
      BY ChainWalkStep DEF PxRow
    <3>2. 0 \in 0..PxDepth - 1
      BY PxAssumption
    <3> QED
      BY <2>2, <3>1, <3>2 DEF SoundChain, LiveOrNone
  <2>4. NoneCycles([pxRow EXCEPT ![p] = row])
    <3> SUFFICES ASSUME NEW C \in SUBSET PxProxies, CyclesIn(C, [pxRow EXCEPT ![p] = row]) PROVE C = {}
      BY DEF NoneCycles
    <3>1. p \notin C
      BY <2>2, ChainLeaves
    <3>2. CyclesIn(C, pxRow)
      BY <3>1 DEF CyclesIn, PxTypeOK
    <3> QED
      BY <3>2 DEF NoneCycles
  <2> QED
    BY <2>1, <2>2, <2>3, <2>4 DEF Checked, SaveChecked
<1>2. CASE op \in CreateProxyOps
  <2>1. op \in [op : {"save"}, proxy : PxProxies, row : PxRow, renew : BOOLEAN]
    BY <1>2 DEF CreateProxyOps
  <2>2. op.row.live /\ op.row.mode = "none" /\ op.row.backup = NoProxy
    BY <1>2 DEF CreateProxyOps
  <2> PICK p \in PxProxies, row \in PxRow : op.proxy = p /\ op.row = row
    BY <2>1
  <2>3. NoneCycles([pxRow EXCEPT ![p] = row])
    <3> SUFFICES ASSUME NEW C \in SUBSET PxProxies, CyclesIn(C, [pxRow EXCEPT ![p] = row]) PROVE C = {}
      BY DEF NoneCycles
    <3>1. p \notin C
      BY <2>2 DEF CyclesIn, PxTypeOK
    <3>2. CyclesIn(C, pxRow)
      BY <3>1 DEF CyclesIn, PxTypeOK
    <3> QED
      BY <3>2 DEF NoneCycles
  <2> QED
    BY <2>1, <2>2, <2>3 DEF Checked, SaveChecked, LiveOrNone
<1>3. CASE op \in DeleteProxyOps
  BY <1>3 DEF DeleteProxyOps, Checked, DeleteChecked
<1>4. CASE op \in AssignOps
  BY <1>4 DEF AssignOps, Checked, AssignChecked, LiveOrNone
<1>5. CASE op \in SearchOps
  BY <1>5 DEF SearchOps, Checked, SearchChecked, LiveOrNone
<1>6. CASE op \in RevertOps
  BY <1>6 DEF RevertOps, Checked, RevertChecked
<1>7. CASE op \in ExpireOps
  <2>1. PICK d \in SUBSET PxProxies : op = [op |-> "expire", route |-> [p \in d |-> ResolveProxy(p)]]
    BY <1>7 DEF ExpireOps, Overdue
  <2>2. \A p \in d : ResolveProxy(p) = Unroutable \/ LiveOrNone(ResolveProxy(p))
    BY ResolvesToLive
  <2>3. op.op = "expire" /\ op.route = [p \in d |-> ResolveProxy(p)]
    BY <2>1
  <2> QED
    BY <2>2, <2>3 DEF Checked, ExpireChecked
<1> QED
  BY <1>1, <1>2, <1>3, <1>4, <1>5, <1>6, <1>7 DEF PxOps

\* What does not take the lock leaves the checks as they were.
UnlockedStep ==
    /\ pxRow \in [PxProxies -> PxRow] /\ pxRow' \in [PxProxies -> PxRow] /\ SameGraph(pxRow, pxRow')
    /\ \A a \in PxAccounts : pxAcct'[a].proxy = pxAcct[a].proxy /\ pxAcct'[a].origin = pxAcct[a].origin
    /\ UNCHANGED <<pxSearch, pxLock, pxTx>>

\* The checks of an open transaction survive what does not take the lock.
LEMMA ChecksKept ==
  ASSUME UnlockedStep, NEW op, Checked(op)
  PROVE  Checked(op)'
<1>1. \A p : LiveOrNone(p) => LiveOrNone(p)'
  BY DEF UnlockedStep, LiveOrNone, SameGraph
<1>2. CASE SaveChecked(op)
  <2> PICK p, row : p = op.proxy /\ row = op.row
    OBVIOUS
  <2>1. p \in PxProxies /\ row \in PxRow
    BY <1>2 DEF SaveChecked
  <2>2. NoneCycles([pxRow' EXCEPT ![p] = row])
    <3> SUFFICES ASSUME NEW C \in SUBSET PxProxies, CyclesIn(C, [pxRow' EXCEPT ![p] = row]) PROVE C = {}
      BY DEF NoneCycles
    <3>1. CyclesIn(C, [pxRow EXCEPT ![p] = row])
      BY <2>1 DEF CyclesIn, UnlockedStep, SameGraph
    <3> QED
      BY <1>2, <3>1 DEF SaveChecked, NoneCycles
  <2> QED
    BY <1>1, <1>2, <2>2 DEF SaveChecked, Checked
<1>3. CASE DeleteChecked(op)
  BY <1>3 DEF DeleteChecked, Checked, ProxyReferenced, UnlockedStep, SameGraph
<1>4. CASE AssignChecked(op) \/ SearchChecked(op)
  BY <1>1, <1>4 DEF AssignChecked, SearchChecked, Checked
<1>5. CASE RevertChecked(op)
  BY <1>5 DEF RevertChecked, Checked, UnlockedStep
<1>6. CASE ExpireChecked(op)
  BY <1>1, <1>6 DEF ExpireChecked, Checked
<1> QED
  BY <1>2, <1>3, <1>4, <1>5, <1>6 DEF Checked

\* Such a step keeps the transactions, the graph and the references.
LEMMA UnlockedKeeps ==
  ASSUME UnlockedStep, NoneCycles(pxRow), RefsLive, PxTxInv
  PROVE  NoneCycles(pxRow)' /\ RefsLive' /\ PxTxInv'
<1>1. NoneCycles(pxRow)'
  BY DEF UnlockedStep, SameGraph, NoneCycles, CyclesIn
<1>2. RefsLive'
  BY DEF UnlockedStep, SameGraph, RefsLive, LiveOrNone
<1>3. PxTxInv'
  <2> SUFFICES ASSUME NEW t \in PxAdmins, pxTx'[t] # PxIdle PROVE pxLock' = t /\ Checked(pxTx[t])'
    BY DEF PxTxInv, PxIdle
  <2> PICK op : op = pxTx[t] /\ op = pxTx'[t]
    BY DEF UnlockedStep
  <2>1. pxLock' = t /\ Checked(op)
    BY DEF UnlockedStep, PxTxInv
  <2>2. Checked(op)'
    BY <2>1, ChecksKept
  <2> QED
    BY <2>1, <2>2
<1> QED
  BY <1>1, <1>2, <1>3

\* Initially nothing is open and the fallbacks are those of the assumption.
LEMMA ProxyInit == PxInit => ProxyInv
<1> SUFFICES ASSUME PxInit PROVE ProxyInv
  OBVIOUS
<1> USE DEF PxInit
<1>1. PxTypeOK
  BY PxAssumption DEF PxTypeOK, PxRow
<1>2. PxShapes
  <2>3. pxEdit \in [PxAdmins -> {PxIdle} \cup PxEdit]
    OBVIOUS
  <2>1. \A a \in PxAccounts : pxAcct[a] = [proxy |-> pxAcct[a].proxy, origin |-> pxAcct[a].origin,
                                         target |-> pxAcct[a].target, shot |-> pxAcct[a].shot]
    OBVIOUS
  <2>2. DOMAIN pxChosen = PxAccounts /\ DOMAIN pxTx = PxAdmins
    BY PxAssumption
  <2> QED
    BY <2>1, <2>2, <2>3 DEF PxShapes
<1>3. NoneCycles(pxRow)
  <2>1. \A p \in PxProxies : pxRow[p].mode = PxFallback[p].mode /\ pxRow[p].backup = PxFallback[p].backup
    OBVIOUS
  <2> QED
    BY <2>1, PxAssumption DEF NoneCycles, CyclesIn
<1>4. RefsLive
  BY PxAssumption DEF RefsLive, LiveOrNone
<1>5. PxTxInv /\ PxEditInv /\ PxProbeInv
  BY DEF PxTxInv, PxEditInv, PxProbeInv
<1>6. PxProbeShape
  BY DEF PxProbeShape
<1>7. ChoiceKept /\ SnapshotFresh
  BY DEF ChoiceKept, SnapshotFresh
<1> QED
  BY <1>1, <1>2, <1>3, <1>4, <1>5, <1>6, <1>7 DEF ProxyInv

\* A transaction begins when none is open, and has checked what it writes.
LEMMA ProxyBeginStep == ASSUME ProxyInv, NEW t \in PxAdmins, ProxyBegin(t) PROVE ProxyInv'
<1> USE DEF ProxyInv
<1>1. UNCHANGED <<pxRow, pxAcct, pxChosen, pxSearch, pxProbe, pxEdit, pxMixed>> /\ pxLock = NoProxy /\ pxLock' = t
  BY DEF ProxyBegin
<1>2. PICK op \in PxOps : pxTx' = [pxTx EXCEPT ![t] = op]
  BY DEF ProxyBegin
<1>3. Checked(op)
  BY ChecksPass
<1>4. Checked(op)'
  BY <1>1, <1>3 DEF Checked, SaveChecked, DeleteChecked, AssignChecked, SearchChecked, RevertChecked, ExpireChecked,
                    LiveOrNone, ProxyReferenced
<1>5. PxTxInv'
  <2>1. \A u \in PxAdmins : pxTx[u] = PxIdle
    BY <1>1, PxAssumption DEF PxTxInv
  <2> QED
    BY <1>1, <1>2, <1>4, <2>1 DEF PxTxInv, PxIdle, PxShapes
<1>6. PxTypeOK'
  BY <1>1, PxAssumption DEF PxTypeOK, ProxyBegin
<1>7. PxShapes' /\ PxProbeShape'
  BY <1>1, <1>2 DEF PxShapes, PxEdit, PxProbeShape, PxIdle
<1>8. NoneCycles(pxRow)' /\ RefsLive' /\ PxEditInv' /\ PxProbeInv' /\ ChoiceKept' /\ SnapshotFresh'
  BY <1>1 DEF RefsLive, LiveOrNone, PxEditInv, PxProbeInv, ChoiceKept, SnapshotFresh, PxIdle, NoShot
<1> QED
  BY <1>5, <1>6, <1>7, <1>8

\* A proxy falls due: its revision stays.
LEMMA ProxyDueStep == ASSUME ProxyInv, NEW p \in PxProxies, ProxyDue(p) PROVE ProxyInv'
<1> USE DEF ProxyInv
<1>1. pxRow' = [pxRow EXCEPT ![p].expires = "past"] /\ pxRow[p].expires = "later"
      /\ UNCHANGED <<pxAcct, pxChosen, pxSearch, pxLock, pxTx, pxProbe, pxEdit, pxMixed, pxEdits>>
  BY DEF ProxyDue
<1>2. pxRow \in [PxProxies -> PxRow] /\ pxRow' \in [PxProxies -> PxRow] /\ SameGraph(pxRow, pxRow')
      /\ \A q \in PxProxies : Revision(pxRow'[q]) = Revision(pxRow[q])
  <2>1. pxRow \in [PxProxies -> PxRow]
    BY DEF PxTypeOK
  <2> PICK old : old = pxRow[p]
    OBVIOUS
  <2> DEFINE new == [old EXCEPT !.expires = "past"]
  <2>2. old \in PxRow
    BY <2>1
  <2>3. new \in PxRow /\ new.live = old.live /\ new.mode = old.mode /\ new.backup = old.backup
    BY <2>2 DEF PxRow
  <2>4. Revision(new) = Revision(old)
    BY <1>1, <2>2 DEF Revision, PxRow
  <2>5. pxRow' = [q \in PxProxies |-> IF q = p THEN new ELSE pxRow[q]]
    BY <1>1, <2>1
  <2> HIDE DEF new
  <2> QED
    BY <2>1, <2>3, <2>4, <2>5 DEF SameGraph
<1>3. UnlockedStep
  BY <1>1, <1>2 DEF UnlockedStep
<1>4. NoneCycles(pxRow)' /\ RefsLive' /\ PxTxInv'
  BY <1>3, UnlockedKeeps
<1>5. PxTypeOK' /\ PxShapes' /\ PxProbeShape' /\ PxEditInv' /\ PxProbeInv' /\ ChoiceKept'
  BY <1>1, <1>2 DEF PxTypeOK, PxShapes, PxProbeShape, PxEditInv, PxProbeInv, ChoiceKept, PxIdle
<1>6. SnapshotFresh'
  <2>1. \A q \in PxProxies \cup {NoProxy} : ProxyVersion(q, pxRow') = ProxyVersion(q, pxRow)
    <3>1. ASSUME NEW q \in PxProxies PROVE ProxyVersion(q, pxRow') = ProxyVersion(q, pxRow)
      <4> PICK old, new : old = pxRow /\ new = pxRow'
        OBVIOUS
      <4>1. old \in [PxProxies -> PxRow] /\ new \in [PxProxies -> PxRow]
            /\ \A r \in PxProxies : old[r].backup \in PxProxies \cup {NoProxy} /\ Revision(new[r]) = Revision(old[r])
        BY <1>2 DEF PxRow
      <4>2. ProxyVersion(q, new) = ProxyVersion(q, old)
        BY <4>1, VersionAgrees
      <4> QED
        BY <4>2
    <3>2. ProxyVersion(NoProxy, pxRow') = ProxyVersion(NoProxy, pxRow)
      BY DEF ProxyVersion
    <3> QED
      BY <3>1, <3>2
  <2> QED
    BY <1>1, <2>1 DEF SnapshotFresh, PxTypeOK, NoShot
<1> QED
  BY <1>4, <1>5, <1>6

\* Loading an account, or the rows of its chain, writes nothing else.
LEMMA ProxyLoadStep ==
  ASSUME ProxyInv,
         (\E t \in PxAdmins, a \in PxAccounts : LoadEdit(t, a)) \/ (\E a \in PxAccounts : LoadProbe(a)) \/ MeasureProbe
  PROVE  ProxyInv'
<1> USE DEF ProxyInv
<1>1. UNCHANGED <<pxRow, pxAcct, pxChosen, pxSearch, pxLock, pxTx, pxMixed>>
  BY DEF LoadEdit, LoadProbe, MeasureProbe
<1>2. NoneCycles(pxRow)' /\ RefsLive' /\ ChoiceKept' /\ SnapshotFresh' /\ PxTypeOK'
  BY <1>1, PxAssumption DEF RefsLive, LiveOrNone, ChoiceKept, SnapshotFresh, NoShot, PxTypeOK, LoadEdit, LoadProbe, MeasureProbe
<1>3. PxTxInv'
  <2>1. UnlockedStep
    BY <1>1 DEF UnlockedStep, SameGraph, PxTypeOK
  <2> QED
    BY <2>1, UnlockedKeeps
<1>4. CASE \E t \in PxAdmins, a \in PxAccounts : LoadEdit(t, a)
  <2>1. PICK t \in PxAdmins, a \in PxAccounts, new \in PxTargets :
          pxEdit' = [pxEdit EXCEPT ![t] = [op |-> "edit", acct |-> a, new |-> new, crossed |-> FALSE,
                                           drop |-> new # pxAcct[a].target]] /\ pxProbe' = pxProbe
    BY <1>4 DEF LoadEdit
  <2> DEFINE e == [op |-> "edit", acct |-> a, new |-> new, crossed |-> FALSE, drop |-> new # pxAcct[a].target]
  <2>2. e \in PxEdit /\ e.acct = a /\ e.new = new /\ e.drop = (new # pxAcct[a].target)
    BY DEF PxEdit
  <2> HIDE DEF e
  <2>3. pxEdit' \in [PxAdmins -> {PxIdle} \cup PxEdit] /\ pxEdit'[t] = e /\ \A u \in PxAdmins \ {t} : pxEdit'[u] = pxEdit[u]
    BY <2>1, <2>2 DEF PxShapes, e
  <2>4. PxEditInv'
    BY <1>1, <2>2, <2>3 DEF PxEditInv, PxIdle
  <2>5. PxProbeInv' /\ PxProbeShape'
    BY <1>1, <2>1 DEF PxProbeInv, PxProbeShape, PxIdle
  <2>6. PxShapes'
    BY <1>1, <2>3 DEF PxShapes, PxEdit, PxIdle
  <2> QED
    BY <1>2, <1>3, <2>4, <2>5, <2>6
<1>5. CASE \E a \in PxAccounts : LoadProbe(a)
  <2>1. PICK a \in PxAccounts :
          pxProbe' = [op |-> "load", acct |-> a, stale |-> FALSE, proxy |-> pxAcct[a].proxy,
                      target |-> pxAcct[a].target, version |-> NoShot] /\ pxEdit' = pxEdit
    BY <1>5 DEF LoadProbe
  <2>2. PxEditInv' /\ PxProbeInv'
    BY <1>1, <2>1 DEF PxEditInv, PxProbeInv, PxIdle
  <2>3. pxAcct[a].proxy \in PxProxies \cup {NoProxy}
    BY DEF PxTypeOK
  <2>4. PxShapes' /\ PxProbeShape'
    BY <1>1, <2>1, <2>3 DEF PxShapes, PxEdit, PxProbeShape, PxIdle
  <2> QED
    BY <1>2, <1>3, <2>2, <2>4
<1>6. CASE MeasureProbe
  <2> DEFINE v == ProxyVersion(pxProbe.proxy, pxRow)
  <2>1. pxProbe.op = "load" /\ pxProbe' = [pxProbe EXCEPT !.op = "sent", !.version = v] /\ pxEdit' = pxEdit
    BY <1>6 DEF MeasureProbe
  <2> HIDE DEF v
  <2>2. pxProbe # PxIdle
    BY <2>1 DEF PxIdle
  <2>3. pxProbe' = [op |-> "sent", acct |-> pxProbe.acct, stale |-> pxProbe.stale, proxy |-> pxProbe.proxy,
                    target |-> pxProbe.target, version |-> v]
    BY <2>1, <2>2 DEF PxShapes, PxProbeShape
  <2>4. PxEditInv' /\ PxProbeInv'
    BY <1>1, <2>1, <2>2, <2>3 DEF PxEditInv, PxProbeInv
  <2>5. PxShapes' /\ PxProbeShape'
    BY <1>1, <2>1, <2>2, <2>3 DEF PxShapes, PxEdit, PxProbeShape, PxIdle
  <2> QED
    BY <1>2, <1>3, <2>4, <2>5
<1> QED
  BY <1>4, <1>5, <1>6

\* The probe of an account that is written knows it.
LEMMA Touched ==
  ASSUME PxProbeShape, NEW A, ProxyTouch(A)
  PROVE  /\ pxProbe' = PxIdle <=> pxProbe = PxIdle
         /\ pxProbe # PxIdle =>
               /\ pxProbe' = [op |-> pxProbe.op, acct |-> pxProbe.acct, stale |-> pxProbe'.stale, proxy |-> pxProbe.proxy,
                              target |-> pxProbe.target, version |-> pxProbe.version]
               /\ pxProbe'.stale = (pxProbe.acct \in A \/ pxProbe.stale)
<1>1. CASE pxProbe = PxIdle
  BY <1>1 DEF ProxyTouch
<1>2. CASE pxProbe # PxIdle
  <2>1. pxProbe = [op |-> pxProbe.op, acct |-> pxProbe.acct, stale |-> pxProbe.stale, proxy |-> pxProbe.proxy,
                   target |-> pxProbe.target, version |-> pxProbe.version]
        /\ pxProbe.stale \in BOOLEAN /\ pxProbe.op \in {"load", "sent"}
    BY <1>2 DEF PxProbeShape
  <2>2. CASE pxProbe.acct \in A
    <3>1. pxProbe' = [pxProbe EXCEPT !.stale = TRUE]
      BY <1>2, <2>2 DEF ProxyTouch
    <3>2. pxProbe' = [op |-> pxProbe.op, acct |-> pxProbe.acct, stale |-> TRUE, proxy |-> pxProbe.proxy,
                      target |-> pxProbe.target, version |-> pxProbe.version]
      BY <2>1, <3>1
    <3>3. pxProbe' # PxIdle
      BY <2>1, <3>2 DEF PxIdle
    <3> QED
      BY <1>2, <2>2, <3>2, <3>3
  <2>3. CASE pxProbe.acct \notin A
    <3>1. pxProbe' = pxProbe
      BY <2>3 DEF ProxyTouch
    <3> QED
      BY <1>2, <2>1, <2>3, <3>1
  <2> QED
    BY <2>2, <2>3
<1> QED
  BY <1>1, <1>2

\* A step that touches what it writes keeps the probe sound.
LEMMA ProbeKept ==
  ASSUME PxProbeShape, PxProbeInv, NEW A, ProxyTouch(A),
         \A a \in PxAccounts \ A : pxAcct'[a].proxy = pxAcct[a].proxy /\ pxAcct'[a].target = pxAcct[a].target
  PROVE  PxProbeShape' /\ PxProbeInv'
<1>1. CASE pxProbe = PxIdle
  BY <1>1, Touched DEF PxProbeShape, PxProbeInv, PxIdle
<1>2. CASE pxProbe # PxIdle
  <2>1. /\ pxProbe' = [op |-> pxProbe.op, acct |-> pxProbe.acct, stale |-> pxProbe'.stale, proxy |-> pxProbe.proxy,
                       target |-> pxProbe.target, version |-> pxProbe.version]
        /\ pxProbe'.stale = (pxProbe.acct \in A \/ pxProbe.stale)
    BY <1>2, Touched
  <2>2. pxProbe.op \in {"load", "sent"} /\ pxProbe.acct \in PxAccounts /\ pxProbe.stale \in BOOLEAN
        /\ pxProbe.proxy \in PxProxies \cup {NoProxy}
    BY <1>2 DEF PxProbeShape
  <2>3. /\ pxProbe'.op = pxProbe.op /\ pxProbe'.acct = pxProbe.acct /\ pxProbe'.proxy = pxProbe.proxy
        /\ pxProbe'.target = pxProbe.target /\ pxProbe'.version = pxProbe.version /\ pxProbe'.stale \in BOOLEAN
    BY <2>1, <2>2
  <2>4. PxProbeShape'
    BY <2>1, <2>2, <2>3 DEF PxProbeShape
  <2>5. PxProbeInv'
    BY <1>2, <2>1, <2>2, <2>3 DEF PxProbeInv
  <2> QED
    BY <2>4, <2>5
<1> QED
  BY <1>1, <1>2

\* References to proxies keep their type when they are kept.
LEMMA TypeKept ==
  ASSUME PxTypeOK, UNCHANGED <<pxRow, pxSearch, pxLock, pxEdits>>, pxMixed' \subseteq PxAccounts,
         \A a \in PxAccounts : pxAcct'[a].proxy = pxAcct[a].proxy /\ pxAcct'[a].origin = pxAcct[a].origin
                              /\ pxChosen'[a] = pxChosen[a]
  PROVE  PxTypeOK'
  BY DEF PxTypeOK

\* An update of an account writes the target it loaded for.
LEMMA WriteEditStep == ASSUME ProxyInv, NEW t \in PxAdmins, WriteEdit(t) PROVE ProxyInv'
<1> USE DEF ProxyInv
<1> PICK b, new, drop, crossed : b = pxEdit[t].acct /\ new = pxEdit[t].new /\ drop = pxEdit[t].drop
                                 /\ crossed = pxEdit[t].crossed
  OBVIOUS
<1>1. /\ pxEdit[t] # PxIdle /\ ProxyTouch({b})
      /\ pxEdit' = [u \in PxAdmins |-> IF u = t THEN PxIdle ELSE Crossed(pxEdit[u], b)]
      /\ pxAcct' = [pxAcct EXCEPT ![b].target = new, ![b].shot = IF drop THEN NoShot ELSE @]
      /\ pxMixed' = IF crossed /\ ~drop THEN pxMixed \cup {b} ELSE pxMixed
      /\ UNCHANGED <<pxRow, pxChosen, pxSearch, pxLock, pxTx, pxEdits>>
  BY DEF WriteEdit
<1>2. b \in PxAccounts /\ (~crossed => drop = (new # pxAcct[b].target))
  <2>1. pxEdit[t] \in PxEdit
    BY <1>1 DEF PxShapes
  <2> QED
    BY <1>1, <2>1 DEF PxEdit, PxEditInv
<1>3. pxAcct' = [a \in PxAccounts |->
                   IF a = b THEN [proxy |-> pxAcct[a].proxy, origin |-> pxAcct[a].origin, target |-> new,
                                  shot |-> IF drop THEN NoShot ELSE pxAcct[a].shot]
                   ELSE pxAcct[a]]
  <2>1. DOMAIN pxAcct = PxAccounts
        /\ pxAcct[b] = [proxy |-> pxAcct[b].proxy, origin |-> pxAcct[b].origin, target |-> pxAcct[b].target, shot |-> pxAcct[b].shot]
    BY <1>2 DEF PxShapes
  <2> PICK old : old = pxAcct[b]
    OBVIOUS
  <2> DEFINE m == [[old EXCEPT !.target = new] EXCEPT !.shot = IF drop THEN NoShot ELSE @]
           y == IF drop THEN NoShot ELSE old.shot
  <2>2. pxAcct' = [pxAcct EXCEPT ![b] = m]
    BY <1>1, <1>2, <2>1
  <2>3. m = [proxy |-> old.proxy, origin |-> old.origin, target |-> new, shot |-> y]
    <3>1. [old EXCEPT !.target = new] = [proxy |-> old.proxy, origin |-> old.origin, target |-> new, shot |-> old.shot]
      BY <2>1
    <3>2. m = [[old EXCEPT !.target = new] EXCEPT !.shot = y]
      BY <3>1
    <3> HIDE DEF m, y
    <3> QED
      BY <3>1, <3>2
  <2> HIDE DEF m
  <2> QED
    BY <1>2, <2>1, <2>2, <2>3
<1>4. \A a \in PxAccounts : /\ pxAcct'[a].proxy = pxAcct[a].proxy /\ pxAcct'[a].origin = pxAcct[a].origin
                            /\ pxAcct'[a].target = IF a = b THEN new ELSE pxAcct[a].target
                            /\ pxAcct'[a].shot = IF a = b /\ drop THEN NoShot ELSE pxAcct[a].shot
  BY <1>3
<1>5. NoneCycles(pxRow)' /\ RefsLive' /\ PxTxInv'
  <2>1. UnlockedStep
    BY <1>1, <1>4 DEF UnlockedStep, SameGraph, PxTypeOK
  <2> QED
    BY <2>1, UnlockedKeeps
<1>6. PxProbeShape' /\ PxProbeInv'
  <2>1. ProxyTouch({b})
    BY <1>1
  <2>2. \A a \in PxAccounts \ {b} : pxAcct'[a].proxy = pxAcct[a].proxy /\ pxAcct'[a].target = pxAcct[a].target
    BY <1>4
  <2> QED
    BY <2>1, <2>2, ProbeKept
<1>10. pxEdit' \in [PxAdmins -> {PxIdle} \cup PxEdit]
       /\ \A u \in PxAdmins : pxEdit'[u] # PxIdle /\ ~pxEdit'[u].crossed => pxEdit'[u] = pxEdit[u] /\ pxEdit[u].acct # b
  <2>1. ASSUME NEW x \in PxEdit, x.acct = b
        PROVE  Crossed(x, b) \in PxEdit /\ Crossed(x, b).crossed
    <3>1. Crossed(x, b) = [x EXCEPT !.crossed = TRUE]
      BY <2>1 DEF Crossed, PxEdit, PxIdle
    <3> QED
      BY <3>1 DEF PxEdit
  <2>2. ASSUME NEW u \in PxAdmins
        PROVE  /\ pxEdit'[u] \in {PxIdle} \cup PxEdit
               /\ pxEdit'[u] # PxIdle /\ ~pxEdit'[u].crossed => pxEdit'[u] = pxEdit[u] /\ pxEdit[u].acct # b
    <3>1. pxEdit[u] \in {PxIdle} \cup PxEdit /\ pxEdit'[u] = IF u = t THEN PxIdle ELSE Crossed(pxEdit[u], b)
      BY <1>1 DEF PxShapes
    <3>2. CASE u = t \/ pxEdit[u] = PxIdle
      BY <3>1, <3>2 DEF Crossed
    <3>3. CASE u # t /\ pxEdit[u] # PxIdle /\ pxEdit[u].acct = b
      BY <2>1, <3>1, <3>3
    <3>4. CASE u # t /\ pxEdit[u] # PxIdle /\ pxEdit[u].acct # b
      BY <3>1, <3>4 DEF Crossed
    <3> QED
      BY <3>2, <3>3, <3>4
  <2>3. pxEdit' = [u \in PxAdmins |-> pxEdit'[u]]
    BY <1>1
  <2> QED
    BY <2>2, <2>3
<1>7. PxTypeOK' /\ ChoiceKept' /\ PxEditInv'
  <2>1. \A a \in PxAccounts : pxAcct'[a].proxy = pxAcct[a].proxy /\ pxAcct'[a].origin = pxAcct[a].origin
                              /\ pxChosen'[a] = pxChosen[a]
    BY <1>1, <1>4
  <2>4. pxMixed' \subseteq PxAccounts
    BY <1>1, <1>2 DEF PxTypeOK
  <2>3. PxTypeOK'
    BY <1>1, <2>1, <2>4, TypeKept
  <2>2. ChoiceKept'
    BY <1>1, <1>4, ZenonT(40) DEF ChoiceKept
  <2>5. PxEditInv'
    <3> SUFFICES ASSUME NEW u \in PxAdmins, pxEdit'[u] # PxIdle, ~pxEdit'[u].crossed
                 PROVE  pxEdit'[u].drop = (pxEdit'[u].new # pxAcct'[pxEdit'[u].acct].target)
      BY DEF PxEditInv, PxIdle
    <3>1. pxEdit'[u] = pxEdit[u] /\ pxEdit[u].acct # b /\ pxEdit[u] \in PxEdit
      BY <1>10 DEF PxShapes
    <3>2. pxAcct'[pxEdit[u].acct].target = pxAcct[pxEdit[u].acct].target
      BY <1>4, <3>1 DEF PxEdit
    <3> QED
      BY <3>1, <3>2 DEF PxEditInv
  <2> QED
    BY <2>2, <2>3, <2>5
<1>8. PxShapes'
  <2>1. DOMAIN pxChosen' = PxAccounts /\ DOMAIN pxTx' = PxAdmins
    BY <1>1 DEF PxShapes
  <2>2. pxAcct' = [a \in PxAccounts |-> [proxy |-> pxAcct'[a].proxy, origin |-> pxAcct'[a].origin,
                                         target |-> pxAcct'[a].target, shot |-> pxAcct'[a].shot]]
    <3>2. ASSUME NEW a \in PxAccounts
          PROVE  pxAcct'[a] = [proxy |-> pxAcct'[a].proxy, origin |-> pxAcct'[a].origin,
                               target |-> pxAcct'[a].target, shot |-> pxAcct'[a].shot]
      <4>1. CASE a = b
        BY <1>3, <4>1
      <4>2. CASE a # b
        <5>1. pxAcct'[a] = pxAcct[a]
          BY <1>3, <4>2
        <5> QED
          BY <5>1 DEF PxShapes
      <4> QED
        BY <4>1, <4>2
    <3>3. pxAcct' = [a \in PxAccounts |-> pxAcct'[a]]
      BY <1>3
    <3> QED
      BY <3>2, <3>3
  <2> QED
    BY <1>10, <2>1, <2>2 DEF PxShapes, PxEdit, PxIdle
<1>9. SnapshotFresh'
  <2> SUFFICES ASSUME NEW a \in PxAccounts, pxAcct'[a].shot # NoShot
               PROVE  /\ a \notin pxMixed' => pxAcct'[a].shot.target = pxAcct'[a].target
                      /\ pxAcct'[a].shot.proxy = pxAcct'[a].proxy
                      /\ pxAcct'[a].shot.version = ProxyVersion(pxAcct'[a].proxy, pxRow')
    BY DEF SnapshotFresh, NoShot
  <2>1. pxAcct'[a].shot = pxAcct[a].shot
        /\ (a \notin pxMixed' => a \notin pxMixed /\ pxAcct'[a].target = pxAcct[a].target)
    <3>1. pxMixed' = IF crossed /\ ~drop THEN pxMixed \cup {b} ELSE pxMixed
      BY <1>1
    <3>2. /\ pxAcct'[a].target = IF a = b THEN new ELSE pxAcct[a].target
          /\ pxAcct'[a].shot = IF a = b /\ drop THEN NoShot ELSE pxAcct[a].shot
      BY <1>4
    <3> QED
      BY <1>2, <3>1, <3>2
  <2>2. /\ a \notin pxMixed => pxAcct[a].shot.target = pxAcct[a].target
        /\ pxAcct[a].shot.proxy = pxAcct[a].proxy
        /\ pxAcct[a].shot.version = ProxyVersion(pxAcct[a].proxy, pxRow)
    BY <2>1 DEF SnapshotFresh
  <2> QED
    BY <1>1, <1>4, <2>1, <2>2
<1> QED
  BY <1>5, <1>6, <1>7, <1>8, <1>9

\* A probe writes what it measured where it still holds.
LEMMA WriteProbeStep == ASSUME ProxyInv, WriteProbe PROVE ProxyInv'
<1> USE DEF ProxyInv
<1> DEFINE fresh == ~pxProbe.stale /\ ProxyVersion(pxProbe.proxy, pxRow) = pxProbe.version
           shot == [target |-> pxProbe.target, proxy |-> pxProbe.proxy, version |-> pxProbe.version]
           b == pxProbe.acct
<1>1. /\ pxProbe # PxIdle /\ pxProbe' = PxIdle
      /\ pxAcct' = IF fresh THEN [pxAcct EXCEPT ![b].shot = shot] ELSE pxAcct
      /\ pxMixed' = IF fresh THEN pxMixed \ {b} ELSE pxMixed
      /\ UNCHANGED <<pxRow, pxChosen, pxSearch, pxLock, pxTx, pxEdit, pxEdits>>
  BY DEF WriteProbe, PxIdle
<1>2. b \in PxAccounts /\ (fresh => pxAcct[b].proxy = pxProbe.proxy /\ pxAcct[b].target = pxProbe.target)
  BY <1>1 DEF PxProbeShape, PxProbeInv
<1>3. fresh => shot.target = pxAcct[b].target /\ shot.proxy = pxAcct[b].proxy
               /\ shot.version = ProxyVersion(pxAcct[b].proxy, pxRow)
  BY <1>2
<1> HIDE DEF shot, fresh, b
<1>4. pxAcct' = [a \in PxAccounts |->
                   IF a = b /\ fresh THEN [proxy |-> pxAcct[a].proxy, origin |-> pxAcct[a].origin,
                                           target |-> pxAcct[a].target, shot |-> shot]
                   ELSE pxAcct[a]]
  <2>1. pxAcct = [a \in PxAccounts |-> pxAcct[a]]
        /\ pxAcct[b] = [proxy |-> pxAcct[b].proxy, origin |-> pxAcct[b].origin, target |-> pxAcct[b].target, shot |-> pxAcct[b].shot]
    BY <1>2 DEF PxShapes
  <2> PICK old : old = pxAcct[b]
    OBVIOUS
  <2> DEFINE m == [old EXCEPT !.shot = shot]
  <2>2. fresh => pxAcct' = [pxAcct EXCEPT ![b] = m]
    BY <1>1, <1>2, <2>1
  <2>3. m = [proxy |-> old.proxy, origin |-> old.origin, target |-> old.target, shot |-> shot]
    BY <2>1
  <2> HIDE DEF m
  <2> QED
    BY <1>1, <1>2, <2>1, <2>2, <2>3
<1>5. \A a \in PxAccounts : /\ pxAcct'[a].proxy = pxAcct[a].proxy /\ pxAcct'[a].origin = pxAcct[a].origin
                            /\ pxAcct'[a].target = pxAcct[a].target
                            /\ pxAcct'[a].shot = IF a = b /\ fresh THEN shot ELSE pxAcct[a].shot
  BY <1>4
<1>6. NoneCycles(pxRow)' /\ RefsLive' /\ PxTxInv'
  <2>1. UnlockedStep
    BY <1>1, <1>5 DEF UnlockedStep, SameGraph, PxTypeOK
  <2> QED
    BY <2>1, UnlockedKeeps
<1>7. PxTypeOK' /\ ChoiceKept' /\ PxEditInv' /\ PxProbeInv' /\ PxProbeShape'
  <2>1. pxMixed' \subseteq PxAccounts
    BY <1>1 DEF PxTypeOK
  <2>2. PxTypeOK' /\ ChoiceKept' /\ PxProbeInv' /\ PxProbeShape'
    BY <1>1, <1>5, <2>1, SMTT(30) DEF PxTypeOK, ChoiceKept, PxProbeInv, PxProbeShape
  <2>3. \A u \in PxAdmins : pxEdit[u] # PxIdle => pxEdit[u].acct \in PxAccounts
    BY DEF PxShapes, PxEdit
  <2>4. PxEditInv'
    BY <1>1, <1>5, <2>3, SMTT(30) DEF PxEditInv
  <2> QED
    BY <2>2, <2>4
<1>8. PxShapes'
  <2>1. DOMAIN pxChosen' = PxAccounts /\ DOMAIN pxTx' = PxAdmins /\ pxEdit' \in [PxAdmins -> {PxIdle} \cup PxEdit]
    BY <1>1 DEF PxShapes
  <2>2. pxAcct' = [a \in PxAccounts |-> [proxy |-> pxAcct'[a].proxy, origin |-> pxAcct'[a].origin,
                                         target |-> pxAcct'[a].target, shot |-> pxAcct'[a].shot]]
    BY <1>1, <1>4, ZenonT(40) DEF PxShapes
  <2> QED
    BY <2>1, <2>2 DEF PxShapes, PxEdit, PxIdle
<1>9. SnapshotFresh'
  BY <1>1, <1>2, <1>3, <1>5 DEF SnapshotFresh
<1> QED
  BY <1>6, <1>7, <1>8, <1>9

\* A commit ends the only transaction that is open.
Closes(t) == pxTx' = [pxTx EXCEPT ![t] = PxIdle] /\ pxLock' = NoProxy /\ UNCHANGED <<pxEdit, pxMixed, pxEdits>>

\* After a commit no transaction is open.
LEMMA ClosesAll ==
  ASSUME ProxyInv, NEW t \in PxAdmins, pxTx[t] # PxIdle, Closes(t)
  PROVE  PxTxInv' /\ DOMAIN pxTx' = PxAdmins /\ pxLock' \in PxAdmins \cup {NoProxy} /\ pxEdits' \in 0..PxMaxEdits
<1>1. \A u \in PxAdmins : u # t => pxTx[u] = PxIdle
  BY DEF ProxyInv, PxTxInv
<1>2. \A u \in PxAdmins : pxTx'[u] = PxIdle
  BY <1>1 DEF Closes, ProxyInv, PxShapes
<1>3. PxTxInv'
  BY <1>2 DEF PxTxInv, PxIdle
<1> QED
  BY <1>3 DEF Closes, ProxyInv, PxShapes, PxTypeOK

\* Saving the search configuration.
LEMMA SearchStep ==
  ASSUME ProxyInv, NEW t \in PxAdmins, pxTx[t] # PxIdle, Closes(t), NEW op, SearchChecked(op),
         pxSearch' = op.proxy, UNCHANGED <<pxRow, pxAcct, pxChosen, pxProbe>>
  PROVE  ProxyInv'
<1> USE DEF ProxyInv
<1>1. PxTxInv' /\ DOMAIN pxTx' = PxAdmins /\ pxLock' \in PxAdmins \cup {NoProxy} /\ pxEdits' \in 0..PxMaxEdits
      /\ pxEdit' = pxEdit /\ pxMixed' = pxMixed
  BY ClosesAll DEF Closes
<1>2. PxTypeOK'
  BY <1>1 DEF PxTypeOK, SearchChecked, LiveOrNone
<1>3. PxShapes' /\ PxProbeShape'
  BY <1>1 DEF PxShapes, PxEdit, PxProbeShape, PxIdle
<1>4. NoneCycles(pxRow)' /\ RefsLive'
  BY DEF RefsLive, SearchChecked, LiveOrNone
<1>5. PxEditInv' /\ PxProbeInv' /\ ChoiceKept' /\ SnapshotFresh'
  BY <1>1 DEF PxEditInv, PxProbeInv, ChoiceKept, SnapshotFresh, PxIdle, NoShot
<1> QED
  BY <1>1, <1>2, <1>3, <1>4, <1>5

\* Choosing a proxy for an account, or going back to the one it came from.
LEMMA AccountStep ==
  ASSUME ProxyInv, NEW t \in PxAdmins, pxTx[t] # PxIdle, Closes(t), NEW op,
         AssignChecked(op) \/ RevertChecked(op), WriteAccount(op)
  PROVE  ProxyInv'
<1> USE DEF ProxyInv
<1> PICK b, proxy : b = op.acct /\ proxy = (IF op.op = "assign" THEN op.proxy ELSE pxAcct[b].origin)
  OBVIOUS
<1>1. /\ pxAcct' = [pxAcct EXCEPT ![b].proxy = proxy, ![b].origin = NoProxy, ![b].shot = NoShot]
      /\ pxChosen' = [pxChosen EXCEPT ![b] = IF op.op = "assign" THEN proxy ELSE @]
      /\ ProxyTouch({b}) /\ UNCHANGED <<pxRow, pxSearch>>
  BY DEF WriteAccount
<1>2. b \in PxAccounts /\ LiveOrNone(proxy) /\ (op.op # "assign" => pxAcct[b].origin # NoProxy /\ proxy = pxAcct[b].origin)
  BY DEF AssignChecked, RevertChecked, RefsLive
<1>3. PxTxInv' /\ DOMAIN pxTx' = PxAdmins /\ pxLock' \in PxAdmins \cup {NoProxy} /\ pxEdits' \in 0..PxMaxEdits
      /\ pxEdit' = pxEdit /\ pxMixed' = pxMixed
  BY ClosesAll DEF Closes
<1>4. pxAcct' = [a \in PxAccounts |->
                   IF a = b THEN [proxy |-> proxy, origin |-> NoProxy, target |-> pxAcct[a].target, shot |-> NoShot]
                   ELSE pxAcct[a]]
  <2>1. pxAcct = [a \in PxAccounts |-> pxAcct[a]]
        /\ pxAcct[b] = [proxy |-> pxAcct[b].proxy, origin |-> pxAcct[b].origin, target |-> pxAcct[b].target, shot |-> pxAcct[b].shot]
    BY <1>2 DEF PxShapes
  <2> PICK old : old = pxAcct[b]
    OBVIOUS
  <2> DEFINE m == [[[old EXCEPT !.proxy = proxy] EXCEPT !.origin = NoProxy] EXCEPT !.shot = NoShot]
  <2>2. pxAcct' = [pxAcct EXCEPT ![b] = m]
    BY <1>1, <1>2, <2>1
  <2>3. m = [proxy |-> proxy, origin |-> NoProxy, target |-> old.target, shot |-> NoShot]
    <3> DEFINE one == [old EXCEPT !.proxy = proxy]
               two == [one EXCEPT !.origin = NoProxy]
    <3>1. one = [proxy |-> proxy, origin |-> old.origin, target |-> old.target, shot |-> old.shot]
      BY <2>1
    <3>2. m = [two EXCEPT !.shot = NoShot]
      OBVIOUS
    <3> HIDE DEF one, m
    <3>3. two = [proxy |-> proxy, origin |-> NoProxy, target |-> old.target, shot |-> old.shot]
      BY <3>1
    <3> HIDE DEF two
    <3> QED
      BY <3>2, <3>3
  <2> HIDE DEF m
  <2> QED
    BY <1>2, <2>1, <2>2, <2>3
<1>5. /\ \A a \in PxAccounts \ {b} : pxAcct'[a] = pxAcct[a] /\ pxChosen'[a] = pxChosen[a]
      /\ pxAcct'[b].proxy = proxy /\ pxAcct'[b].origin = NoProxy /\ pxAcct'[b].target = pxAcct[b].target
      /\ pxAcct'[b].shot = NoShot
  BY <1>1, <1>2, <1>4, SMTT(30)
<1>6. pxChosen'[b] = IF op.op = "assign" THEN proxy ELSE pxChosen[b]
  BY <1>1, <1>2 DEF PxShapes
<1>7. ChoiceKept' /\ pxChosen'[b] = proxy
  <2>1. pxChosen'[b] = proxy
    BY <1>2, <1>6 DEF ChoiceKept
  <2> QED
    BY <1>2, <1>5, <2>1 DEF ChoiceKept
<1>8. PxTypeOK'
  <2>1. \A a \in PxAccounts : {pxAcct'[a].proxy, pxAcct'[a].origin, pxChosen'[a]} \subseteq PxProxies \cup {NoProxy}
    BY <1>2, <1>5, <1>7 DEF PxTypeOK, LiveOrNone
  <2>2. pxRow' = pxRow /\ pxSearch' = pxSearch
    BY <1>1
  <2> QED
    BY <1>3, <2>1, <2>2 DEF PxTypeOK
<1>9. PxShapes'
  <2>1. DOMAIN pxChosen' = PxAccounts
    BY <1>1 DEF PxShapes
  <2> QED
    BY <1>3, <1>4, <2>1, SMTT(30) DEF PxShapes
<1>10. NoneCycles(pxRow)' /\ RefsLive'
  <2>1. pxRow' = pxRow /\ pxSearch' = pxSearch
    BY <1>1
  <2> QED
    BY <1>2, <1>5, <2>1, SMTT(30) DEF RefsLive, LiveOrNone
<1>11. PxProbeShape' /\ PxProbeInv'
  BY <1>1, <1>5, ProbeKept
<1>12. PxEditInv'
  BY <1>3, <1>5 DEF PxEditInv, PxShapes, PxEdit
<1>13. SnapshotFresh'
  <2>1. pxRow' = pxRow
    BY <1>1
  <2> QED
    BY <1>3, <1>5, <2>1 DEF SnapshotFresh, NoShot
<1> QED
  BY <1>3, <1>7, <1>8, <1>9, <1>10, <1>11, <1>12, <1>13

\* Cycles depend on the graph alone.
LEMMA CyclesSame ==
  ASSUME NEW rows, NEW others, SameGraph(rows, others), NoneCycles(rows)
  PROVE  NoneCycles(others)
  BY DEF SameGraph, NoneCycles, CyclesIn

\* Snapshots that are kept across a change of rows do not depend on these.
LEMMA SnapshotsAcross ==
  ASSUME PxTypeOK, RefsLive, SnapshotFresh, pxRow' \in [PxProxies -> PxRow], NEW changed \in SUBSET PxProxies,
         \A q \in PxProxies \ changed : pxRow'[q] = pxRow[q], pxMixed' = pxMixed,
         \A a \in PxAccounts : pxAcct'[a].shot # NoShot =>
            /\ a \notin Invalidated(changed) /\ pxAcct'[a].shot = pxAcct[a].shot
            /\ pxAcct'[a].proxy = pxAcct[a].proxy /\ pxAcct'[a].target = pxAcct[a].target
  PROVE  SnapshotFresh'
<1> SUFFICES ASSUME NEW a \in PxAccounts, pxAcct'[a].shot # NoShot
             PROVE  /\ a \notin pxMixed' => pxAcct'[a].shot.target = pxAcct'[a].target
                    /\ pxAcct'[a].shot.proxy = pxAcct'[a].proxy
                    /\ pxAcct'[a].shot.version = ProxyVersion(pxAcct'[a].proxy, pxRow')
  BY DEF SnapshotFresh, NoShot
<1>1. /\ a \notin Invalidated(changed) /\ pxAcct'[a].shot = pxAcct[a].shot
      /\ pxAcct'[a].proxy = pxAcct[a].proxy /\ pxAcct'[a].target = pxAcct[a].target
  OBVIOUS
<1>2. /\ a \notin pxMixed => pxAcct[a].shot.target = pxAcct[a].target
      /\ pxAcct[a].shot.proxy = pxAcct[a].proxy
      /\ pxAcct[a].shot.version = ProxyVersion(pxAcct[a].proxy, pxRow)
  BY <1>1 DEF SnapshotFresh
<1>3. ProxyVersion(pxAcct[a].proxy, pxRow') = ProxyVersion(pxAcct[a].proxy, pxRow)
  <2> PICK p, old, new : p = pxAcct[a].proxy /\ old = pxRow /\ new = pxRow'
    OBVIOUS
  <2>1. CASE p = NoProxy
    BY <2>1 DEF ProxyVersion
  <2>2. CASE p # NoProxy
    <3>1. p \in PxProxies /\ pxRow[p].live /\ p \notin Affected(changed)
      BY <1>1, <2>2 DEF RefsLive, LiveOrNone, Invalidated
    <3>2. PICK L \in SUBSET PxProxies : p \in L /\ L \cap changed = {} /\ \A q \in L : pxRow[q].backup \in L \cup {NoProxy}
      BY <3>1, Unaffected
    <3>3. \A q \in L : old[q].backup \in L \cup {NoProxy} /\ Revision(new[q]) = Revision(old[q])
      BY <3>2
    <3>4. old \in [PxProxies -> PxRow] /\ new \in [PxProxies -> PxRow]
      BY DEF PxTypeOK
    <3>5. ProxyVersion(p, new) = ProxyVersion(p, old)
      BY <3>1, <3>2, <3>3, <3>4, VersionAgrees
    <3> QED
      BY <3>5
  <2> QED
    BY <2>1, <2>2
<1> QED
  BY <1>1, <1>2, <1>3

\* Dropping snapshots leaves the rest of an account.
LEMMA DropsOnly ==
  ASSUME PxShapes, NEW D, pxAcct' = [a \in PxAccounts |-> IF a \in D THEN [pxAcct[a] EXCEPT !.shot = NoShot] ELSE pxAcct[a]]
  PROVE  /\ \A a \in PxAccounts : /\ pxAcct'[a].proxy = pxAcct[a].proxy /\ pxAcct'[a].origin = pxAcct[a].origin
                                  /\ pxAcct'[a].target = pxAcct[a].target
                                  /\ pxAcct'[a].shot = IF a \in D THEN NoShot ELSE pxAcct[a].shot
         /\ pxAcct' = [a \in PxAccounts |-> [proxy |-> pxAcct'[a].proxy, origin |-> pxAcct'[a].origin,
                                             target |-> pxAcct'[a].target, shot |-> pxAcct'[a].shot]]
<1>1. ASSUME NEW a \in PxAccounts
      PROVE  pxAcct'[a] = [proxy |-> pxAcct[a].proxy, origin |-> pxAcct[a].origin, target |-> pxAcct[a].target,
                           shot |-> IF a \in D THEN NoShot ELSE pxAcct[a].shot]
  <2> PICK old : old = pxAcct[a]
    OBVIOUS
  <2>1. old = [proxy |-> old.proxy, origin |-> old.origin, target |-> old.target, shot |-> old.shot]
    BY DEF PxShapes
  <2>2. [old EXCEPT !.shot = NoShot] = [proxy |-> old.proxy, origin |-> old.origin, target |-> old.target, shot |-> NoShot]
    BY <2>1
  <2>3. pxAcct'[a] = IF a \in D THEN [old EXCEPT !.shot = NoShot] ELSE old
    OBVIOUS
  <2> QED
    BY <2>1, <2>2, <2>3
<1>2. \A a \in PxAccounts : /\ pxAcct'[a].proxy = pxAcct[a].proxy /\ pxAcct'[a].origin = pxAcct[a].origin
                            /\ pxAcct'[a].target = pxAcct[a].target
                            /\ pxAcct'[a].shot = IF a \in D THEN NoShot ELSE pxAcct[a].shot
  BY <1>1
<1>3. DOMAIN pxAcct' = PxAccounts
  OBVIOUS
<1> QED
  BY <1>1, <1>2, <1>3

\* What a change of the graph that drops snapshots has to keep.
LEMMA RowsStep ==
  ASSUME ProxyInv, NEW t \in PxAdmins, pxTx[t] # PxIdle, Closes(t), NEW D, ProxyTouch(D),
         pxRow' \in [PxProxies -> PxRow],
         pxAcct' = [a \in PxAccounts |-> IF a \in D THEN [pxAcct[a] EXCEPT !.shot = NoShot] ELSE pxAcct[a]],
         UNCHANGED <<pxChosen, pxSearch>>, RefsLive', NoneCycles(pxRow)', SnapshotFresh'
  PROVE  ProxyInv'
<1> USE DEF ProxyInv
<1>1. PxTxInv' /\ DOMAIN pxTx' = PxAdmins /\ pxLock' \in PxAdmins \cup {NoProxy} /\ pxEdits' \in 0..PxMaxEdits
      /\ pxEdit' = pxEdit /\ pxMixed' = pxMixed
  BY ClosesAll DEF Closes
<1>2. \A a \in PxAccounts : /\ pxAcct'[a].proxy = pxAcct[a].proxy /\ pxAcct'[a].origin = pxAcct[a].origin
                            /\ pxAcct'[a].target = pxAcct[a].target
  BY DropsOnly
<1>3. pxAcct' = [a \in PxAccounts |-> [proxy |-> pxAcct'[a].proxy, origin |-> pxAcct'[a].origin,
                                       target |-> pxAcct'[a].target, shot |-> pxAcct'[a].shot]]
  BY DropsOnly
<1>4. PxShapes'
  BY <1>1, <1>3 DEF PxShapes
<1>5. PxTypeOK'
  <2>1. \A a \in PxAccounts : {pxAcct'[a].proxy, pxAcct'[a].origin, pxChosen'[a]} \subseteq PxProxies \cup {NoProxy}
    BY <1>2 DEF PxTypeOK
  <2> QED
    BY <1>1, <2>1 DEF PxTypeOK
<1>6. PxProbeShape' /\ PxProbeInv'
  BY <1>2, ProbeKept
<1>7. PxEditInv'
  BY <1>1, <1>2 DEF PxEditInv, PxShapes, PxEdit
<1>8. ChoiceKept'
  BY <1>2 DEF ChoiceKept
<1> QED
  BY <1>1, <1>4, <1>5, <1>6, <1>7, <1>8

\* Saving a proxy whose chain was checked.
LEMMA SaveStep ==
  ASSUME ProxyInv, NEW t \in PxAdmins, pxTx[t] # PxIdle, Closes(t), NEW op, SaveChecked(op), WriteProxy(op)
  PROVE  ProxyInv'
<1> USE DEF ProxyInv
<1> PICK p, row, renew : p = op.proxy /\ row = op.row /\ renew = op.renew
  OBVIOUS
<1> DEFINE kept == [row EXCEPT !.expires = IF renew THEN "later" ELSE pxRow[p].expires]
           D == Invalidated({p})
<1>1. p \in PxProxies /\ row \in PxRow /\ renew \in BOOLEAN /\ row.live /\ LiveOrNone(row.backup) /\ op.op = "save"
      /\ NoneCycles([pxRow EXCEPT ![p] = row])
  BY DEF SaveChecked
<1>2. /\ pxRow' = [pxRow EXCEPT ![p] = kept]
      /\ pxAcct' = [a \in PxAccounts |-> IF a \in D THEN [pxAcct[a] EXCEPT !.shot = NoShot] ELSE pxAcct[a]]
      /\ ProxyTouch(D) /\ UNCHANGED <<pxChosen, pxSearch>>
  BY <1>1 DEF WriteProxy, SavedRow
<1>3. kept \in PxRow /\ kept.live = row.live /\ kept.mode = row.mode /\ kept.backup = row.backup
  BY <1>1 DEF PxRow, PxTypeOK
<1> HIDE DEF kept, D
<1>4. pxRow' \in [PxProxies -> PxRow] /\ pxRow'[p] = kept /\ \A q \in PxProxies \ {p} : pxRow'[q] = pxRow[q]
  BY <1>1, <1>2, <1>3 DEF PxTypeOK
<1>5. NoneCycles(pxRow)'
  <2> PICK checked : checked = [pxRow EXCEPT ![p] = row]
    OBVIOUS
  <2>1. \A q \in PxProxies : checked[q] = IF q = p THEN row ELSE pxRow[q]
    BY DEF PxTypeOK
  <2>2. SameGraph(checked, pxRow')
    BY <1>3, <1>4, <2>1 DEF SameGraph
  <2> QED
    BY <1>1, <2>2, CyclesSame
<1>6. \A a \in PxAccounts : /\ pxAcct'[a].proxy = pxAcct[a].proxy /\ pxAcct'[a].origin = pxAcct[a].origin
                            /\ pxAcct'[a].target = pxAcct[a].target
                            /\ pxAcct'[a].shot = IF a \in D THEN NoShot ELSE pxAcct[a].shot
  BY <1>2, DropsOnly
<1>7. RefsLive'
  <2>1. \A x : LiveOrNone(x) => LiveOrNone(x)'
    BY <1>1, <1>3, <1>4 DEF LiveOrNone
  <2>2. \A q \in PxProxies : pxRow'[q].live => LiveOrNone(pxRow'[q].backup)
    BY <1>1, <1>3, <1>4 DEF RefsLive
  <2> QED
    BY <1>2, <1>6, <2>1, <2>2 DEF RefsLive
<1>8. SnapshotFresh'
  <2>1. \A a \in PxAccounts : pxAcct'[a].shot # NoShot => a \notin Invalidated({p}) /\ pxAcct'[a].shot = pxAcct[a].shot
    BY <1>6 DEF D
  <2>2. \A q \in PxProxies \ {p} : pxRow'[q] = pxRow[q]
    BY <1>4
  <2> QED
    BY <1>1, <1>4, <1>6, <2>1, <2>2, SnapshotsAcross DEF Closes
<1> QED
  BY <1>2, <1>4, <1>5, <1>7, <1>8, RowsStep

\* Deleting a proxy that nothing refers to.
LEMMA DeleteStep ==
  ASSUME ProxyInv, NEW t \in PxAdmins, pxTx[t] # PxIdle, Closes(t), NEW op, DeleteChecked(op), WriteProxy(op)
  PROVE  ProxyInv'
<1> USE DEF ProxyInv
<1> PICK p : p = op.proxy
  OBVIOUS
<1> DEFINE gone == [pxRow[p] EXCEPT !.live = FALSE, !.status = "inactive"]
<1>1. p \in PxProxies /\ op.op = "delete" /\ ~ProxyReferenced(p)
  BY DEF DeleteChecked
<1>2. /\ pxRow' = [pxRow EXCEPT ![p] = gone]
      /\ pxAcct' = [a \in PxAccounts |-> IF a \in {} THEN [pxAcct[a] EXCEPT !.shot = NoShot] ELSE pxAcct[a]]
      /\ ProxyTouch({}) /\ UNCHANGED <<pxChosen, pxSearch>>
  <2>1. pxRow' = [pxRow EXCEPT ![p] = [@ EXCEPT !.live = FALSE, !.status = "inactive"]]
    BY <1>1 DEF WriteProxy
  <2> QED
    BY <1>1, <2>1 DEF WriteProxy, PxTypeOK
<1>3. gone \in PxRow /\ ~gone.live
  <2> PICK old : old = pxRow[p]
    OBVIOUS
  <2>1. old \in PxRow
    BY <1>1 DEF PxTypeOK
  <2>2. [old EXCEPT !.live = FALSE, !.status = "inactive"] \in PxRow /\ ~[old EXCEPT !.live = FALSE, !.status = "inactive"].live
    BY <2>1 DEF PxRow
  <2> QED
    BY <2>2
<1> HIDE DEF gone
<1>4. pxRow' \in [PxProxies -> PxRow] /\ pxRow'[p] = gone /\ \A q \in PxProxies \ {p} : pxRow'[q] = pxRow[q]
  BY <1>1, <1>2, <1>3 DEF PxTypeOK
<1>5. NoneCycles(pxRow)'
  <2> SUFFICES ASSUME NEW C \in SUBSET PxProxies, CyclesIn(C, pxRow') PROVE C = {}
    BY DEF NoneCycles
  <2>1. p \notin C
    BY <1>3, <1>4 DEF CyclesIn
  <2>2. CyclesIn(C, pxRow)
    BY <1>4, <2>1 DEF CyclesIn
  <2> QED
    BY <2>2 DEF NoneCycles
<1>6. \A a \in PxAccounts : pxAcct'[a] = pxAcct[a]
  BY <1>2
<1>7. RefsLive'
  <2>1. \A x : LiveOrNone(x) /\ x # p => LiveOrNone(x)'
    BY <1>4 DEF LiveOrNone
  <2>2. ~pxRow'[p].live /\ pxSearch # p /\ \A a \in PxAccounts : pxAcct[a].proxy # p /\ pxAcct[a].origin # p
    BY <1>1, <1>3, <1>4 DEF ProxyReferenced
  <2>3. \A q \in PxProxies : pxRow'[q].live => LiveOrNone(pxRow'[q].backup) /\ pxRow'[q].backup # p
    BY <1>1, <1>4, <2>1, <2>2 DEF RefsLive, ProxyReferenced
  <2> QED
    BY <1>2, <1>6, <2>1, <2>2, <2>3 DEF RefsLive
<1>8. SnapshotFresh'
  <2>1. ClosedAbove({p})
    BY <1>1 DEF ClosedAbove, ProxyReferenced
  <2>2. \A q \in Affected({p}) : q = p
    BY <1>1, <2>1 DEF Affected
  <2>3. Invalidated({p}) = {}
    BY <1>1, <2>2 DEF Invalidated, ProxyReferenced
  <2>4. \A a \in PxAccounts : pxAcct'[a].shot # NoShot =>
            /\ a \notin Invalidated({p}) /\ pxAcct'[a].shot = pxAcct[a].shot
            /\ pxAcct'[a].proxy = pxAcct[a].proxy /\ pxAcct'[a].target = pxAcct[a].target
    BY <1>6, <2>3
  <2>5. \A q \in PxProxies \ {p} : pxRow'[q] = pxRow[q]
    BY <1>4
  <2> QED
    BY <1>1, <1>4, <2>4, <2>5, SnapshotsAcross DEF Closes
<1> QED
  BY <1>2, <1>4, <1>5, <1>7, <1>8, RowsStep

\* The worker expires what is overdue and moves the accounts on it.
LEMMA ExpireStep ==
  ASSUME ProxyInv, NEW t \in PxAdmins, pxTx[t] # PxIdle, Closes(t), NEW op, ExpireChecked(op), WriteExpiry(op)
  PROVE  ProxyInv'
<1> USE DEF ProxyInv
<1> PICK route : route = op.route
  OBVIOUS
<1> DEFINE due == DOMAIN route
           moves == {a \in PxAccounts : pxAcct[a].proxy \in due /\ route[pxAcct[a].proxy] # Unroutable}
           D == Invalidated(due)
           Moved(a) == [pxAcct[a] EXCEPT !.proxy = route[@], !.origin = OriginKept(a), !.shot = NoShot]
           Shotless(a) == [pxAcct[a] EXCEPT !.shot = NoShot]
<1>1. due \in SUBSET PxProxies /\ \A p \in due : route[p] = Unroutable \/ LiveOrNone(route[p])
  BY DEF ExpireChecked
<1>2. /\ pxRow' = [p \in PxProxies |-> IF p \in due THEN [pxRow[p] EXCEPT !.status = "expired"] ELSE pxRow[p]]
      /\ pxAcct' = [a \in PxAccounts |-> IF a \in moves THEN Moved(a) ELSE IF a \in D THEN Shotless(a) ELSE pxAcct[a]]
      /\ ProxyTouch(moves \cup D) /\ UNCHANGED <<pxChosen, pxSearch>>
  BY DEF WriteExpiry
<1>3. PxTxInv' /\ DOMAIN pxTx' = PxAdmins /\ pxLock' \in PxAdmins \cup {NoProxy} /\ pxEdits' \in 0..PxMaxEdits
      /\ pxEdit' = pxEdit /\ pxMixed' = pxMixed
  BY ClosesAll DEF Closes
<1>4. \A a \in moves : /\ a \in PxAccounts /\ LiveOrNone(route[pxAcct[a].proxy])
                       /\ OriginKept(a) # NoProxy /\ LiveOrNone(OriginKept(a)) /\ OriginKept(a) = pxChosen[a]
  BY <1>1, PxAssumption DEF OriginKept, ChoiceKept, RefsLive
<1>5. pxRow' \in [PxProxies -> PxRow] /\ SameGraph(pxRow, pxRow') /\ \A p \in PxProxies \ due : pxRow'[p] = pxRow[p]
  <2>1. ASSUME NEW old \in PxRow
        PROVE  LET new == [old EXCEPT !.status = "expired"]
               IN  new \in PxRow /\ new.live = old.live /\ new.mode = old.mode /\ new.backup = old.backup
    BY DEF PxRow
  <2>2. ASSUME NEW p \in PxProxies
        PROVE  pxRow'[p] \in PxRow /\ pxRow'[p].live = pxRow[p].live /\ pxRow'[p].mode = pxRow[p].mode
               /\ pxRow'[p].backup = pxRow[p].backup
    <3>1. pxRow[p] \in PxRow
      BY DEF PxTypeOK
    <3>2. pxRow'[p] = IF p \in due THEN [pxRow[p] EXCEPT !.status = "expired"] ELSE pxRow[p]
      BY <1>2
    <3> QED
      BY <2>1, <3>1, <3>2
  <2>3. \A p \in PxProxies \ due : pxRow'[p] = pxRow[p]
    BY <1>2
  <2>4. pxRow' = [p \in PxProxies |-> pxRow'[p]]
    BY <1>2
  <2> QED
    BY <2>2, <2>3, <2>4 DEF SameGraph
<1>6. ASSUME NEW a \in PxAccounts
      PROVE  pxAcct'[a] = [proxy |-> IF a \in moves THEN route[pxAcct[a].proxy] ELSE pxAcct[a].proxy,
                           origin |-> IF a \in moves THEN OriginKept(a) ELSE pxAcct[a].origin,
                           target |-> pxAcct[a].target,
                           shot |-> IF a \in moves \cup D THEN NoShot ELSE pxAcct[a].shot]
  <2> PICK old, to, from : old = pxAcct[a] /\ to = route[pxAcct[a].proxy] /\ from = OriginKept(a)
    OBVIOUS
  <2> DEFINE one == [old EXCEPT !.proxy = to]
             two == [one EXCEPT !.origin = from]
             m == [two EXCEPT !.shot = NoShot]
  <2>1. old = [proxy |-> old.proxy, origin |-> old.origin, target |-> old.target, shot |-> old.shot]
    BY DEF PxShapes
  <2>2. Moved(a) = m /\ Shotless(a) = [old EXCEPT !.shot = NoShot]
    OBVIOUS
  <2>3. pxAcct'[a] = IF a \in moves THEN m ELSE IF a \in D THEN [old EXCEPT !.shot = NoShot] ELSE old
    BY <1>2, <2>2
  <2> HIDE DEF moves, D, one
  <2>4. one = [proxy |-> to, origin |-> old.origin, target |-> old.target, shot |-> old.shot]
    BY <2>1 DEF one
  <2> HIDE DEF two
  <2>5. two = [proxy |-> to, origin |-> from, target |-> old.target, shot |-> old.shot]
    BY <2>4 DEF two
  <2> HIDE DEF m
  <2>6. m = [proxy |-> to, origin |-> from, target |-> old.target, shot |-> NoShot]
    BY <2>5 DEF m
  <2>7. [old EXCEPT !.shot = NoShot] = [proxy |-> old.proxy, origin |-> old.origin, target |-> old.target, shot |-> NoShot]
    BY <2>1
  <2>8. CASE a \in moves
    BY <2>3, <2>6, <2>8
  <2>9. CASE a \notin moves /\ a \in D
    BY <2>3, <2>7, <2>9
  <2>10. CASE a \notin moves /\ a \notin D
    BY <2>1, <2>3, <2>10
  <2> QED
    BY <2>8, <2>9, <2>10
<1>7. \A a \in PxAccounts : /\ pxAcct'[a].proxy = IF a \in moves THEN route[pxAcct[a].proxy] ELSE pxAcct[a].proxy
                            /\ pxAcct'[a].origin = IF a \in moves THEN OriginKept(a) ELSE pxAcct[a].origin
                            /\ pxAcct'[a].target = pxAcct[a].target
                            /\ pxAcct'[a].shot = IF a \in moves \cup D THEN NoShot ELSE pxAcct[a].shot
  <2>1. ASSUME NEW x, NEW p, NEW o, NEW g, NEW s, x = [proxy |-> p, origin |-> o, target |-> g, shot |-> s]
        PROVE  x.proxy = p /\ x.origin = o /\ x.target = g /\ x.shot = s
    BY <2>1
  <2> SUFFICES ASSUME NEW a \in PxAccounts
               PROVE  /\ pxAcct'[a].proxy = IF a \in moves THEN route[pxAcct[a].proxy] ELSE pxAcct[a].proxy
                      /\ pxAcct'[a].origin = IF a \in moves THEN OriginKept(a) ELSE pxAcct[a].origin
                      /\ pxAcct'[a].target = pxAcct[a].target
                      /\ pxAcct'[a].shot = IF a \in moves \cup D THEN NoShot ELSE pxAcct[a].shot
    OBVIOUS
  <2> DEFINE p == IF a \in moves THEN route[pxAcct[a].proxy] ELSE pxAcct[a].proxy
             o == IF a \in moves THEN OriginKept(a) ELSE pxAcct[a].origin
             s == IF a \in moves \cup D THEN NoShot ELSE pxAcct[a].shot
  <2>2. pxAcct'[a] = [proxy |-> p, origin |-> o, target |-> pxAcct[a].target, shot |-> s]
    BY <1>6
  <2> HIDE DEF p, o, s
  <2>3. pxAcct'[a].proxy = p /\ pxAcct'[a].origin = o /\ pxAcct'[a].target = pxAcct[a].target /\ pxAcct'[a].shot = s
    BY <2>1, <2>2
  <2> QED
    BY <2>3 DEF p, o, s
<1>8. DOMAIN pxAcct' = PxAccounts
  BY <1>2
<1> HIDE DEF moves, D, due, Moved, Shotless
<1>9. NoneCycles(pxRow)'
  BY <1>5, CyclesSame
<1>10. \A x : LiveOrNone(x) => (x = NoProxy \/ (x \in PxProxies /\ pxRow'[x].live))
  BY <1>5 DEF LiveOrNone, SameGraph
<1>11. RefsLive'
  <2>1. \A a \in PxAccounts : LiveOrNone(pxAcct'[a].proxy) /\ LiveOrNone(pxAcct'[a].origin)
    BY <1>4, <1>7 DEF RefsLive
  <2>2. \A q \in PxProxies : pxRow'[q].live => LiveOrNone(pxRow'[q].backup)
    BY <1>5 DEF RefsLive, SameGraph
  <2>3. LiveOrNone(pxSearch')
    BY <1>2 DEF RefsLive
  <2> QED
    BY <1>10, <2>1, <2>2, <2>3 DEF RefsLive, LiveOrNone
<1>12. PxTypeOK'
  <2>1. \A a \in PxAccounts : {pxAcct'[a].proxy, pxAcct'[a].origin, pxChosen'[a]} \subseteq PxProxies \cup {NoProxy}
    BY <1>2, <1>4, <1>7 DEF PxTypeOK, LiveOrNone
  <2>2. pxSearch' \in PxProxies \cup {NoProxy}
    BY <1>2 DEF PxTypeOK
  <2> QED
    BY <1>3, <1>5, <2>1, <2>2 DEF PxTypeOK
<1>13. PxShapes'
  <2>1. pxAcct' = [a \in PxAccounts |-> [proxy |-> pxAcct'[a].proxy, origin |-> pxAcct'[a].origin,
                                         target |-> pxAcct'[a].target, shot |-> pxAcct'[a].shot]]
    BY <1>2, <1>6, <1>7
  <2>2. DOMAIN pxChosen' = PxAccounts
    BY <1>2 DEF PxShapes
  <2> QED
    BY <1>3, <2>1, <2>2 DEF PxShapes
<1>14. PxProbeShape' /\ PxProbeInv'
  <2>1. \A a \in PxAccounts \ (moves \cup D) : pxAcct'[a].proxy = pxAcct[a].proxy /\ pxAcct'[a].target = pxAcct[a].target
    BY <1>7
  <2> QED
    BY <1>2, <2>1, ProbeKept
<1>15. PxEditInv'
  BY <1>3, <1>7 DEF PxEditInv, PxShapes, PxEdit
<1>16. ChoiceKept'
  <2>1. pxChosen' = pxChosen
    BY <1>2
  <2> QED
    BY <1>4, <1>7, <2>1 DEF ChoiceKept
<1>17. SnapshotFresh'
  <2>1. \A a \in PxAccounts : pxAcct'[a].shot # NoShot =>
            /\ a \notin Invalidated(due) /\ pxAcct'[a].shot = pxAcct[a].shot
            /\ pxAcct'[a].proxy = pxAcct[a].proxy /\ pxAcct'[a].target = pxAcct[a].target
    BY <1>7 DEF D
  <2> QED
    BY <1>1, <1>3, <1>5, <2>1, SnapshotsAcross
<1> QED
  BY <1>3, <1>9, <1>11, <1>12, <1>13, <1>14, <1>15, <1>16, <1>17

\* What a transaction checked is what its commit writes.
LEMMA ProxyCommitStep == ASSUME ProxyInv, NEW t \in PxAdmins, ProxyCommit(t) PROVE ProxyInv'
<1> PICK op : op = pxTx[t]
  OBVIOUS
<1>1. /\ op # PxIdle /\ Closes(t) /\ Checked(op)
      /\ op.op \in {"save", "delete"} => WriteProxy(op)
      /\ op.op \in {"assign", "revert"} => WriteAccount(op)
      /\ op.op = "expire" => WriteExpiry(op)
      /\ op.op = "search" => pxSearch' = op.proxy /\ UNCHANGED <<pxRow, pxAcct, pxChosen, pxProbe>>
  BY DEF ProxyCommit, Closes, ProxyInv, PxTxInv
<1>2. CASE SaveChecked(op)
  BY <1>1, <1>2, SaveStep DEF SaveChecked
<1>3. CASE DeleteChecked(op)
  BY <1>1, <1>3, DeleteStep DEF DeleteChecked
<1>4. CASE AssignChecked(op) \/ RevertChecked(op)
  BY <1>1, <1>4, AccountStep DEF AssignChecked, RevertChecked
<1>5. CASE SearchChecked(op)
  BY <1>1, <1>5, SearchStep DEF SearchChecked
<1>6. CASE ExpireChecked(op)
  BY <1>1, <1>6, ExpireStep DEF ExpireChecked
<1> QED
  BY <1>1, <1>2, <1>3, <1>4, <1>5, <1>6 DEF Checked

\* Every step keeps the invariant.
LEMMA ProxyStep == ProxyInv /\ [ProxyNext]_pxVars => ProxyInv'
<1> SUFFICES ASSUME ProxyInv, [ProxyNext]_pxVars PROVE ProxyInv'
  OBVIOUS
<1>1. CASE \E t \in PxAdmins : ProxyBegin(t) \/ ProxyCommit(t)
  BY <1>1, ProxyBeginStep, ProxyCommitStep
<1>2. CASE \E p \in PxProxies : ProxyDue(p)
  BY <1>2, ProxyDueStep
<1>3. CASE (\E t \in PxAdmins, a \in PxAccounts : LoadEdit(t, a)) \/ (\E a \in PxAccounts : LoadProbe(a)) \/ MeasureProbe
  BY <1>3, ProxyLoadStep
<1>4. CASE (\E t \in PxAdmins : WriteEdit(t)) \/ WriteProbe
  BY <1>4, WriteEditStep, WriteProbeStep
<1>5. CASE UNCHANGED pxVars
  <2>1. UNCHANGED <<pxRow, pxAcct, pxChosen, pxSearch, pxLock, pxTx, pxProbe, pxEdit, pxMixed, pxEdits>>
    BY <1>5 DEF pxVars
  <2>2. PxTxInv' /\ RefsLive'
    <3>1. UnlockedStep
      BY <2>1 DEF UnlockedStep, SameGraph, ProxyInv, PxTypeOK
    <3> QED
      BY <3>1, UnlockedKeeps DEF ProxyInv
  <2> QED
    BY <2>1, <2>2 DEF ProxyInv, PxTypeOK, PxShapes, PxEdit, PxProbeShape, PxEditInv, PxProbeInv, ChoiceKept, SnapshotFresh,
                      PxIdle, NoShot
<1> QED
  BY <1>1, <1>2, <1>3, <1>4, <1>5 DEF ProxyNext

\* Where the fallbacks of a proxy lead.
LEMMA FallbacksStep ==
  ASSUME PxTypeOK, NEW p \in PxProxies
  PROVE  /\ FallbacksOf(p)[0] = p
         /\ \A n \in 1..Cardinality(PxProxies) :
              FallbacksOf(p)[n] = IF FallbacksOf(p)[n - 1] = NoProxy \/ ~InForce(FallbacksOf(p)[n - 1]) THEN NoProxy
                                  ELSE pxRow[FallbacksOf(p)[n - 1]].backup
         /\ \A n \in 0..Cardinality(PxProxies) : FallbacksOf(p)[n] \in PxProxies \cup {NoProxy}
<1> DEFINE S == PxProxies \cup {NoProxy}
           s == [x \in S |-> IF x = NoProxy \/ ~InForce(x) THEN NoProxy ELSE pxRow[x].backup]
           m == Cardinality(PxProxies)
           w == FallbacksOf(p)
<1>1. s \in [S -> S]
  BY DEF PxTypeOK, PxRow
<1>2. m \in Nat /\ p \in S
  BY PxAssumption, FS_CardinalityType
<1> HIDE DEF s, m
<1>3. PICK f \in [0..m -> S] : Iterates(f, p, s, m)
  BY <1>1, <1>2, WalkExists
<1>4. f = [n \in 0..m |-> IF n = 0 THEN p ELSE IF f[n - 1] = NoProxy \/ ~InForce(f[n - 1]) THEN NoProxy
                          ELSE pxRow[f[n - 1]].backup]
  <2>1. \A n \in 0..m : n # 0 => s[f[n - 1]] = IF f[n - 1] = NoProxy \/ ~InForce(f[n - 1]) THEN NoProxy
                                               ELSE pxRow[f[n - 1]].backup
    BY <1>2 DEF s
  <2> QED
    BY <1>3, <2>1 DEF Iterates
<1>5. w = [n \in 0..m |-> IF n = 0 THEN p ELSE IF w[n - 1] = NoProxy \/ ~InForce(w[n - 1]) THEN NoProxy
                          ELSE pxRow[w[n - 1]].backup]
  BY <1>4 DEF FallbacksOf, m
<1> HIDE DEF w
<1>6. w[0] = p /\ \A n \in 1..m : w[n] = IF w[n - 1] = NoProxy \/ ~InForce(w[n - 1]) THEN NoProxy ELSE pxRow[w[n - 1]].backup
  BY <1>2, <1>5
<1> DEFINE P == {n \in 0..m : w[n] \in S}
<1>7. 0 \in P
  BY <1>2, <1>6
<1>8. \A n \in 1..m : n - 1 \in P => n \in P
  <2> SUFFICES ASSUME NEW n \in 1..m, n - 1 \in P PROVE n \in P
    OBVIOUS
  <2>1. w[n - 1] \in S /\ n \in 0..m
    BY <1>2
  <2> QED
    BY <1>6, <2>1 DEF PxTypeOK, PxRow
<1> HIDE DEF P
<1>9. 0..m \subseteq P
  BY <1>2, <1>7, <1>8, WalkInduction
<1>10. \A n \in 0..m : w[n] \in S
  BY <1>9 DEF P
<1> QED
  BY <1>6, <1>10 DEF w, m

\* A walk that came back would be a set that the fallbacks stay in.
LEMMA NoneCyclesMeansNoCycle == PxTypeOK /\ NoneCycles(pxRow) => NoFallbackCycle
<1> SUFFICES ASSUME PxTypeOK, NoneCycles(pxRow), NEW p \in PxProxies, NEW n \in 1..Cardinality(PxProxies), FallbacksOf(p)[n] = p
             PROVE  FALSE
  BY DEF NoFallbackCycle
<1> DEFINE m == Cardinality(PxProxies)
           w == FallbacksOf(p)
           C == {w[i] : i \in 0..n - 1}
           \* Nothing is missing, or out of force, before the place n.
           P == {i \in 0..n - 1 : \A j \in 0..n - 1 : j = n - 1 - i => w[j] # NoProxy /\ InForce(w[j])}
<1>1. m \in Nat /\ p # NoProxy
  BY PxAssumption, FS_CardinalityType
<1>2. /\ w[0] = p
      /\ \A i \in 1..m : w[i] = IF w[i - 1] = NoProxy \/ ~InForce(w[i - 1]) THEN NoProxy ELSE pxRow[w[i - 1]].backup
      /\ \A i \in 0..m : w[i] \in PxProxies \cup {NoProxy}
  BY FallbacksStep
<1>3. w[n] = p /\ n \in 1..m
  OBVIOUS
<1> HIDE DEF w, m
<1>4. n \in Nat /\ n - 1 \in Nat /\ 0..n - 1 \subseteq 0..m /\ 1..n \subseteq 1..m
  BY <1>1, <1>3
<1>5. 0 \in P
  <2>1. n \in 1..m /\ w[n] # NoProxy
    BY <1>1, <1>3
  <2>2. w[n - 1] # NoProxy /\ InForce(w[n - 1])
    BY <1>2, <2>1
  <2>3. \A j \in 0..n - 1 : j = n - 1 - 0 => j = n - 1
    BY <1>4
  <2>4. 0 \in 0..n - 1
    BY <1>4
  <2> QED
    BY <2>2, <2>3, <2>4
<1>6. ASSUME NEW i \in 1..n - 1, i - 1 \in P PROVE i \in P
  <2> DEFINE j == n - 1 - i
  <2>1. j \in 0..n - 1 /\ j + 1 \in 1..m /\ j + 1 = n - 1 - (i - 1) /\ (j + 1) - 1 = j /\ i \in 0..n - 1 /\ j + 1 \in 0..n - 1
    BY <1>4
  <2>2. w[j + 1] # NoProxy
    BY <1>6, <2>1
  <2>3. w[j] # NoProxy /\ InForce(w[j])
    BY <1>2, <2>1, <2>2
  <2>4. \A k \in 0..n - 1 : k = n - 1 - i => k = j
    OBVIOUS
  <2> QED
    BY <2>1, <2>3, <2>4
<1> HIDE DEF P
<1>7. 0..n - 1 \subseteq P
  BY <1>4, <1>5, <1>6, WalkInduction
<1>8. ASSUME NEW i \in 0..n - 1 PROVE w[i] \in PxProxies /\ InForce(w[i])
  <2>1. n - 1 - i \in 0..n - 1 /\ n - 1 - (n - 1 - i) = i
    BY <1>4
  <2>2. n - 1 - i \in P
    BY <1>7, <2>1
  <2>3. w[i] # NoProxy /\ InForce(w[i])
    BY <2>1, <2>2 DEF P
  <2> QED
    BY <1>2, <1>4, <2>3
<1>9. ASSUME NEW i \in 0..n - 1 PROVE pxRow[w[i]].backup \in C
  <2>1. i + 1 \in 1..m /\ (i + 1) - 1 = i
    BY <1>4
  <2>2. w[i + 1] = pxRow[w[i]].backup
    BY <1>1, <1>2, <1>8, <2>1, PxAssumption
  <2>3. CASE i + 1 = n
    <3>1. 0 \in 0..n - 1
      BY <1>4
    <3> QED
      BY <1>2, <1>3, <2>2, <2>3, <3>1
  <2>4. CASE i + 1 # n
    <3>1. i + 1 \in 0..n - 1
      BY <1>4, <2>4
    <3> QED
      BY <2>2, <3>1
  <2> QED
    BY <2>3, <2>4
<1>10. C \in SUBSET PxProxies /\ p \in C
  <2>1. 0 \in 0..n - 1
    BY <1>4
  <2> QED
    BY <1>2, <1>8, <2>1
<1>11. CyclesIn(C, pxRow)
  BY <1>8, <1>9 DEF CyclesIn, InForce
<1> HIDE DEF C
<1> QED
  BY <1>10, <1>11 DEF NoneCycles

\* For any proxies, accounts, administrators and length of chains: fallbacks
\* that are in force never form a cycle, what refers to a proxy finds it, an
\* account remembers the proxy chosen for it, and a snapshot it keeps was
\* measured through its proxy as it is now, and at its target unless two edits of
\* the account overlapped (saveProxy, deleteProxy, expireProxies, probeBilling,
\* updateAccount).
THEOREM ProxiesStaySound == ProxySpec => []ProxiesSound
<1>1. ProxyInv => ProxiesSound
  <2> SUFFICES ASSUME ProxyInv PROVE ProxiesSound
    OBVIOUS
  <2>1. PxTypeOK /\ ChoiceKept /\ SnapshotFresh /\ NoFallbackCycle
    BY NoneCyclesMeansNoCycle DEF ProxyInv
  <2>2. NoDanglingProxy
    BY DEF ProxyInv, RefsLive, LiveOrNone, NoDanglingProxy
  <2> QED
    BY <2>1, <2>2 DEF ProxiesSound
<1> QED
  BY <1>1, ProxyInit, ProxyStep, PTL DEF ProxySpec

\* What the composition checks of proxies holds for every instance of it.
THEOREM ProxiesStaySoundTogether == AdminSpec => []ProxiesSound
  BY AdminRunsEach, ProxiesStaySound, PTL

(***************************************************************************)
(* Spending.  Every window of a counter ends at a time (EndOf) that lies   *)
(* behind all that was charged to the counter; a window that is opened     *)
(* after it begins later than all of these, so what the counter holds are  *)
(* the charges since the window began (Holds), whenever they were begun.   *)
(* An account may change between rolling and fixed days: a fixed day that  *)
(* is open (DayOpened) ends before the rolling window that begins with it, *)
(* and where none is, the switch forgets what was charged (spCut).         *)
(***************************************************************************)
SpCharge == [b : Nat, d : Nat, in : SUBSET Windows]
SpSent == [at : {"sent", "settling"}, quota : BOOLEAN, windows : BOOLEAN, account : BOOLEAN, stamp : Nat \cup {NullStart}]
SpResetting == [at : {"reset"}, window : PlatformWindows, now : Nat]

\* A sequence as a function on the first numbers.
Listed(H) == \E n \in Nat : H \in [1..n -> SpCharge]

SpTypeOK ==
    /\ spClock \in Nat /\ spWindow \in [Windows -> [usage : Nat, start : Nat \cup {NullStart}]]
    /\ spLimit \in [Windows -> Nat] /\ spKey \in [quota : Nat, used : Nat, status : {"active", "inactive", "quota_exhausted"}]
    /\ spRow \in BOOLEAN /\ spFixed \in BOOLEAN /\ spReset \in Nat \cup {NullStart} /\ Listed(spHist)
    /\ DOMAIN spReq = SpRequests /\ \A r \in SpRequests : spReq[r] \in {[at |-> "idle"]} \cup SpSent
    /\ spAdmin \in {[at |-> "idle"]} \cup SpResetting

\* What was begun is done later, and nothing is later than now.
SpOrdered ==
    /\ \A i \in DOMAIN spHist : spHist[i].b <= spHist[i].d /\ spHist[i].d <= spClock
    /\ \A r \in SpRequests : spReq[r].at = "settling" => spReq[r].stamp \in Nat /\ spReq[r].stamp <= spClock
    /\ spAdmin.at = "reset" => spAdmin.now <= spClock

\* The charges to w, the time by which they are charged, and the counter that
\* holds those since start, all of them from before its end: but for the first
\* cut charges it misses none that began since floor.
In(w, H) == {i \in DOMAIN H : w \in H[i].in}
TimeOf(w, h) == IF w \in KeyWindows THEN h.b ELSE h.d
Holds(w, H, usage, start, floor, end, cut) ==
    /\ start = NullStart => In(w, H) = {}
    /\ \A i \in In(w, H) : i > cut => TimeOf(w, H[i]) < end
    /\ \E K \in SUBSET In(w, H) : /\ usage = Cardinality(K) /\ \A i \in K : H[i].d >= start
                                  /\ \A i \in In(w, H) \ K : i > cut => H[i].b < floor

FixedDay(w) == w = "accountDay" /\ spFixed
EndOf(w) == IF FixedDay(w) THEN spReset ELSE spWindow[w].start + Length(w)
MidnightStart(x) == \E q \in Nat : x = q * DayTicks
ByMidnight(w) == w \in {"key1d", "key7d", "platformDay"}

\* The window of the account was opened with the fixed day that spReset ends.
DayOpened ==
    /\ spWindow["accountDay"].start # NullStart
    /\ spReset = DayOf(spWindow["accountDay"].start) + DayTicks
Floor(w) == IF w = "accountDay" /\ DayOpened THEN DayOf(spWindow[w].start) ELSE spWindow[w].start

WindowInv(w) ==
    /\ Holds(w, spHist, spWindow[w].usage, spWindow[w].start, Floor(w), EndOf(w), CutOf(w))
    /\ spWindow[w].start # NullStart => spWindow[w].start <= spClock /\ (ByMidnight(w) => MidnightStart(spWindow[w].start))
    /\ w = "accountDay" =>
          /\ spClock < spReset => DayOpened
          /\ spFixed => DayOpened \/ \A i \in In(w, spHist) : ~(i > spCut)
    /\ w \in PlatformWindows /\ ~spRow => In(w, spHist) = {}

SpendingInv == SpTypeOK /\ SpOrdered /\ (\A w \in Windows : WindowInv(w)) /\ NoStuckKey

\* The midnight before t.
LEMMA Midnights ==
  ASSUME NEW t \in Nat
  PROVE  DayOf(t) \in Nat /\ MidnightStart(DayOf(t)) /\ DayOf(t) <= t /\ t < DayOf(t) + DayTicks
<1> DEFINE q == t \div DayTicks
<1>1. DayTicks \in Nat /\ DayTicks > 0
  BY SpAssumption
<1>2. q \in Nat /\ q * DayTicks <= t /\ t < q * DayTicks + DayTicks
  BY <1>1
<1>3. DayOf(t) = q * DayTicks
  BY DEF DayOf
<1> HIDE DEF q
<1>4. q * DayTicks \in Nat
  BY <1>1, <1>2
<1> QED
  BY <1>2, <1>3, <1>4 DEF MidnightStart

\* Midnights are days apart.
LEMMA MidnightsApart ==
  ASSUME NEW x, NEW y, MidnightStart(x), MidnightStart(y), x < y
  PROVE  x + DayTicks <= y
<1>1. DayTicks \in Nat /\ DayTicks > 0
  BY SpAssumption
<1>2. PICK p \in Nat, q \in Nat : x = p * DayTicks /\ y = q * DayTicks
  BY DEF MidnightStart
<1>3. p < q
  <2> SUFFICES ASSUME q <= p PROVE FALSE
    BY <1>2
  <2>1. q * DayTicks <= p * DayTicks
    BY <1>1
  <2> QED
    BY <1>1, <1>2, <2>1
<1>4. (p + 1) * DayTicks <= q * DayTicks
  BY <1>1, <1>3
<1>5. (p + 1) * DayTicks = p * DayTicks + DayTicks
  BY <1>1
<1> QED
  BY <1>1, <1>2, <1>4, <1>5

\* A window of whole days ends at midnight.
LEMMA MidnightEnds ==
  ASSUME NEW x, MidnightStart(x)
  PROVE  x \in Nat /\ MidnightStart(x + DayTicks) /\ MidnightStart(x + LongTicks)
<1>1. DayTicks \in Nat /\ DayTicks > 0 /\ LongTicks \in Nat /\ LongTicks % DayTicks = 0
  BY SpAssumption
<1>2. PICK p \in Nat : x = p * DayTicks
  BY DEF MidnightStart
<1>3. PICK q \in Nat : LongTicks = q * DayTicks
  <2> DEFINE q == LongTicks \div DayTicks
  <2>1. q \in Nat /\ LongTicks = q * DayTicks
    BY <1>1
  <2> QED
    BY <2>1
<1>4. x \in Nat
  BY <1>1, <1>2
<1>5. x + DayTicks = (p + 1) * DayTicks /\ x + LongTicks = (p + q) * DayTicks
  BY <1>1, <1>2, <1>3
<1> QED
  BY <1>4, <1>5 DEF MidnightStart

\* One list is the other and a charge at its end.
Extends(H, more, h) ==
    \E n \in Nat : /\ H \in [1..n -> SpCharge] /\ more \in [1..n + 1 -> SpCharge] /\ h \in SpCharge
                   /\ more[n + 1] = h /\ \A i \in 1..n : more[i] = H[i]

\* The charges to a counter in a longer list.
LEMMA InMore ==
  ASSUME NEW H, NEW more, NEW h, Extends(H, more, h), NEW w
  PROVE  \E n \in Nat : /\ DOMAIN H = 1..n /\ n + 1 \notin In(w, H) /\ more[n + 1] = h
                        /\ \A i \in In(w, H) : more[i] = H[i]
                        /\ In(w, more) = IF w \in h.in THEN In(w, H) \cup {n + 1} ELSE In(w, H)
<1>1. PICK n \in Nat : /\ H \in [1..n -> SpCharge] /\ more \in [1..n + 1 -> SpCharge]
                       /\ more[n + 1] = h /\ \A i \in 1..n : more[i] = H[i]
  BY DEF Extends
<1>2. DOMAIN H = 1..n /\ DOMAIN more = 1..n + 1 /\ n + 1 \notin 1..n /\ 1..n + 1 = 1..n \cup {n + 1}
  BY <1>1
<1>3. In(w, more) = IF w \in h.in THEN In(w, H) \cup {n + 1} ELSE In(w, H)
  BY <1>1, <1>2 DEF In
<1> QED
  BY <1>1, <1>2, <1>3 DEF In

\* Sets of charges are finite.
LEMMA InFinite ==
  ASSUME NEW H, Listed(H), NEW K, K \subseteq DOMAIN H
  PROVE  IsFiniteSet(K) /\ Cardinality(K) \in Nat
<1>1. PICK n \in Nat : DOMAIN H = 1..n
  BY DEF Listed
<1>2. IsFiniteSet(1..n)
  BY FS_Interval
<1> QED
  BY <1>1, <1>2, FS_Subset, FS_CardinalityType

\* A charge in the open window of its counter.
LEMMA HoldsOneMore ==
  ASSUME NEW H, NEW more, NEW h, Extends(H, more, h), NEW w, w \in h.in, NEW u, NEW s \in Nat,
         NEW f, NEW e, NEW cut, Holds(w, H, u, s, f, e, cut), h.d >= s, TimeOf(w, h) < e
  PROVE  Holds(w, more, u + 1, s, f, e, cut)
<1>1. PICK n \in Nat : /\ DOMAIN H = 1..n /\ n + 1 \notin In(w, H) /\ more[n + 1] = h
                       /\ (\A i \in In(w, H) : more[i] = H[i]) /\ In(w, more) = In(w, H) \cup {n + 1}
  BY InMore
<1>2. PICK K \in SUBSET In(w, H) : /\ u = Cardinality(K) /\ \A i \in K : H[i].d >= s
                                   /\ \A i \in In(w, H) \ K : i > cut => H[i].b < f
  BY DEF Holds
<1> DEFINE L == K \cup {n + 1}
<1>3. Cardinality(L) = u + 1
  <2>1. IsFiniteSet(K)
    <3>1. Listed(H)
      BY DEF Extends, Listed
    <3> QED
      BY <3>1, InFinite DEF In
  <2> QED
    BY <1>1, <1>2, <2>1, FS_AddElement
<1>4. L \in SUBSET In(w, more) /\ (\A i \in L : more[i].d >= s) /\ \A i \in In(w, more) \ L : i > cut => more[i].b < f
  BY <1>1, <1>2
<1>5. \A i \in In(w, more) : i > cut => TimeOf(w, more[i]) < e
  BY <1>1 DEF Holds
<1>6. s # NullStart
  BY DEF NullStart
<1> HIDE DEF L
<1> QED
  BY <1>3, <1>4, <1>5, <1>6 DEF Holds

\* A charge that opens a window after all that was charged before.
LEMMA HoldsFirst ==
  ASSUME NEW H, NEW more, NEW h, Extends(H, more, h), NEW w, w \in h.in, NEW s \in Nat, NEW f, NEW e, NEW cut,
         \A i \in In(w, H) : i > cut => H[i].b < f /\ TimeOf(w, H[i]) < e, h.d >= s, TimeOf(w, h) < e
  PROVE  Holds(w, more, 1, s, f, e, cut)
<1>1. PICK n \in Nat : /\ DOMAIN H = 1..n /\ n + 1 \notin In(w, H) /\ more[n + 1] = h
                       /\ (\A i \in In(w, H) : more[i] = H[i]) /\ In(w, more) = In(w, H) \cup {n + 1}
  BY InMore
<1> DEFINE L == {n + 1}
<1>2. Cardinality(L) = 1
  BY FS_Singleton
<1>3. L \in SUBSET In(w, more) /\ (\A i \in L : more[i].d >= s) /\ \A i \in In(w, more) \ L : i > cut => more[i].b < f
  BY <1>1
<1>4. \A i \in In(w, more) : i > cut => TimeOf(w, more[i]) < e
  BY <1>1
<1>5. s # NullStart
  BY DEF NullStart
<1> HIDE DEF L
<1> QED
  BY <1>2, <1>3, <1>4, <1>5 DEF Holds

\* The list tells the same of w.
SameCharges(w, H, others) ==
    In(w, others) = In(w, H) /\ \A i \in In(w, H) : others[i].b = H[i].b /\ others[i].d = H[i].d

\* What a counter holds depends on its own charges alone.
LEMMA HoldsStill ==
  ASSUME NEW w, NEW H, NEW others, SameCharges(w, H, others), NEW u, NEW s, NEW f, NEW e, NEW cut,
         Holds(w, H, u, s, f, e, cut)
  PROVE  Holds(w, others, u, s, f, e, cut)
<1>1. \A i \in In(w, H) : TimeOf(w, others[i]) = TimeOf(w, H[i])
  BY DEF SameCharges, TimeOf
<1> QED
  BY <1>1 DEF SameCharges, Holds

\* A counter without charges is empty.
LEMMA HoldsNone ==
  ASSUME NEW w, NEW H, In(w, H) = {}, NEW s, NEW f, NEW e, NEW cut
  PROVE  Holds(w, H, 0, s, f, e, cut)
<1>1. Cardinality({}) = 0
  BY FS_EmptySet
<1> QED
  BY <1>1 DEF Holds

\* A charge to other counters.
LEMMA OtherCharge ==
  ASSUME NEW H, NEW more, NEW h, Extends(H, more, h), NEW w, w \notin h.in
  PROVE  SameCharges(w, H, more)
  BY InMore DEF SameCharges

\* Forgetting the charges to some counters.
LEMMA Forgotten ==
  ASSUME NEW ws \in SUBSET Windows, SpTypeOK
  PROVE  /\ Listed(Forget(ws)) /\ \A w \in ws : In(w, Forget(ws)) = {}
         /\ \A w \in Windows \ ws : SameCharges(w, spHist, Forget(ws))
         /\ DOMAIN Forget(ws) = DOMAIN spHist
         /\ \A i \in DOMAIN spHist : Forget(ws)[i].b = spHist[i].b /\ Forget(ws)[i].d = spHist[i].d
<1> PICK n \in Nat : spHist \in [1..n -> SpCharge]
  BY DEF SpTypeOK, Listed
<1> DEFINE F == Forget(ws)
<1>1. F = [i \in 1..n |-> [spHist[i] EXCEPT !.in = @ \ ws]]
  BY DEF Forget
<1>2. ASSUME NEW i \in 1..n
      PROVE  F[i] \in SpCharge /\ F[i].b = spHist[i].b /\ F[i].d = spHist[i].d /\ F[i].in = spHist[i].in \ ws
  <2> PICK h : h = spHist[i]
    OBVIOUS
  <2>1. h \in SpCharge
    OBVIOUS
  <2>2. F[i] = [h EXCEPT !.in = @ \ ws]
    BY <1>1
  <2> QED
    BY <2>1, <2>2 DEF SpCharge
<1> HIDE DEF F
<1>3. F \in [1..n -> SpCharge] /\ DOMAIN F = 1..n
  BY <1>1, <1>2
<1>4. \A w \in ws : In(w, F) = {}
  BY <1>2, <1>3 DEF In
<1>5. \A w \in Windows \ ws : SameCharges(w, spHist, F)
  BY <1>2, <1>3 DEF In, SameCharges
<1> QED
  BY <1>2, <1>3, <1>4, <1>5 DEF F, Listed

\* The lengths of windows.
LEMMA Lengths ==
  /\ DayTicks \in Nat /\ DayTicks > 0 /\ DayTicks <= LongTicks
  /\ \A w \in Windows : Length(w) \in Nat /\ Length(w) > 0
  /\ Length("key1d") = DayTicks /\ Length("key7d") = LongTicks /\ Length("platformDay") = DayTicks
<1>1. DayTicks \in Nat /\ DayTicks > 0 /\ LongTicks \in Nat /\ LongTicks > 0 /\ ShortTicks \in Nat /\ ShortTicks > 0
      /\ MonthTicks \in Nat /\ MonthTicks > 0
  BY SpAssumption
<1>2. MidnightStart(0)
  BY <1>1 DEF MidnightStart
<1>3. MidnightStart(LongTicks)
  BY <1>1, <1>2, MidnightEnds
<1>4. DayTicks <= LongTicks
  BY <1>1, <1>2, <1>3, MidnightsApart
<1>5. \A w \in Windows : Length(w) \in Nat /\ Length(w) > 0
  BY <1>1 DEF Windows, KeyWindows, PlatformWindows, Length
<1> QED
  BY <1>1, <1>4, <1>5 DEF Length

\* Where a window that is open ends.
LEMMA EndAfterStart ==
  ASSUME SpendingInv, NEW w \in Windows, spWindow[w].start # NullStart
  PROVE  /\ spWindow[w].start \in Nat /\ EndOf(w) \in Int /\ spWindow[w].start <= spClock
         /\ ByMidnight(w) => MidnightStart(spWindow[w].start) /\ MidnightStart(EndOf(w)) /\ w # "accountDay"
         /\ ~FixedDay(w) => EndOf(w) = spWindow[w].start + Length(w)
         /\ FixedDay(w) => EndOf(w) = spReset /\ (DayOpened \/ \A i \in In(w, spHist) : ~(i > CutOf(w)))
<1> DEFINE s == spWindow[w].start
<1>1. s \in Nat /\ s <= spClock /\ (ByMidnight(w) => MidnightStart(s)) /\ WindowInv(w) /\ spReset \in Nat \cup {NullStart}
  BY DEF SpendingInv, SpTypeOK, WindowInv
<1>2. ByMidnight(w) => w # "accountDay" /\ MidnightStart(s + Length(w))
  BY <1>1, Lengths, MidnightEnds DEF ByMidnight
<1>3. FixedDay(w) => DayOpened \/ \A i \in In(w, spHist) : ~(i > CutOf(w))
  BY <1>1 DEF WindowInv, FixedDay, CutOf
<1>4. NullStart \in Int
  BY DEF NullStart
<1> QED
  BY <1>1, <1>2, <1>3, <1>4, Lengths DEF EndOf, FixedDay

\* The fixed day that a window of the account was opened with.
LEMMA OpenedDay ==
  ASSUME SpendingInv, DayOpened, NEW s, s = spWindow["accountDay"].start
  PROVE  /\ s \in Nat /\ s <= spClock /\ DayOf(s) \in Nat /\ DayOf(s) <= s /\ MidnightStart(DayOf(s))
         /\ spReset = DayOf(s) + DayTicks /\ spReset \in Nat /\ MidnightStart(spReset) /\ s < spReset
         /\ spReset <= s + DayTicks
<1>1. "accountDay" \in Windows
  BY DEF Windows
<1>2. s \in Nat /\ s <= spClock /\ spReset = DayOf(s) + DayTicks
  BY <1>1, EndAfterStart DEF DayOpened
<1>3. DayOf(s) \in Nat /\ DayOf(s) <= s /\ MidnightStart(DayOf(s)) /\ s < DayOf(s) + DayTicks
  BY <1>2, Midnights
<1>4. MidnightStart(DayOf(s) + DayTicks) /\ DayTicks \in Nat
  BY <1>3, MidnightEnds, Lengths
<1> HIDE DEF DayOpened
<1> QED
  BY <1>2, <1>3, <1>4

\* A window is over when its end has come.
LEMMA OverAtEnd ==
  ASSUME SpendingInv, NEW w \in Windows, NEW t \in Nat, w \notin KeyWindows => t = spClock
  PROVE  Over(w, t) <=> spWindow[w].start = NullStart \/ EndOf(w) <= t
<1> DEFINE s == spWindow[w].start
<1>1. s \in Nat \cup {NullStart} /\ spReset \in Nat \cup {NullStart} /\ spClock \in Nat
  BY DEF SpendingInv, SpTypeOK
<1>2. DayOf(t) \in Nat /\ DayOf(t) # NullStart /\ MidnightStart(DayOf(t)) /\ DayOf(t) <= t /\ t < DayOf(t) + DayTicks
  BY Midnights DEF NullStart
<1>3. CASE s = NullStart
  <2>1. FixedDay(w) => ~(spClock < spReset) /\ t = spClock
    BY <1>3 DEF SpendingInv, WindowInv, DayOpened, FixedDay, KeyWindows
  <2>2. FixedDay(w) => Over(w, t)
    BY <1>1, <2>1 DEF Over, FixedDay
  <2> QED
    BY <1>2, <1>3, <2>2 DEF Over, FixedDay
<1>4. CASE s # NullStart /\ w = "platformDay"
  <2>1. s \in Nat /\ s <= spClock /\ MidnightStart(s) /\ EndOf(w) = s + DayTicks /\ t = spClock
    BY <1>4, EndAfterStart, Lengths DEF ByMidnight, FixedDay, KeyWindows
  <2>2. Over(w, t) <=> s # DayOf(t)
    BY <1>4 DEF Over
  <2>3. s < DayOf(t) => s + DayTicks <= DayOf(t)
    BY <1>2, <2>1, MidnightsApart
  <2>4. DayOf(t) < s => DayOf(t) + DayTicks <= s
    BY <1>2, <2>1, MidnightsApart
  <2> QED
    BY <1>2, <1>4, <2>1, <2>2, <2>3, <2>4, Lengths
<1>5. CASE s # NullStart /\ FixedDay(w)
  <2>1. EndOf(w) = spReset /\ NullStart <= t /\ NullStart \in Int
    BY <1>5, EndAfterStart DEF NullStart
  <2> QED
    BY <1>1, <1>5, <2>1 DEF Over, FixedDay
<1>6. CASE s # NullStart /\ w # "platformDay" /\ ~FixedDay(w)
  <2>1. EndOf(w) = s + Length(w)
    BY <1>6, EndAfterStart
  <2> QED
    BY <1>6, <2>1 DEF Over, FixedDay
<1> QED
  BY <1>3, <1>4, <1>5, <1>6

\* A charge keeps its counter exact.
LEMMA WindowCharged ==
  ASSUME SpendingInv, NEW w \in Windows, NEW h, Extends(spHist, spHist', h), w \in h.in,
         h.d = spClock, h.b \in Nat, h.b <= spClock, NEW t, t = (IF w \in KeyWindows THEN h.b ELSE spClock),
         spWindow'[w] = Charged(w, t), UNCHANGED <<spClock, spFixed, spRow, spCut>>, w \in PlatformWindows => spRow,
         w = "accountDay" => spReset' = IF spFixed /\ Over(w, spClock) THEN DayOf(spClock) + DayTicks ELSE spReset
  PROVE  WindowInv(w)'
<1> DEFINE s == spWindow[w].start
<1>1. t \in Nat /\ t <= spClock /\ TimeOf(w, h) = t /\ (w \notin KeyWindows => t = spClock) /\ spClock \in Nat
  BY DEF SpendingInv, SpTypeOK, TimeOf
<1>2. Over(w, t) <=> s = NullStart \/ EndOf(w) <= t
  BY <1>1, OverAtEnd
<1>3. Holds(w, spHist, spWindow[w].usage, s, Floor(w), EndOf(w), CutOf(w)) /\ CutOf(w)' = CutOf(w)
  BY DEF SpendingInv, WindowInv, CutOf
<1>7. w = "accountDay" => (spClock < spReset => DayOpened) /\ t = spClock /\ ~ByMidnight(w) /\ spReset \in Nat \cup {NullStart}
  BY <1>1 DEF SpendingInv, SpTypeOK, WindowInv, KeyWindows, ByMidnight
<1>4. w \in PlatformWindows => spRow'
  OBVIOUS
<1>5. CASE ~Over(w, t)
  <2>1. s # NullStart /\ t < EndOf(w) /\ s \in Nat /\ s <= spClock
    BY <1>1, <1>2, <1>5, EndAfterStart
  <2>2. spWindow'[w] = [usage |-> spWindow[w].usage + 1, start |-> s]
    BY <1>5 DEF Charged
  <2>3. spWindow'[w].usage = spWindow[w].usage + 1 /\ spWindow'[w].start = s
    BY <2>2
  <2>4. w = "accountDay" => spReset' = spReset /\ (DayOpened' <=> DayOpened)
    BY <1>5, <1>7, <2>3 DEF DayOpened
  <2>5. EndOf(w)' = EndOf(w) /\ Floor(w)' = Floor(w)
    BY <2>3, <2>4 DEF EndOf, FixedDay, Floor
  <2>7. FixedDay(w) => DayOpened'
    <3>1. FixedDay(w) => spClock < spReset
      BY <1>7, <2>1 DEF FixedDay, EndOf
    <3> QED
      BY <1>7, <2>4, <3>1 DEF FixedDay
  <2> PICK e, f, cut : e = EndOf(w) /\ f = Floor(w) /\ cut = CutOf(w)
    OBVIOUS
  <2>6. Holds(w, spHist', spWindow[w].usage + 1, s, f, e, cut)
    BY <1>1, <1>3, <2>1, HoldsOneMore
  <2> QED
    <3>1. w = "accountDay" => (spClock < spReset => DayOpened)'
      BY <1>7, <2>4
    <3>2. (ByMidnight(w) => MidnightStart(s)) /\ (w = "accountDay" => (spFixed => DayOpened)')
      BY <2>1, <2>7, EndAfterStart DEF FixedDay
    <3>3. s <= spClock'
      BY <2>1
    <3> HIDE DEF s, DayOpened
    <3> QED
      BY <1>3, <1>4, <2>1, <2>3, <2>5, <2>6, <3>1, <3>2, <3>3 DEF WindowInv
<1>6. CASE Over(w, t)
  <2> DEFINE n == IF ByMidnight(w) THEN DayOf(t) ELSE t
             e == IF FixedDay(w) THEN DayOf(t) + DayTicks ELSE n + Length(w)
             f == IF FixedDay(w) THEN DayOf(t) ELSE n
  <2>1. DayOf(t) \in Nat /\ MidnightStart(DayOf(t)) /\ DayOf(t) <= t /\ t < DayOf(t) + DayTicks
    BY <1>1, Midnights
  <2>2. n \in Nat /\ n <= t /\ (ByMidnight(w) => MidnightStart(n)) /\ n # NullStart
    BY <1>1, <2>1 DEF NullStart
  <2>3. t < e /\ n < e
    <3>1. ByMidnight(w) => ~FixedDay(w) /\ DayTicks <= Length(w) /\ n = DayOf(t)
      BY Lengths DEF ByMidnight, FixedDay
    <3>2. Length(w) \in Nat /\ Length(w) > 0 /\ DayTicks \in Nat
      BY Lengths
    <3>3. ~ByMidnight(w) => n = t
      OBVIOUS
    <3>4. e = IF FixedDay(w) THEN DayOf(t) + DayTicks ELSE n + Length(w)
      OBVIOUS
    <3> HIDE DEF n, e
    <3> QED
      BY <1>1, <2>1, <2>2, <3>1, <3>2, <3>3, <3>4
  <2>4. spWindow'[w] = [usage |-> 1, start |-> n]
    BY <1>6 DEF Charged, ByMidnight
  <2>5. spWindow'[w].usage = 1 /\ spWindow'[w].start = n
    BY <2>4
  <2>6. FixedDay(w) => spReset' = DayOf(t) + DayTicks /\ n = t
    <3>1. FixedDay(w) => t = spClock /\ ~ByMidnight(w) /\ w = "accountDay" /\ spFixed
      BY <1>1 DEF FixedDay, KeyWindows, ByMidnight
    <3> QED
      BY <1>6, <3>1
  <2>7. EndOf(w)' = e
    BY <2>5, <2>6 DEF EndOf, FixedDay
  <2>10. w = "accountDay" => (spClock < spReset => DayOpened)' /\ (spFixed => DayOpened)' /\ (~spFixed => ~DayOpened')
    <3> SUFFICES ASSUME w = "accountDay"
                 PROVE  (spClock < spReset => DayOpened)' /\ (spFixed => DayOpened)' /\ (~spFixed => ~DayOpened')
      OBVIOUS
    <3>1. n = t /\ t = spClock /\ spWindow'["accountDay"].start = t /\ t # NullStart
      BY <1>7, <2>2, <2>5
    <3>2. CASE spFixed
      <4>1. spReset' = DayOf(t) + DayTicks
        BY <2>6, <3>2 DEF FixedDay
      <4> HIDE DEF n, e, f
      <4> QED
        BY <3>1, <3>2, <4>1 DEF DayOpened
    <3>3. CASE ~spFixed
      <4>1. spReset' = spReset
        BY <3>3
      <4>2. ~(spClock < spReset)
        <5> SUFFICES ASSUME spClock < spReset PROVE FALSE
          OBVIOUS
        <5>1. DayOpened /\ s # NullStart
          BY <1>7 DEF DayOpened
        <5>2. EndOf(w) = s + DayTicks /\ EndOf(w) <= t /\ s \in Nat
          BY <1>2, <1>6, <3>3, <5>1, EndAfterStart DEF FixedDay, Length
        <5>3. spReset <= s + DayTicks /\ spReset \in Nat
          BY <5>1, OpenedDay
        <5> QED
          BY <1>1, <3>1, <5>2, <5>3, Lengths
      <4>3. spReset # DayOf(t) + DayTicks
        BY <1>1, <1>7, <2>1, <3>1, <4>2, Lengths
      <4> HIDE DEF n, e, f
      <4> QED
        BY <3>1, <3>3, <4>1, <4>2, <4>3 DEF DayOpened
    <3> QED
      BY <3>2, <3>3
  <2>11. Floor(w)' = f
    <3>1. CASE w = "accountDay"
      <4>1. spFixed' = spFixed /\ spWindow'[w].start = n /\ (FixedDay(w) => n = t) /\ (FixedDay(w) <=> spFixed)
        BY <2>5, <2>6, <3>1 DEF FixedDay
      <4> HIDE DEF n, e, DayOpened
      <4> QED
        BY <2>10, <3>1, <4>1 DEF Floor
    <3>2. CASE w # "accountDay"
      BY <2>5, <3>2 DEF Floor, FixedDay
    <3> QED
      BY <3>1, <3>2
  <2>8. \A i \in In(w, spHist) : i > CutOf(w) => spHist[i].b < f /\ TimeOf(w, spHist[i]) < e
    <3>1. CASE s = NullStart
      BY <1>3, <3>1 DEF Holds
    <3>2. CASE s # NullStart
      <4>0. CASE \A i \in In(w, spHist) : ~(i > CutOf(w))
        BY <4>0
      <4>00. CASE ~\A i \in In(w, spHist) : ~(i > CutOf(w))
        <5>1. EndOf(w) <= t /\ EndOf(w) \in Int
          BY <1>2, <1>6, <3>2, EndAfterStart
        <5>2. ByMidnight(w) \/ FixedDay(w) => MidnightStart(EndOf(w))
          <6>1. FixedDay(w) => EndOf(w) = spReset /\ DayOpened
            BY <3>2, <4>00, EndAfterStart
          <6>2. ByMidnight(w) => MidnightStart(EndOf(w))
            BY <3>2, EndAfterStart
          <6> QED
            BY <6>1, <6>2, OpenedDay
        <5>3. EndOf(w) <= f
          <6>1. (ByMidnight(w) \/ FixedDay(w)) /\ DayOf(t) < EndOf(w) => DayOf(t) + DayTicks <= EndOf(w)
            BY <2>1, <5>2, MidnightsApart
          <6>2. f = IF ByMidnight(w) \/ FixedDay(w) THEN DayOf(t) ELSE t
            OBVIOUS
          <6> HIDE DEF f, n, e
          <6> QED
            BY <1>1, <2>1, <5>1, <6>1, <6>2, Lengths
        <5>4. f \in Nat /\ e \in Nat /\ f <= e
          BY <1>1, <2>1, <2>2, <2>3, Lengths
        <5> HIDE DEF n, e, f
        <5>5. ASSUME NEW i \in In(w, spHist), i > CutOf(w) PROVE spHist[i].b < f /\ TimeOf(w, spHist[i]) < e
          <6>1. TimeOf(w, spHist[i]) < EndOf(w)
            BY <1>3, <5>5 DEF Holds
          <6>2. spHist[i].b \in Nat /\ spHist[i].d \in Nat /\ spHist[i].b <= spHist[i].d
            BY DEF In, SpendingInv, SpTypeOK, Listed, SpOrdered, SpCharge
          <6>3. TimeOf(w, spHist[i]) \in Nat /\ spHist[i].b <= TimeOf(w, spHist[i])
            BY <6>2 DEF TimeOf
          <6> QED
            BY <5>1, <5>3, <5>4, <6>1, <6>2, <6>3
        <5> QED
          BY <5>5
      <4> QED
        BY <4>0, <4>00
    <3> QED
      BY <3>1, <3>2
  <2> HIDE DEF n, e, f
  <2> PICK cut : cut = CutOf(w)
    OBVIOUS
  <2>9. Holds(w, spHist', 1, n, f, e, cut)
    BY <1>1, <2>2, <2>3, <2>8, HoldsFirst
  <2> QED
    <3>1. n <= spClock'
      BY <1>1, <2>2
    <3> HIDE DEF s, DayOpened
    <3> QED
      BY <1>3, <1>4, <2>2, <2>5, <2>7, <2>9, <2>10, <2>11, <3>1 DEF WindowInv
<1> QED
  BY <1>5, <1>6

\* A window that nothing writes.
LEMMA WindowKept ==
  ASSUME SpendingInv, NEW w \in Windows, spWindow'[w] = spWindow[w], SameCharges(w, spHist, spHist'),
         spClock' \in Nat, spClock <= spClock', w = "accountDay" => UNCHANGED <<spFixed, spCut, spReset>>,
         w \in PlatformWindows /\ ~spRow' => In(w, spHist) = {}
  PROVE  WindowInv(w)'
<1>1. WindowInv(w) /\ spClock \in Nat /\ spWindow[w].start \in Nat \cup {NullStart}
  BY DEF SpendingInv, SpTypeOK
<1>2. EndOf(w)' = EndOf(w) /\ Floor(w)' = Floor(w) /\ CutOf(w)' = CutOf(w) /\ (w = "accountDay" => (DayOpened' <=> DayOpened))
  BY DEF EndOf, FixedDay, Floor, CutOf, DayOpened
<1> PICK e, f, cut : e = EndOf(w) /\ f = Floor(w) /\ cut = CutOf(w)
  OBVIOUS
<1>3. Holds(w, spHist', spWindow[w].usage, spWindow[w].start, f, e, cut)
  BY <1>1, HoldsStill DEF WindowInv
<1>4. In(w, spHist') = In(w, spHist)
  BY DEF SameCharges
<1>5. spWindow[w].start # NullStart => spWindow[w].start <= spClock'
  BY <1>1 DEF WindowInv
<1>6. w = "accountDay" => /\ (spClock < spReset => DayOpened)'
                          /\ (spFixed => DayOpened \/ \A i \in In(w, spHist) : ~(i > spCut))'
  <2> SUFFICES ASSUME w = "accountDay"
               PROVE  /\ (spClock < spReset => DayOpened)'
                      /\ (spFixed => DayOpened \/ \A i \in In(w, spHist) : ~(i > spCut))'
    OBVIOUS
  <2>1. (spClock < spReset => DayOpened) /\ (spFixed => DayOpened \/ \A i \in In(w, spHist) : ~(i > spCut))
    BY <1>1 DEF WindowInv
  <2>2. spReset \in Nat \cup {NullStart} /\ NullStart \in Int
    BY DEF SpendingInv, SpTypeOK, NullStart
  <2> HIDE DEF DayOpened
  <2> QED
    BY <1>1, <1>2, <1>4, <2>1, <2>2
<1> HIDE DEF DayOpened
<1> QED
  BY <1>1, <1>2, <1>3, <1>4, <1>5, <1>6 DEF WindowInv

\* A window that is emptied, with its charges forgotten.
LEMMA WindowEmptied ==
  ASSUME NEW w, spWindow'[w].usage = 0, In(w, spHist') = {},
         spWindow'[w].start # NullStart => /\ spWindow'[w].start <= spClock'
                                           /\ (ByMidnight(w) => MidnightStart(spWindow'[w].start)) /\ w # "accountDay",
         w = "accountDay" => spReset' = NullStart /\ spClock' \in Nat
  PROVE  WindowInv(w)'
<1> PICK e, s, f, cut : e = EndOf(w)' /\ s = spWindow'[w].start /\ f = Floor(w)' /\ cut = CutOf(w)'
  OBVIOUS
<1>1. Holds(w, spHist', 0, s, f, e, cut)
  BY HoldsNone
<1>2. w = "accountDay" => ~(spClock' < spReset')
  BY DEF NullStart
<1> QED
  BY <1>1, <1>2 DEF WindowInv

\* The windows, when only the rest of the state is written.
LEMMA WindowsKept ==
  ASSUME SpendingInv, UNCHANGED <<spWindow, spHist, spFixed, spReset, spRow, spCut>>, spClock' \in Nat, spClock <= spClock'
  PROVE  \A w \in Windows : WindowInv(w)'
<1>1. ASSUME NEW w \in Windows PROVE WindowInv(w)'
  <2>1. SameCharges(w, spHist, spHist')
    BY DEF SameCharges
  <2>2. w \in PlatformWindows /\ ~spRow' => In(w, spHist) = {}
    BY DEF SpendingInv, WindowInv
  <2> QED
    BY <2>1, <2>2, WindowKept
<1> QED
  BY <1>1

\* Initially every counter is empty.
LEMMA SpendingInit == SpInit => SpendingInv
<1> SUFFICES ASSUME SpInit PROVE SpendingInv
  OBVIOUS
<1>1. spHist = <<>> /\ DOMAIN spHist = {} /\ spHist \in [1..0 -> SpCharge] /\ 0 \in Nat
  BY DEF SpInit
<1>2. Listed(spHist)
  BY <1>1 DEF Listed
<1>3. SpTypeOK
  BY <1>2, SpAssumption DEF SpInit, SpTypeOK
<1>4. SpOrdered
  BY <1>1 DEF SpInit, SpOrdered
<1>5. ASSUME NEW w \in Windows PROVE WindowInv(w)
  <2>1. In(w, spHist) = {}
    BY <1>1 DEF In
  <2>2. spWindow[w].usage = 0 /\ spWindow[w].start = NullStart /\ spReset = NullStart
    BY DEF SpInit
  <2> PICK e, f, cut : e = EndOf(w) /\ f = Floor(w) /\ cut = CutOf(w)
    OBVIOUS
  <2>3. Holds(w, spHist, 0, NullStart, f, e, cut)
    BY <2>1, HoldsNone
  <2>4. ~(spClock < spReset)
    BY DEF SpInit, NullStart
  <2> QED
    BY <2>1, <2>2, <2>3, <2>4 DEF WindowInv
<1>6. NoStuckKey
  BY DEF SpInit, NoStuckKey
<1> QED
  BY <1>3, <1>4, <1>5, <1>6 DEF SpendingInv

\* Arriving, beginning to settle, the clock and the edits that leave the windows alone.
LEMMA SpendingQuiet ==
  ASSUME SpendingInv,
         \/ \E r \in SpRequests : Arrive(r) \/ BeginSettle(r)
         \/ \E n \in SpLimits : SetQuota(n) \/ \E ws \in {KeyWindows, {"accountDay"}, PlatformWindows} : SetLimits(ws, n)
         \/ \E st \in {"active", "inactive"} : SetKeyState(st)
         \/ \E w \in PlatformWindows : BeginReset(w)
         \/ ResetKeyQuota \/ Pass
  PROVE  SpendingInv'
<1>1. UNCHANGED <<spWindow, spHist, spFixed, spReset, spRow, spCut>> /\ spClock \in Nat /\ (spClock' = spClock \/ spClock' = spClock + 1)
  BY DEF SpendingInv, SpTypeOK, Arrive, BeginSettle, SetQuota, SetLimits, SetKeyState, BeginReset, ResetKeyQuota, Pass
<1>2. spClock' \in Nat /\ spClock <= spClock'
  BY <1>1
<1>3. \A w \in Windows : WindowInv(w)'
  BY <1>1, <1>2, WindowsKept
<1>4. Listed(spHist)' /\ \A i \in DOMAIN spHist' : spHist'[i].b <= spHist'[i].d /\ spHist'[i].d <= spClock'
  <2>1. \A i \in DOMAIN spHist : spHist[i].d \in Nat /\ spHist[i].d <= spClock /\ spHist[i].b <= spHist[i].d
    BY DEF SpendingInv, SpTypeOK, SpOrdered, Listed, SpCharge
  <2>2. \A i \in DOMAIN spHist : spHist[i].b <= spHist[i].d /\ spHist[i].d <= spClock'
    BY <1>1, <1>2, <2>1
  <2>3. Listed(spHist) /\ spHist' = spHist
    BY <1>1 DEF SpendingInv, SpTypeOK
  <2> QED
    BY <2>2, <2>3 DEF Listed
<1> DEFINE ReqOK == /\ DOMAIN spReq = SpRequests /\ \A r \in SpRequests : spReq[r] \in {[at |-> "idle"]} \cup SpSent
                    /\ \A r \in SpRequests : spReq[r].at = "settling" => spReq[r].stamp \in Nat /\ spReq[r].stamp <= spClock
           AdminOK == /\ spAdmin \in {[at |-> "idle"]} \cup SpResetting
                      /\ spAdmin.at = "reset" => spAdmin.now <= spClock
           KeyOK == spKey \in [quota : Nat, used : Nat, status : {"active", "inactive", "quota_exhausted"}] /\ NoStuckKey
           RestOK == spLimit \in [Windows -> Nat]
<1>5. ReqOK /\ AdminOK /\ KeyOK /\ RestOK
  BY DEF SpendingInv, SpTypeOK, SpOrdered
<1>6. SUFFICES ReqOK' /\ AdminOK' /\ KeyOK' /\ RestOK'
  BY <1>1, <1>2, <1>3, <1>4 DEF SpendingInv, SpTypeOK, SpOrdered
<1>7. UNCHANGED spReq => ReqOK'
  <2>1. \A r \in SpRequests : spReq[r].at = "settling" => spReq[r].stamp \in Nat /\ spReq[r].stamp <= spClock'
    BY <1>1, <1>2, <1>5
  <2> QED
    BY <1>5, <2>1
<1>8. UNCHANGED spAdmin => AdminOK'
  <2>1. spAdmin.at = "reset" => spAdmin.now <= spClock'
    BY <1>1, <1>2, <1>5 DEF SpResetting
  <2> QED
    BY <1>5, <2>1
<1>9. UNCHANGED spKey => KeyOK'
  BY <1>5 DEF NoStuckKey
<1>10. CASE \E r \in SpRequests : Arrive(r) \/ BeginSettle(r)
  <2>1. PICK r \in SpRequests : Arrive(r) \/ BeginSettle(r)
    BY <1>10
  <2>2. UNCHANGED <<spAdmin, spKey, spLimit, spClock>>
    BY <2>1 DEF Arrive, BeginSettle
  <2>3. CASE Arrive(r)
    <3> DEFINE q == [at |-> "sent", quota |-> spKey.quota > 0, windows |-> \E w \in KeyWindows : spLimit[w] > 0,
                     account |-> spLimit["accountDay"] > 0, stamp |-> NullStart]
    <3>1. spReq' = [spReq EXCEPT ![r] = q]
      BY <2>3 DEF Arrive
    <3>2. q \in SpSent /\ q.at # "settling"
      BY DEF SpSent
    <3> HIDE DEF q
    <3>3. ReqOK'
      BY <1>5, <2>2, <3>1, <3>2
    <3> QED
      BY <1>5, <1>8, <1>9, <2>2, <3>3
  <2>4. CASE BeginSettle(r)
    <3> PICK old : old = spReq[r]
      OBVIOUS
    <3> DEFINE q == [[old EXCEPT !.at = "settling"] EXCEPT !.stamp = spClock]
    <3>1. spReq' = [spReq EXCEPT ![r] = q] /\ old.at = "sent"
      BY <1>5, <2>4 DEF BeginSettle
    <3>2. old \in SpSent
      BY <1>5, <3>1
    <3>3. q \in SpSent /\ q.stamp = spClock
      BY <1>1, <3>2 DEF SpSent
    <3> HIDE DEF q
    <3>4. ReqOK'
      BY <1>1, <1>5, <2>2, <3>1, <3>3
    <3> QED
      BY <1>5, <1>8, <1>9, <2>2, <3>4
  <2> QED
    BY <2>1, <2>3, <2>4
<1>11. CASE \/ \E n \in SpLimits : SetQuota(n)
            \/ \E st \in {"active", "inactive"} : SetKeyState(st)
            \/ ResetKeyQuota
  <2>1. UNCHANGED <<spReq, spAdmin, spLimit>>
    BY <1>11 DEF SetQuota, SetKeyState, ResetKeyQuota
  <2>2. KeyOK'
    <3> PICK k : k = spKey
      OBVIOUS
    <3>1. k \in [quota : Nat, used : Nat, status : {"active", "inactive", "quota_exhausted"}]
          /\ (k.status = "quota_exhausted" => k.quota > 0 /\ k.used >= k.quota)
      BY <1>5 DEF NoStuckKey
    <3>2. CASE \E n \in SpLimits : SetQuota(n)
      <4>1. PICK n \in SpLimits : SetQuota(n)
        BY <3>2
      <4> DEFINE st == IF k.status = "quota_exhausted" /\ (n = 0 \/ n > k.used) THEN "active" ELSE k.status
      <4>2. spKey' = [[k EXCEPT !.quota = n] EXCEPT !.status = st]
        BY <3>1, <4>1 DEF SetQuota, Recovers
      <4>3. n \in Nat
        BY SpAssumption
      <4>4. spKey' = [quota |-> n, used |-> k.used, status |-> st]
        <5>1. [k EXCEPT !.quota = n] = [quota |-> n, used |-> k.used, status |-> k.status]
          BY <3>1
        <5> HIDE DEF st
        <5> QED
          BY <4>2, <5>1
      <4>5. st \in {"active", "inactive", "quota_exhausted"} /\ (st = "quota_exhausted" => n > 0 /\ k.used >= n)
        BY <3>1, <4>3
      <4> HIDE DEF st
      <4> QED
        BY <3>1, <4>3, <4>4, <4>5 DEF NoStuckKey
    <3>3. CASE \E st \in {"active", "inactive"} : SetKeyState(st)
      <4>1. PICK st \in {"active", "inactive"} : SetKeyState(st)
        BY <3>3
      <4>2. spKey' = [k EXCEPT !.status = st]
        BY <4>1 DEF SetKeyState
      <4>3. spKey' = [quota |-> k.quota, used |-> k.used, status |-> st]
        BY <3>1, <4>2
      <4> QED
        BY <3>1, <4>3 DEF NoStuckKey
    <3>4. CASE ResetKeyQuota
      <4> DEFINE st == IF k.status = "quota_exhausted" THEN "active" ELSE k.status
      <4>1. spKey' = [[k EXCEPT !.used = 0] EXCEPT !.status = st]
        BY <3>1, <3>4 DEF ResetKeyQuota
      <4>2. spKey' = [quota |-> k.quota, used |-> 0, status |-> st]
        <5>1. [k EXCEPT !.used = 0] = [quota |-> k.quota, used |-> 0, status |-> k.status]
          BY <3>1
        <5> HIDE DEF st
        <5> QED
          BY <4>1, <5>1
      <4>3. st \in {"active", "inactive"}
        BY <3>1
      <4> HIDE DEF st
      <4> QED
        BY <3>1, <4>2, <4>3 DEF NoStuckKey
    <3> QED
      BY <1>11, <3>2, <3>3, <3>4
  <2> QED
    BY <1>5, <1>7, <1>8, <2>1, <2>2
<1>12. CASE \E n \in SpLimits : \E ws \in {KeyWindows, {"accountDay"}, PlatformWindows} : SetLimits(ws, n)
  <2>1. PICK n \in SpLimits, ws \in {KeyWindows, {"accountDay"}, PlatformWindows} : SetLimits(ws, n)
    BY <1>12
  <2>2. UNCHANGED <<spReq, spAdmin, spKey>> /\ spLimit' = [w \in Windows |-> IF w \in ws THEN n ELSE spLimit[w]]
    BY <2>1 DEF SetLimits
  <2>3. RestOK'
    BY <1>5, <2>2, SpAssumption
  <2> QED
    BY <1>7, <1>8, <1>9, <2>2, <2>3
<1>13. CASE \E w \in PlatformWindows : BeginReset(w)
  <2>1. PICK w \in PlatformWindows : BeginReset(w)
    BY <1>13
  <2>2. UNCHANGED <<spReq, spLimit, spKey, spClock>> /\ spAdmin' = [at |-> "reset", window |-> w, now |-> spClock]
    BY <2>1 DEF BeginReset
  <2>3. AdminOK'
    BY <1>1, <2>2 DEF SpResetting
  <2> QED
    BY <1>5, <1>7, <1>9, <2>2, <2>3
<1>14. CASE Pass
  <2>1. UNCHANGED <<spReq, spLimit, spKey, spAdmin>>
    BY <1>14 DEF Pass
  <2> QED
    BY <1>5, <1>7, <1>8, <1>9, <2>1
<1> QED
  BY <1>10, <1>11, <1>12, <1>13, <1>14

\* A settlement extends the list by one charge.
LEMMA OneMoreCharge ==
  ASSUME NEW H, Listed(H), NEW h \in SpCharge
  PROVE  Extends(H, Append(H, h), h) /\ Listed(Append(H, h))
<1> PICK n \in Nat : H \in [1..n -> SpCharge]
  BY DEF Listed
<1>1. H \in Seq(SpCharge) /\ Len(H) = n
  OBVIOUS
<1> DEFINE more == Append(H, h)
<1>2. more \in Seq(SpCharge) /\ Len(more) = n + 1 /\ more[n + 1] = h /\ \A i \in 1..n : more[i] = H[i]
  BY <1>1
<1> HIDE DEF more
<1>3. more \in [1..n + 1 -> SpCharge] /\ n + 1 \in Nat
  <2>1. more \in [1..Len(more) -> SpCharge]
    BY <1>2
  <2> QED
    BY <1>2, <2>1
<1>4. Extends(H, more, h) /\ Listed(more)
  BY <1>2, <1>3 DEF Extends, Listed
<1> QED
  BY <1>4 DEF more

\* Settling.
LEMMA SettleStep ==
  ASSUME SpendingInv, NEW r \in SpRequests, Settle(r)
  PROVE  SpendingInv'
<1> PICK q : q = spReq[r]
  OBVIOUS
<1> DEFINE hit == (IF q.windows THEN KeyWindows ELSE {})
               \cup (IF q.account /\ spLimit["accountDay"] > 0 THEN {"accountDay"} ELSE {})
               \cup (IF spRow THEN PlatformWindows ELSE {})
           h == [b |-> q.stamp, d |-> spClock, in |-> hit]
<1>1. /\ q.at = "settling" /\ spKey' = IF q.quota THEN KeyCharged ELSE spKey
      /\ spWindow' = [w \in Windows |-> IF w \notin hit THEN spWindow[w]
                                      ELSE Charged(w, IF w \in KeyWindows THEN q.stamp ELSE spClock)]
      /\ spReset' = IF "accountDay" \in hit /\ spFixed /\ Over("accountDay", spClock) THEN DayOf(spClock) + DayTicks ELSE spReset
      /\ spHist' = Append(spHist, h) /\ spReq' = [spReq EXCEPT ![r] = [at |-> "idle"]]
      /\ UNCHANGED <<spClock, spLimit, spRow, spFixed, spAdmin, spCut>>
  BY DEF Settle
<1>2. q.stamp \in Nat /\ q.stamp <= spClock /\ spClock \in Nat /\ Listed(spHist)
  BY <1>1 DEF SpendingInv, SpTypeOK, SpOrdered
<1>3. hit \subseteq Windows /\ (hit \cap PlatformWindows # {} => spRow) /\ (~spRow => hit \cap PlatformWindows = {})
  BY DEF Windows, KeyWindows, PlatformWindows
<1> HIDE DEF hit
<1>4. h \in SpCharge /\ h.b = q.stamp /\ h.d = spClock /\ h.in = hit
  BY <1>2, <1>3 DEF SpCharge
<1> HIDE DEF h
<1>5. Extends(spHist, spHist', h) /\ Listed(spHist')
  BY <1>1, <1>2, <1>4, OneMoreCharge
<1>6. ASSUME NEW w \in Windows PROVE WindowInv(w)'
  <2>1. CASE w \in hit
    <3> PICK t : t = IF w \in KeyWindows THEN q.stamp ELSE spClock
      OBVIOUS
    <3>1. spWindow'[w] = Charged(w, t)
      BY <1>1, <2>1
    <3>2. w = "accountDay" => spReset' = IF spFixed /\ Over(w, spClock) THEN DayOf(spClock) + DayTicks ELSE spReset
      BY <1>1, <2>1
    <3>3. w \in PlatformWindows => spRow
      BY <1>3, <2>1
    <3> QED
      BY <1>1, <1>2, <1>4, <1>5, <2>1, <3>1, <3>2, <3>3, WindowCharged
  <2>2. CASE w \notin hit
    <3>1. spWindow'[w] = spWindow[w] /\ SameCharges(w, spHist, spHist')
      BY <1>1, <1>4, <1>5, <2>2, OtherCharge
    <3>2. w = "accountDay" => UNCHANGED <<spFixed, spCut, spReset>>
      BY <1>1, <2>2
    <3>3. w \in PlatformWindows /\ ~spRow' => In(w, spHist) = {}
      BY <1>1 DEF SpendingInv, WindowInv
    <3>4. spClock' \in Nat /\ spClock <= spClock'
      BY <1>1, <1>2
    <3> QED
      BY <3>1, <3>2, <3>3, <3>4, WindowKept
  <2> QED
    BY <2>1, <2>2
<1>7. spKey' \in [quota : Nat, used : Nat, status : {"active", "inactive", "quota_exhausted"}] /\ NoStuckKey'
  <2> PICK k : k = spKey
    OBVIOUS
  <2>1. k \in [quota : Nat, used : Nat, status : {"active", "inactive", "quota_exhausted"}]
        /\ (k.status = "quota_exhausted" => k.quota > 0 /\ k.used >= k.quota)
    BY DEF SpendingInv, SpTypeOK, NoStuckKey
  <2> DEFINE st == IF k.status = "active" /\ k.quota > 0 /\ k.used + 1 >= k.quota THEN "quota_exhausted" ELSE k.status
  <2>2. KeyCharged = [quota |-> k.quota, used |-> k.used + 1, status |-> st]
    <3>1. KeyCharged = [[k EXCEPT !.used = @ + 1] EXCEPT !.status = st]
      BY <2>1 DEF KeyCharged
    <3>2. [k EXCEPT !.used = @ + 1] = [quota |-> k.quota, used |-> k.used + 1, status |-> k.status]
      BY <2>1
    <3> HIDE DEF st
    <3> QED
      BY <3>1, <3>2
  <2>3. st \in {"active", "inactive", "quota_exhausted"} /\ (st = "quota_exhausted" => k.quota > 0 /\ k.used + 1 >= k.quota)
    BY <2>1
  <2> HIDE DEF st
  <2>4. spKey' = k \/ spKey' = [quota |-> k.quota, used |-> k.used + 1, status |-> st]
    BY <1>1, <2>2
  <2> QED
    BY <2>1, <2>3, <2>4 DEF NoStuckKey
<1>8. \A i \in DOMAIN spHist' : spHist'[i].b <= spHist'[i].d /\ spHist'[i].d <= spClock
  <2> PICK n \in Nat : /\ spHist \in [1..n -> SpCharge] /\ spHist' \in [1..n + 1 -> SpCharge]
                       /\ spHist'[n + 1] = h /\ \A i \in 1..n : spHist'[i] = spHist[i]
    BY <1>5 DEF Extends
  <2>1. \A i \in 1..n : spHist[i].b <= spHist[i].d /\ spHist[i].d <= spClock
    BY DEF SpendingInv, SpOrdered
  <2>2. DOMAIN spHist' = 1..n + 1 /\ 1..n + 1 = 1..n \cup {n + 1}
    OBVIOUS
  <2> QED
    BY <1>2, <1>4, <2>1, <2>2
<1>9. spWindow' \in [Windows -> [usage : Nat, start : Nat \cup {NullStart}]]
  <2>1. ASSUME NEW w \in Windows, NEW t \in Nat PROVE Charged(w, t) \in [usage : Nat, start : Nat \cup {NullStart}]
    <3>1. DayOf(t) \in Nat /\ spWindow[w] \in [usage : Nat, start : Nat \cup {NullStart}]
      BY Midnights DEF SpendingInv, SpTypeOK
    <3> PICK u, s : u = spWindow[w].usage /\ s = spWindow[w].start
      OBVIOUS
    <3>2. u \in Nat /\ s \in Nat \cup {NullStart}
      BY <3>1
    <3> DEFINE v == IF Over(w, t) THEN 1 ELSE u + 1
               e == IF ~Over(w, t) THEN s ELSE IF w \in {"key1d", "key7d", "platformDay"} THEN DayOf(t) ELSE t
    <3>3. v \in Nat /\ e \in Nat \cup {NullStart}
      BY <3>1, <3>2
    <3>4. Charged(w, t) = [usage |-> v, start |-> e]
      BY DEF Charged
    <3> HIDE DEF v, e
    <3> QED
      BY <3>3, <3>4
  <2>2. ASSUME NEW w \in Windows PROVE spWindow'[w] \in [usage : Nat, start : Nat \cup {NullStart}]
    <3> PICK t : t = IF w \in KeyWindows THEN q.stamp ELSE spClock
      OBVIOUS
    <3>1. t \in Nat
      BY <1>2
    <3>2. spWindow'[w] = spWindow[w] \/ spWindow'[w] = Charged(w, t)
      BY <1>1
    <3> QED
      BY <2>1, <3>1, <3>2 DEF SpendingInv, SpTypeOK
  <2>3. spWindow' = [w \in Windows |-> spWindow'[w]]
    BY <1>1
  <2> QED
    BY <2>2, <2>3
<1>10. spReset' \in Nat \cup {NullStart}
  <2>1. DayOf(spClock) + DayTicks \in Nat /\ spReset \in Nat \cup {NullStart}
    BY <1>2, Midnights, Lengths DEF SpendingInv, SpTypeOK
  <2> QED
    BY <1>1, <2>1
<1>11. /\ DOMAIN spReq' = SpRequests
       /\ \A x \in SpRequests : /\ spReq'[x] \in {[at |-> "idle"]} \cup SpSent
                                /\ spReq'[x].at = "settling" => spReq'[x].stamp \in Nat /\ spReq'[x].stamp <= spClock
  BY <1>1 DEF SpendingInv, SpTypeOK, SpOrdered
<1> QED
  BY <1>1, <1>2, <1>5, <1>6, <1>7, <1>8, <1>9, <1>10, <1>11 DEF SpendingInv, SpTypeOK, SpOrdered

\* Emptying some counters, whose charges are forgotten.
LEMMA ForgetStep ==
  ASSUME SpendingInv, NEW ws \in SUBSET Windows, spHist' = Forget(ws),
         spWindow' \in [Windows -> [usage : Nat, start : Nat \cup {NullStart}]],
         \A w \in Windows \ ws : spWindow'[w] = spWindow[w],
         \A w \in ws : /\ spWindow'[w].usage = 0
                       /\ spWindow'[w].start # NullStart =>
                            /\ spWindow'[w].start <= spClock /\ w # "accountDay"
                            /\ ByMidnight(w) => MidnightStart(spWindow'[w].start),
         spReset' = IF "accountDay" \in ws THEN NullStart ELSE spReset,
         spRow' \in BOOLEAN, spRow' = spRow \/ PlatformWindows \subseteq ws,
         UNCHANGED <<spClock, spLimit, spKey, spFixed, spReq, spCut>>, spAdmin' = spAdmin \/ spAdmin' = [at |-> "idle"]
  PROVE  SpendingInv'
<1>1. /\ Listed(spHist') /\ \A w \in ws : In(w, spHist') = {}
      /\ \A w \in Windows \ ws : SameCharges(w, spHist, spHist')
      /\ DOMAIN spHist' = DOMAIN spHist
      /\ \A i \in DOMAIN spHist : spHist'[i].b = spHist[i].b /\ spHist'[i].d = spHist[i].d
  BY Forgotten DEF SpendingInv
<1>2. ASSUME NEW w \in ws PROVE WindowInv(w)'
  <2>1. w = "accountDay" => spReset' = NullStart /\ spClock' \in Nat
    BY DEF SpendingInv, SpTypeOK
  <2>2. spWindow'[w].start # NullStart => /\ spWindow'[w].start <= spClock'
                                          /\ (ByMidnight(w) => MidnightStart(spWindow'[w].start)) /\ w # "accountDay"
    OBVIOUS
  <2> QED
    BY <1>1, <2>1, <2>2, WindowEmptied
<1>3. ASSUME NEW w \in Windows \ ws PROVE WindowInv(w)'
  <2>1. SameCharges(w, spHist, spHist')
    BY <1>1
  <2>2. w \in PlatformWindows /\ ~spRow' => In(w, spHist) = {}
    BY DEF SpendingInv, WindowInv
  <2>3. w = "accountDay" => UNCHANGED <<spFixed, spCut, spReset>>
    OBVIOUS
  <2>4. spClock' \in Nat /\ spClock <= spClock'
    BY DEF SpendingInv, SpTypeOK
  <2> QED
    BY <2>1, <2>2, <2>3, <2>4, WindowKept
<1>4. \A w \in Windows : WindowInv(w)'
  BY <1>2, <1>3
<1>5. SpTypeOK'
  BY <1>1 DEF SpendingInv, SpTypeOK
<1>6. \A i \in DOMAIN spHist' : spHist'[i].b <= spHist'[i].d /\ spHist'[i].d <= spClock
  BY <1>1 DEF SpendingInv, SpOrdered
<1>7. spAdmin'.at = "reset" => spAdmin'.now <= spClock
  BY DEF SpendingInv, SpOrdered
<1>8. \A r \in SpRequests : spReq[r].at = "settling" => spReq[r].stamp \in Nat /\ spReq[r].stamp <= spClock
  BY DEF SpendingInv, SpOrdered
<1>9. SpOrdered'
  BY <1>6, <1>7, <1>8 DEF SpOrdered
<1>10. NoStuckKey'
  BY DEF SpendingInv, NoStuckKey
<1> QED
  BY <1>4, <1>5, <1>9, <1>10 DEF SpendingInv

\* Resetting the windows of the key, of the account, or of the platform with its row.
LEMMA EmptyingStep ==
  ASSUME SpendingInv, ResetKeyWindows \/ ResetAccountQuota \/ TogglePlatformRow
  PROVE  SpendingInv'
<1>1. PICK ws \in SUBSET Windows :
        /\ spWindow' = Emptied(ws) /\ spHist' = Forget(ws)
        /\ spReset' = IF "accountDay" \in ws THEN NullStart ELSE spReset
        /\ spRow' \in BOOLEAN /\ (spRow' = spRow \/ PlatformWindows \subseteq ws)
        /\ UNCHANGED <<spClock, spLimit, spKey, spFixed, spReq, spAdmin, spCut>>
  <2>1. spRow \in BOOLEAN
    BY DEF SpendingInv, SpTypeOK
  <2>2. CASE ResetKeyWindows
    <3>1. KeyWindows \in SUBSET Windows /\ "accountDay" \notin KeyWindows
      BY DEF Windows, KeyWindows
    <3> QED
      BY <2>1, <2>2, <3>1 DEF ResetKeyWindows
  <2>3. CASE ResetAccountQuota
    <3>1. {"accountDay"} \in SUBSET Windows
      BY DEF Windows
    <3> QED
      BY <2>1, <2>3, <3>1 DEF ResetAccountQuota
  <2>4. CASE TogglePlatformRow
    <3>1. PlatformWindows \in SUBSET Windows /\ "accountDay" \notin PlatformWindows
      BY DEF Windows, PlatformWindows
    <3>2. spRow' \in BOOLEAN
      BY <2>4 DEF TogglePlatformRow
    <3> QED
      BY <2>4, <3>1, <3>2 DEF TogglePlatformRow
  <2> QED
    BY <2>2, <2>3, <2>4
<1>2. \A w \in Windows : spWindow'[w] = IF w \in ws THEN [usage |-> 0, start |-> NullStart] ELSE spWindow[w]
  BY <1>1 DEF Emptied
<1>3. spWindow' \in [Windows -> [usage : Nat, start : Nat \cup {NullStart}]]
  <2>1. [usage |-> 0, start |-> NullStart] \in [usage : Nat, start : Nat \cup {NullStart}]
    OBVIOUS
  <2> QED
    BY <1>1, <2>1 DEF Emptied, SpendingInv, SpTypeOK
<1>4. \A w \in ws : spWindow'[w].usage = 0 /\ spWindow'[w].start = NullStart
  BY <1>2
<1> QED
  BY <1>1, <1>2, <1>3, <1>4, ForgetStep

\* The end of a reset, which takes the time of its beginning.
LEMMA EndResetStep ==
  ASSUME SpendingInv, EndReset
  PROVE  SpendingInv'
<1> PICK a : a = spAdmin
  OBVIOUS
<1>1. a \in SpResetting /\ a.now <= spClock /\ spAdmin' = [at |-> "idle"]
  <2>1. a.at = "reset" /\ spAdmin' = [at |-> "idle"] /\ a \in {[at |-> "idle"]} \cup SpResetting
    BY DEF EndReset, SpendingInv, SpTypeOK
  <2> QED
    BY <2>1 DEF SpendingInv, SpOrdered
<1> PICK w, now : w = a.window /\ now = a.now
  OBVIOUS
<1>2. w \in PlatformWindows /\ w \in Windows /\ now \in Nat /\ now <= spClock /\ w # "accountDay"
  BY <1>1 DEF SpResetting, Windows, PlatformWindows
<1>3. UNCHANGED <<spClock, spLimit, spKey, spRow, spReset, spFixed, spReq, spCut>>
  BY DEF EndReset
<1>4. CASE spRow
  <2> DEFINE start == IF w = "platformDay" THEN DayOf(now) ELSE now
             new == [usage |-> 0, start |-> start]
  <2>1. spWindow' = [spWindow EXCEPT ![w] = new] /\ spHist' = Forget({w})
    BY <1>4 DEF EndReset
  <2>2. DayOf(now) \in Nat /\ DayOf(now) <= now /\ MidnightStart(DayOf(now))
    BY <1>2, Midnights
  <2>3. start \in Nat /\ start <= spClock /\ (ByMidnight(w) => MidnightStart(start))
    <3>1. spClock \in Nat
      BY DEF SpendingInv, SpTypeOK
    <3>2. ByMidnight(w) => w = "platformDay"
      BY <1>2 DEF ByMidnight, PlatformWindows
    <3> QED
      BY <1>2, <2>2, <3>1, <3>2
  <2> HIDE DEF start
  <2>4. new \in [usage : Nat, start : Nat \cup {NullStart}] /\ new.usage = 0 /\ new.start = start
    BY <2>3
  <2> HIDE DEF new
  <2>5. spWindow' \in [Windows -> [usage : Nat, start : Nat \cup {NullStart}]] /\ spWindow'[w] = new
        /\ \A x \in Windows \ {w} : spWindow'[x] = spWindow[x]
    BY <1>2, <2>1, <2>4 DEF SpendingInv, SpTypeOK
  <2>6. spRow' \in BOOLEAN /\ {w} \in SUBSET Windows /\ "accountDay" \notin {w}
    BY <1>2, <1>3 DEF SpendingInv, SpTypeOK
  <2> QED
    BY <1>1, <1>2, <1>3, <2>1, <2>3, <2>4, <2>5, <2>6, ForgetStep
<1>5. CASE ~spRow
  <2>1. UNCHANGED <<spWindow, spHist>> /\ spClock' \in Nat /\ spClock <= spClock'
    BY <1>3, <1>5 DEF EndReset, SpendingInv, SpTypeOK
  <2>2. \A x \in Windows : WindowInv(x)'
    BY <1>3, <2>1, WindowsKept
  <2>3. SpTypeOK'
    BY <1>1, <1>3, <2>1 DEF SpendingInv, SpTypeOK
  <2>4. SpOrdered' /\ NoStuckKey'
    BY <1>1, <1>3, <2>1 DEF SpendingInv, SpOrdered, NoStuckKey
  <2> QED
    BY <2>2, <2>3, <2>4 DEF SpendingInv
<1> QED
  BY <1>4, <1>5 DEF SpendingInv, SpTypeOK

\* An edit of the reset mode of the account.
LEMMA ModeStep ==
  ASSUME SpendingInv, NEW fixed \in BOOLEAN, SetResetMode(fixed)
  PROVE  SpendingInv'
<1>1. /\ fixed # spFixed /\ spFixed' = fixed
      /\ spCut' = IF fixed /\ (spReset = NullStart \/ spClock >= spReset) THEN Len(spHist) ELSE spCut
      /\ UNCHANGED <<spClock, spWindow, spLimit, spKey, spRow, spReset, spReq, spAdmin, spHist>>
  BY DEF SetResetMode
<1>2. spClock \in Nat /\ spReset \in Nat \cup {NullStart} /\ spFixed \in BOOLEAN
  BY DEF SpendingInv, SpTypeOK
<1>3. \A w : SameCharges(w, spHist, spHist')
  BY <1>1 DEF SameCharges
<1>4. ASSUME NEW w \in Windows, w # "accountDay" PROVE WindowInv(w)'
  <2>1. w \in PlatformWindows /\ ~spRow' => In(w, spHist) = {}
    BY <1>1 DEF SpendingInv, WindowInv
  <2> QED
    BY <1>1, <1>2, <1>3, <1>4, <2>1, WindowKept
<1>5. WindowInv("accountDay")'
  <2> PICK w : w = "accountDay"
    OBVIOUS
  <2> DEFINE s == spWindow[w].start
  <2>1. w \in Windows /\ ~ByMidnight(w) /\ w \notin PlatformWindows /\ Length(w) = DayTicks /\ w \notin KeyWindows
    BY DEF Windows, ByMidnight, PlatformWindows, KeyWindows, Length
  <2>2. /\ Holds(w, spHist, spWindow[w].usage, s, Floor(w), EndOf(w), spCut)
        /\ (s # NullStart => s <= spClock) /\ (spClock < spReset => DayOpened)
        /\ (spFixed => DayOpened \/ \A i \in In(w, spHist) : ~(i > spCut))
    BY <2>1 DEF SpendingInv, WindowInv, CutOf
  <2>3. Floor(w)' = Floor(w) /\ (DayOpened' <=> DayOpened) /\ In(w, spHist)' = In(w, spHist) /\ spHist' = spHist
        /\ CutOf(w)' = spCut' /\ spWindow' = spWindow
    BY <1>1 DEF Floor, DayOpened, CutOf
  <2>4. \A i \in In(w, spHist) : /\ TimeOf(w, spHist[i]) = spHist[i].d /\ spHist[i].d \in Nat
                                 /\ spHist[i].d <= spClock
    BY <2>1 DEF In, TimeOf, SpendingInv, SpTypeOK, Listed, SpOrdered, SpCharge
  <2>5. /\ \A i \in In(w, spHist) : i > spCut' => TimeOf(w, spHist[i]) < EndOf(w)'
        /\ spCut' = spCut \/ \A i \in In(w, spHist) : ~(i > spCut')
        /\ fixed => DayOpened \/ \A i \in In(w, spHist) : ~(i > spCut')
    <3>1. CASE fixed /\ spClock < spReset
      <4>1. spCut' = spCut /\ EndOf(w)' = spReset
        BY <1>1, <1>2, <3>1 DEF EndOf, FixedDay, NullStart
      <4>2. \A i \in In(w, spHist) : TimeOf(w, spHist[i]) < spReset
        BY <1>2, <2>4, <3>1 DEF NullStart
      <4> QED
        BY <2>2, <3>1, <4>1, <4>2
    <3>2. CASE fixed /\ ~(spClock < spReset)
      <4>1. spCut' = Len(spHist)
        BY <1>1, <1>2, <3>2 DEF NullStart
      <4>2. \A i \in In(w, spHist) : ~(i > Len(spHist))
        <5> PICK n \in Nat : spHist \in [1..n -> SpCharge]
          BY DEF SpendingInv, SpTypeOK, Listed
        <5>1. Len(spHist) = n
          OBVIOUS
        <5> QED
          BY <5>1 DEF In
      <4> QED
        BY <4>1, <4>2
    <3>3. CASE ~fixed
      <4>1. spCut' = spCut /\ EndOf(w)' = s + DayTicks /\ spFixed
        BY <1>1, <1>2, <2>1, <3>3 DEF EndOf, FixedDay
      <4>2. CASE DayOpened
        <5>1. s \in Nat /\ spReset \in Nat /\ spReset <= s + DayTicks /\ EndOf(w) = spReset /\ s + DayTicks \in Nat
          BY <4>1, <4>2, OpenedDay, Lengths DEF EndOf, FixedDay
        <5>2. \A i \in In(w, spHist) : i > spCut => TimeOf(w, spHist[i]) < spReset
          BY <2>2, <5>1 DEF Holds
        <5>3. \A i \in In(w, spHist) : i > spCut => TimeOf(w, spHist[i]) < s + DayTicks
          BY <2>4, <5>1, <5>2
        <5> QED
          BY <3>3, <4>1, <5>3
      <4>3. CASE \A i \in In(w, spHist) : ~(i > spCut)
        BY <3>3, <4>1, <4>3
      <4> QED
        BY <2>2, <4>1, <4>2, <4>3
    <3> QED
      BY <3>1, <3>2, <3>3
  <2> PICK u, f, e, cut : u = spWindow[w].usage /\ f = Floor(w) /\ e = EndOf(w)' /\ cut = spCut'
    OBVIOUS
  <2>6. Holds(w, spHist, u, s, f, e, cut)
    <3>1. PICK K \in SUBSET In(w, spHist) : /\ u = Cardinality(K) /\ \A i \in K : spHist[i].d >= s
                                            /\ \A i \in In(w, spHist) \ K : i > spCut => spHist[i].b < f
      BY <2>2 DEF Holds
    <3>2. \A i \in In(w, spHist) \ K : i > cut => spHist[i].b < f
      BY <2>5, <3>1
    <3> QED
      BY <2>2, <2>5, <3>1, <3>2 DEF Holds
  <2> HIDE DEF s, DayOpened
  <2> QED
    BY <1>1, <2>1, <2>2, <2>3, <2>5, <2>6 DEF WindowInv, s
<1>6. SpTypeOK' /\ SpOrdered' /\ NoStuckKey'
  BY <1>1 DEF SpendingInv, SpTypeOK, SpOrdered, NoStuckKey, Listed
<1> QED
  BY <1>4, <1>5, <1>6 DEF SpendingInv

\* Every step keeps the windows.
LEMMA SpendingStep == SpendingInv /\ [SpendingNext]_spVars => SpendingInv'
<1> SUFFICES ASSUME SpendingInv, [SpendingNext]_spVars PROVE SpendingInv'
  OBVIOUS
<1>1. CASE \E r \in SpRequests : Settle(r)
  BY <1>1, SettleStep
<1>2. CASE ResetKeyWindows \/ ResetAccountQuota \/ TogglePlatformRow
  BY <1>2, EmptyingStep
<1>3. CASE EndReset
  BY <1>3, EndResetStep
<1>4. CASE UNCHANGED spVars
  <2>1. UNCHANGED <<spWindow, spHist, spFixed, spReset, spRow, spCut>> /\ spClock' \in Nat /\ spClock <= spClock'
    BY <1>4 DEF spVars, SpendingInv, SpTypeOK
  <2>2. \A w \in Windows : WindowInv(w)'
    BY <2>1, WindowsKept
  <2>3. SpTypeOK' /\ SpOrdered' /\ NoStuckKey'
    BY <1>4 DEF spVars, SpendingInv, SpTypeOK, SpOrdered, NoStuckKey
  <2> QED
    BY <2>2, <2>3 DEF SpendingInv
<1>5. CASE \/ \E r \in SpRequests : Arrive(r) \/ BeginSettle(r)
           \/ \E n \in SpLimits : SetQuota(n) \/ \E ws \in {KeyWindows, {"accountDay"}, PlatformWindows} : SetLimits(ws, n)
           \/ \E st \in {"active", "inactive"} : SetKeyState(st)
           \/ \E w \in PlatformWindows : BeginReset(w)
           \/ ResetKeyQuota \/ Pass
  BY <1>5, SpendingQuiet
<1>6. CASE \E fixed \in BOOLEAN : SetResetMode(fixed)
  BY <1>6, ModeStep
<1> QED
  BY <1>1, <1>2, <1>3, <1>4, <1>5, <1>6 DEF SpendingNext

\* What a window counts lies between what was certainly spent in it and what may have been.
LEMMA WindowSpent ==
  ASSUME SpendingInv, NEW w \in Windows
  PROVE  /\ SpentAtLeast(w) \in Nat /\ Counted(w, spClock) \in Nat /\ SpentAtMost(w) \in Nat
         /\ SpentAtLeast(w) <= Counted(w, spClock) /\ Counted(w, spClock) <= SpentAtMost(w)
<1> PICK H, c, s, u : H = spHist /\ c = spClock /\ s = spWindow[w].start /\ u = spWindow[w].usage
  OBVIOUS
<1> PICK cut, f : cut = CutOf(w) /\ f = Floor(w)
  OBVIOUS
<1> DEFINE begun(x) == {i \in DOMAIN H : i > cut /\ w \in H[i].in /\ H[i].b >= x}
           done(x) == {i \in DOMAIN H : i > 0 /\ w \in H[i].in /\ H[i].d >= x}
           after(x) == {i \in DOMAIN H : i > 0 /\ w \in H[i].in /\ H[i].d > x}
<1>1. /\ SpentAtLeast(w) = IF Calendar(w) THEN Cardinality(begun(DayOf(c)))
                           ELSE IF Over(w, c) THEN 0 ELSE Cardinality(begun(s))
      /\ SpentAtMost(w) = IF Calendar(w) THEN Cardinality(done(DayOf(c))) ELSE Cardinality(after(c - Length(w)))
  BY DEF SpentAtLeast, SpentAtMost, SpentWhere
<1>2. Counted(w, c) = IF Over(w, c) \/ (w \in PlatformWindows /\ ~spRow) THEN 0 ELSE u
  BY DEF Counted
<1>3. c \in Nat /\ u \in Nat /\ s \in Nat \cup {NullStart} /\ Listed(H)
  BY DEF SpendingInv, SpTypeOK
<1>4. \A x : begun(x) \subseteq In(w, H) /\ done(x) \subseteq In(w, H) /\ after(x) \subseteq In(w, H)
  BY DEF In
<1>5. ASSUME NEW x
      PROVE  /\ IsFiniteSet(begun(x)) /\ IsFiniteSet(done(x)) /\ IsFiniteSet(after(x))
             /\ Cardinality(begun(x)) \in Nat /\ Cardinality(done(x)) \in Nat /\ Cardinality(after(x)) \in Nat
  BY <1>3, InFinite
<1>6. Cardinality({}) = 0
  BY FS_EmptySet
<1>7. DayOf(c) \in Nat /\ MidnightStart(DayOf(c)) /\ DayOf(c) <= c
  BY <1>3, Midnights
<1>8. Over(w, c) <=> s = NullStart \/ EndOf(w) <= c
  BY <1>3, OverAtEnd
<1>9. Holds(w, H, u, s, f, EndOf(w), cut)
  BY DEF SpendingInv, WindowInv
<1>15. w = "accountDay" => (c < spReset => DayOpened) /\ spReset \in Nat \cup {NullStart}
  BY DEF SpendingInv, SpTypeOK, WindowInv
<1>16. \A i \in In(w, H) : i > 0
  BY <1>3 DEF In, Listed
<1>10. Calendar(w) => ByMidnight(w) \/ FixedDay(w)
  BY DEF Calendar, ByMidnight, FixedDay
<1>11. \A i \in In(w, H) : H[i].b \in Nat /\ H[i].d \in Nat /\ H[i].b <= TimeOf(w, H[i]) /\ TimeOf(w, H[i]) \in Nat
  BY DEF In, TimeOf, SpendingInv, SpTypeOK, Listed, SpOrdered, SpCharge
<1>12. CASE Over(w, c)
  <2>1. Calendar(w) => begun(DayOf(c)) = {}
    <3>1. CASE s = NullStart
      BY <1>4, <1>9, <3>1 DEF Holds
    <3>3. CASE s # NullStart /\ \A i \in In(w, H) : ~(i > cut)
      BY <1>4, <3>3
    <3>2. CASE s # NullStart /\ Calendar(w) /\ ~\A i \in In(w, H) : ~(i > cut)
      <4>1. EndOf(w) \in Int /\ EndOf(w) <= c /\ MidnightStart(EndOf(w))
        <5>1. EndOf(w) \in Int /\ EndOf(w) <= c
          BY <1>8, <1>12, <3>2, EndAfterStart
        <5>2. CASE ByMidnight(w)
          BY <3>2, <5>1, <5>2, EndAfterStart
        <5>3. CASE FixedDay(w)
          <6>1. EndOf(w) = spReset /\ DayOpened
            BY <3>2, <5>3, EndAfterStart
          <6> QED
            BY <5>1, <6>1, OpenedDay
        <5> QED
          BY <1>10, <3>2, <5>2, <5>3
      <4>2. EndOf(w) <= DayOf(c)
        <5>1. DayOf(c) < EndOf(w) => DayOf(c) + DayTicks <= EndOf(w)
          BY <1>7, <4>1, MidnightsApart
        <5>2. c < DayOf(c) + DayTicks /\ DayTicks \in Nat
          BY <1>3, Midnights, Lengths
        <5> QED
          BY <1>3, <1>7, <4>1, <5>1, <5>2
      <4>3. \A i \in In(w, H) : i > cut => ~(H[i].b >= DayOf(c))
        BY <1>7, <1>9, <1>11, <4>1, <4>2 DEF Holds
      <4> QED
        BY <1>4, <4>3
    <3> QED
      BY <3>1, <3>2, <3>3
  <2>2. SpentAtLeast(w) = 0 /\ Counted(w, c) = 0
    BY <1>1, <1>2, <1>6, <1>12, <2>1
  <2>3. SpentAtMost(w) \in Nat
    BY <1>1, <1>5
  <2> QED
    BY <2>2, <2>3
<1>13. CASE ~Over(w, c) /\ w \in PlatformWindows /\ ~spRow
  <2>1. In(w, H) = {}
    BY <1>13 DEF SpendingInv, WindowInv
  <2>2. begun(s) = {} /\ begun(DayOf(c)) = {}
    BY <1>4, <2>1
  <2>3. SpentAtLeast(w) = 0 /\ Counted(w, c) = 0
    BY <1>1, <1>2, <1>6, <1>13, <2>2
  <2>4. SpentAtMost(w) \in Nat
    BY <1>1, <1>5
  <2> QED
    BY <2>3, <2>4
<1>14. CASE ~Over(w, c) /\ ~(w \in PlatformWindows /\ ~spRow)
  <2>1. s # NullStart /\ s \in Nat /\ s <= c /\ EndOf(w) \in Int /\ c < EndOf(w)
    BY <1>3, <1>8, <1>14, EndAfterStart
  <2>9. FixedDay(w) => DayOpened /\ EndOf(w) = spReset /\ w = "accountDay"
    BY <1>15, <2>1 DEF FixedDay, EndOf
  <2>2. PICK K \in SUBSET In(w, H) : /\ u = Cardinality(K) /\ \A i \in K : H[i].d >= s
                                     /\ \A i \in In(w, H) \ K : i > cut => H[i].b < f
    BY <1>9 DEF Holds
  <2>3. IsFiniteSet(K)
    BY <1>3, InFinite DEF In
  <2> PICK x : x = IF Calendar(w) THEN DayOf(c) ELSE s
    OBVIOUS
  <2>10. f \in Nat /\ x \in Nat /\ f <= x
    <3>1. CASE DayOpened /\ w = "accountDay"
      <4>1. f = DayOf(s) /\ f \in Nat /\ f <= s /\ MidnightStart(f)
        BY <3>1, OpenedDay DEF Floor
      <4>2. DayOf(c) < f => DayOf(c) + DayTicks <= f
        BY <1>7, <4>1, MidnightsApart
      <4>3. c < DayOf(c) + DayTicks /\ DayTicks \in Nat
        BY <1>3, Midnights, Lengths
      <4> QED
        BY <1>3, <1>7, <2>1, <4>1, <4>2, <4>3
    <3>2. CASE ~(DayOpened /\ w = "accountDay")
      <4>1. f = s
        BY <3>2 DEF Floor
      <4>2. Calendar(w) => MidnightStart(s)
        BY <1>10, <2>1, <2>9, <3>2, EndAfterStart
      <4>3. Calendar(w) /\ DayOf(c) < s => DayOf(c) + DayTicks <= s
        BY <1>7, <4>2, MidnightsApart
      <4>4. c < DayOf(c) + DayTicks /\ DayTicks \in Nat
        BY <1>3, Midnights, Lengths
      <4> QED
        BY <1>3, <1>7, <2>1, <4>1, <4>3, <4>4
    <3> QED
      BY <3>1, <3>2
  <2>4. begun(x) \subseteq K
    <3> SUFFICES ASSUME NEW i \in begun(x) PROVE i \in K
      OBVIOUS
    <3>1. i \in In(w, H) /\ i > cut /\ H[i].b >= x /\ H[i].b \in Nat
      BY <1>4, <1>11
    <3> QED
      BY <2>2, <2>10, <3>1
  <2>5. Cardinality(begun(x)) <= u
    BY <2>2, <2>3, <2>4, FS_Subset
  <2>5b. PICK b \in Nat : b = Cardinality(begun(x)) /\ b <= u
    BY <1>5, <2>5
  <2>6. Calendar(w) => DayOf(c) <= s
    <3>1. DayOf(s) \in Nat /\ MidnightStart(DayOf(s)) /\ DayOf(s) <= s
      BY <2>1, Midnights
    <3>2. CASE FixedDay(w)
      <4>1. EndOf(w) = DayOf(s) + DayTicks
        BY <2>9, <3>2 DEF DayOpened
      <4>2. DayOf(s) < DayOf(c) => DayOf(s) + DayTicks <= DayOf(c)
        BY <1>7, <3>1, MidnightsApart
      <4> QED
        BY <1>3, <1>7, <2>1, <3>1, <4>1, <4>2, Lengths
    <3>3. CASE Calendar(w) /\ ~FixedDay(w)
      <4>1. MidnightStart(s) /\ EndOf(w) = s + DayTicks
        BY <1>10, <2>1, <3>3, EndAfterStart, Lengths DEF Calendar, FixedDay
      <4>2. s < DayOf(c) => s + DayTicks <= DayOf(c)
        BY <1>7, <4>1, MidnightsApart
      <4> QED
        BY <1>3, <1>7, <2>1, <4>1, <4>2, Lengths
    <3> QED
      BY <3>2, <3>3
  <2>7. CASE Calendar(w)
    <3>1. K \subseteq done(DayOf(c))
      BY <1>7, <1>11, <1>16, <2>1, <2>2, <2>6, <2>7 DEF In
    <3> PICK D : D = done(DayOf(c))
      OBVIOUS
    <3>2. K \subseteq D /\ IsFiniteSet(D) /\ Cardinality(D) \in Nat
      BY <1>5, <3>1
    <3>3. u <= Cardinality(D)
      BY <2>2, <3>2, FS_Subset
    <3>4. SpentAtMost(w) = Cardinality(D) /\ SpentAtLeast(w) = b /\ Counted(w, c) = u
      BY <1>1, <1>2, <1>14, <2>5b, <2>7
    <3> QED
      BY <1>3, <2>5b, <3>2, <3>3, <3>4, c = spClock
  <2>8. CASE ~Calendar(w)
    <3>1. EndOf(w) = s + Length(w) /\ Length(w) \in Nat
      BY <2>1, <2>8, EndAfterStart, Lengths DEF Calendar, FixedDay
    <3>2. c - Length(w) \in Int /\ c - Length(w) < s
      BY <1>3, <2>1, <3>1
    <3>3. K \subseteq after(c - Length(w))
      BY <1>11, <1>16, <2>1, <2>2, <3>2 DEF In
    <3> PICK D : D = after(c - Length(w))
      OBVIOUS
    <3>4. K \subseteq D /\ IsFiniteSet(D) /\ Cardinality(D) \in Nat
      BY <1>5, <3>3
    <3>5. u <= Cardinality(D)
      BY <2>2, <3>4, FS_Subset
    <3>6. SpentAtMost(w) = Cardinality(D) /\ SpentAtLeast(w) = b /\ Counted(w, c) = u
      BY <1>1, <1>2, <1>14, <2>5b, <2>8
    <3> QED
      BY <1>3, <2>5b, <3>4, <3>5, <3>6, c = spClock
  <2> QED
    BY <2>7, <2>8
<1> QED
  BY <1>12, <1>13, <1>14

\* Limits judge by what was spent.
LEMMA SpendingJudged == SpendingInv => SpendingExact
<1> SUFFICES ASSUME SpendingInv PROVE SpendingExact
  OBVIOUS
<1>1. \A w \in Windows : /\ SpentAtLeast(w) \in Nat /\ Counted(w, spClock) \in Nat /\ SpentAtMost(w) \in Nat
                         /\ SpentAtLeast(w) <= Counted(w, spClock) /\ Counted(w, spClock) <= SpentAtMost(w)
  BY WindowSpent
<1>2. WindowsExact
  BY <1>1 DEF WindowsExact
<1>3. /\ \A w \in Windows : spLimit[w] \in Nat
      /\ spKey.quota \in Nat /\ spKey.used \in Nat
  BY DEF SpendingInv, SpTypeOK
<1>4. KeyWindows \subseteq Windows
  BY DEF Windows
<1>5. CASE Usable
  <2>1. \A w \in Windows : Within(w)
    BY <1>5 DEF Usable, KeyUsable
  <2>2. \A w \in {x \in Windows : spLimit[x] > 0} : SpentAtLeast(w) < spLimit[w]
    BY <1>1, <1>3, <2>1 DEF Within
  <2> QED
    BY <1>2, <1>5, <2>2 DEF SpendingExact, VerdictExact, SpendingInv
<1>6. CASE ~Usable
  <2>1. \A w \in Windows : ~Within(w) => spLimit[w] > 0 /\ SpentAtMost(w) >= spLimit[w]
    BY <1>1, <1>3 DEF Within
  <2>2. \/ \E w \in Windows : ~Within(w)
        \/ spKey.status # "active" \/ (spKey.quota > 0 /\ spKey.used >= spKey.quota)
    BY <1>3, <1>4, <1>6 DEF Usable, KeyUsable
  <2>3. VerdictExact
    BY <1>6, <2>1, <2>2 DEF VerdictExact
  <2> QED
    BY <1>2, <2>3 DEF SpendingExact, SpendingInv
<1> QED
  BY <1>5, <1>6

\* The limits of a key, of its user on a platform and of an account judge by what was really
\* spent in their windows, whatever was settled, reset or edited meanwhile (keys.go, quotas.go,
\* accounts.go and applyReceipt in settlement.go): but for what an account spent before it was
\* switched to fixed days with none of these open.
THEOREM LimitsJudgeWhatWasSpent == SpendingSpec => []SpendingExact
<1>1. SpInit => SpendingInv
  BY SpendingInit
<1>2. SpendingInv /\ [SpendingNext]_spVars => SpendingInv'
  BY SpendingStep
<1>3. SpendingInv => SpendingExact
  BY SpendingJudged
<1> QED
  BY <1>1, <1>2, <1>3, PTL DEF SpendingSpec

\* What the composition checks of spending holds for every instance of it.
THEOREM LimitsJudgeWhatWasSpentTogether == AdminSpec => []SpendingExact
  BY AdminRunsEach, LimitsJudgeWhatWasSpent, PTL

=============================================================================
