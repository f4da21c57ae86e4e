----------------------------- MODULE KeyAccess ------------------------------
(***************************************************************************)
(* API keys and the groups they may use (keys.go, the permissions of       *)
(* users.go and groups.go, gatewayAuth in gateway.go, and the waits of     *)
(* concurrency.go).  A key names a group; the right to use a group follows *)
(* from the group, from its user and from the grants of the user, each of  *)
(* which is edited on its own.  Assigning a key checks the right first and *)
(* writes later, so keys may well name groups that their users lost        *)
(* meanwhile; and a request may wait long after it was checked.            *)
(***************************************************************************)
EXTENDS Integers

CONSTANTS
    KaKeys, KaGroups, NoKeyGroup,
    KaMaxEdits      \* bound: edits of keys, groups and grants

ASSUME KaAssumption == NoKeyGroup \notin KaGroups /\ KaMaxEdits \in Nat

VARIABLES
    kaKey,      \* table api_keys of one user
    kaGroup,    \* table groups
    kaAllowed,  \* user_allowed_groups of the user
    kaUser,     \* the user: live, and kept from public groups
    kaEdit,     \* an assignment between its check and its write
    kaReq,      \* a gateway request
    kaEdits

kaVars == <<kaKey, kaGroup, kaAllowed, kaUser, kaEdit, kaReq, kaEdits>>

KaIdle == [at |-> "idle"]

KaInit ==
    /\ kaKey = [k \in KaKeys |-> [born |-> FALSE, live |-> FALSE, on |-> FALSE, group |-> NoKeyGroup]]
    /\ kaGroup \in [KaGroups -> [live : {TRUE}, active : {TRUE}, exclusive : BOOLEAN]]
    /\ kaAllowed = KaGroups
    /\ kaUser = [live |-> TRUE, restricted |-> FALSE]
    /\ kaEdit = KaIdle /\ kaReq = KaIdle /\ kaEdits = 0

\* groupAccess, on the rows it reads; it does not ask whether the user is deleted.
HasAccess(g, groups, allowed, user) ==
    /\ groups[g].live /\ groups[g].active
    /\ ((~groups[g].exclusive /\ ~user.restricted) \/ g \in allowed)

GroupAccess(g) == IF g = NoKeyGroup THEN TRUE ELSE HasAccess(g, kaGroup, kaAllowed, kaUser)

\* What the properties remember: whether the user of the request had the right
\* to its group at any time since the request was last authenticated.
Watch(groups, allowed, user) ==
    kaReq' = IF kaReq = KaIdle \/ kaReq.at = "waiting" THEN kaReq
             ELSE [kaReq EXCEPT !.had = @ \/ HasAccess(kaReq.group, groups, allowed, user)]

KaChange == kaEdits < KaMaxEdits /\ kaEdits' = kaEdits + 1
-----------------------------------------------------------------------------
(* createKey, updateKey, adminKey, deleteKey.                              *)

\* An administrator's edit holds the lock of the row of its key.
KeyFree(k) == IF kaEdit = KaIdle THEN TRUE ELSE ~kaEdit.admin \/ kaEdit.key # k

\* The owner's request checks the access; an administrator's grants it.
CheckKey(k, g) ==
    /\ kaEdit = KaIdle /\ kaUser.live /\ (kaKey[k].live \/ ~kaKey[k].born) /\ GroupAccess(g) /\ KaChange
    /\ kaEdit' = [at |-> "write", key |-> k, group |-> g, grant |-> FALSE, admin |-> FALSE, create |-> ~kaKey[k].born]
    /\ UNCHANGED <<kaKey, kaGroup, kaAllowed, kaUser, kaReq>>

CheckAdminKey(k, g) ==
    /\ kaEdit = KaIdle /\ kaKey[k].live /\ kaGroup[g].live /\ kaGroup[g].active /\ KaChange
    /\ kaEdit' = [at |-> "write", key |-> k, group |-> g, grant |-> ~GroupAccess(g), admin |-> TRUE, create |-> FALSE]
    /\ UNCHANGED <<kaKey, kaGroup, kaAllowed, kaUser, kaReq>>

WriteKey ==
    LET e == kaEdit IN
    /\ e # KaIdle /\ kaEdit' = KaIdle
    /\ kaKey' = IF e.create THEN [kaKey EXCEPT ![e.key] = [born |-> TRUE, live |-> TRUE, on |-> TRUE, group |-> e.group]]
                ELSE IF kaKey[e.key].live THEN [kaKey EXCEPT ![e.key].group = e.group] ELSE kaKey
    /\ kaAllowed' = IF e.grant THEN kaAllowed \cup {e.group} ELSE kaAllowed
    /\ Watch(kaGroup, kaAllowed', kaUser)
    /\ UNCHANGED <<kaGroup, kaUser, kaEdits>>

SetKeyStatus(k, on) ==
    /\ kaKey[k].live /\ kaKey[k].on # on /\ KeyFree(k) /\ KaChange /\ kaKey' = [kaKey EXCEPT ![k].on = on]
    /\ UNCHANGED <<kaGroup, kaAllowed, kaUser, kaEdit, kaReq>>

DeleteKey(k) ==
    /\ kaKey[k].live /\ KeyFree(k) /\ kaKey' = [kaKey EXCEPT ![k].live = FALSE, ![k].on = FALSE]
    /\ UNCHANGED <<kaGroup, kaAllowed, kaUser, kaEdit, kaReq, kaEdits>>
-----------------------------------------------------------------------------
(* What takes a right away, or moves it.                                   *)

\* replaceGroup: one transaction under the locks of the user and of the new
\* group, which must be an active exclusive one.
ReplaceGroup(old, new) ==
    /\ old # new /\ kaUser.live /\ kaGroup[new].live /\ kaGroup[new].active /\ kaGroup[new].exclusive
    /\ (\A k \in KaKeys : kaKey[k].group = old => KeyFree(k)) /\ KaChange
    /\ kaAllowed' = (kaAllowed \cup {new}) \ {old}
    /\ kaKey' = [k \in KaKeys |-> IF kaKey[k].live /\ kaKey[k].group = old THEN [kaKey[k] EXCEPT !.group = new] ELSE kaKey[k]]
    /\ Watch(kaGroup, kaAllowed', kaUser)
    /\ UNCHANGED <<kaGroup, kaUser, kaEdit>>

\* allowedGroups, and restrict_public_groups, of updateUser.
SetGrants(allowed, restricted) ==
    /\ kaUser.live /\ (\A g \in allowed : kaGroup[g].live) /\ KaChange
    /\ kaAllowed' = allowed /\ kaUser' = [kaUser EXCEPT !.restricted = restricted]
    /\ Watch(kaGroup, kaAllowed', kaUser')
    /\ UNCHANGED <<kaKey, kaGroup, kaEdit>>

\* updateGroup and deleteGroup, as far as they matter for access.
ChangeGroup(g) ==
    /\ kaGroup[g].live /\ KaChange
    /\ \E row \in {[kaGroup[g] EXCEPT !.active = ~@], [kaGroup[g] EXCEPT !.exclusive = ~@],
                   [kaGroup[g] EXCEPT !.live = FALSE, !.active = FALSE]} :
        kaGroup' = [kaGroup EXCEPT ![g] = row]
    /\ Watch(kaGroup', kaAllowed, kaUser)
    /\ UNCHANGED <<kaKey, kaAllowed, kaUser, kaEdit>>

\* deleteUser drops the keys and the grants.  createKey locks nothing of the
\* user, so a key it writes afterwards outlives them; LoadKey refuses it.
DropUser ==
    /\ kaUser.live /\ (\A k \in KaKeys : KeyFree(k)) /\ kaUser' = [kaUser EXCEPT !.live = FALSE]
    /\ kaKey' = [k \in KaKeys |-> [kaKey[k] EXCEPT !.live = FALSE, !.on = FALSE]]
    /\ kaAllowed' = {} /\ Watch(kaGroup, {}, kaUser')
    /\ UNCHANGED <<kaGroup, kaEdit, kaEdits>>
-----------------------------------------------------------------------------
(* gatewayAuth: the key with its user and group, then the access.          *)

KeyServes(k, g) ==
    /\ kaUser.live /\ kaKey[k].live /\ kaKey[k].on /\ kaKey[k].group = g
    /\ kaGroup[g].live /\ kaGroup[g].active

Loaded(k, g) ==
    [at |-> "loaded", key |-> k, group |-> g, held |-> TRUE, had |-> HasAccess(g, kaGroup, kaAllowed, kaUser)]

LoadKey(k) ==
    /\ kaReq = KaIdle
    /\ \E g \in KaGroups : KeyServes(k, g) /\ kaReq' = Loaded(k, g)
    /\ UNCHANGED <<kaKey, kaGroup, kaAllowed, kaUser, kaEdit, kaEdits>>

Admit(r) == GroupAccess(r.group)

CheckRequest ==
    /\ kaReq.at = "loaded" /\ kaReq' = IF Admit(kaReq) THEN [kaReq EXCEPT !.at = "admitted"] ELSE KaIdle
    /\ UNCHANGED <<kaKey, kaGroup, kaAllowed, kaUser, kaEdit, kaEdits>>

\* Waiting for a slot of the user or of an account, which forgets what was checked.
QueueRequest ==
    /\ kaReq.at = "admitted" /\ kaReq' = [kaReq EXCEPT !.at = "waiting", !.held = FALSE, !.had = FALSE]
    /\ UNCHANGED <<kaKey, kaGroup, kaAllowed, kaUser, kaEdit, kaEdits>>

\* waitUserSlot and revalidateQueuedRequest: gatewayAuth again, and the key must
\* still name the group that the request was admitted to.
ReloadKey ==
    /\ kaReq.at = "waiting"
    /\ kaReq' = IF KeyServes(kaReq.key, kaReq.group) THEN Loaded(kaReq.key, kaReq.group) ELSE KaIdle
    /\ UNCHANGED <<kaKey, kaGroup, kaAllowed, kaUser, kaEdit, kaEdits>>

EndRequest ==
    /\ kaReq.at \in {"admitted", "waiting"} /\ kaReq' = KaIdle
    /\ UNCHANGED <<kaKey, kaGroup, kaAllowed, kaUser, kaEdit, kaEdits>>

KeyNext ==
    \/ \E k \in KaKeys, g \in KaGroups \cup {NoKeyGroup} : CheckKey(k, g)
    \/ \E k \in KaKeys, g \in KaGroups : CheckAdminKey(k, g)
    \/ \E k \in KaKeys : DeleteKey(k) \/ LoadKey(k) \/ \E on \in BOOLEAN : SetKeyStatus(k, on)
    \/ \E old, new \in KaGroups : ReplaceGroup(old, new)
    \/ \E allowed \in SUBSET KaGroups, restricted \in BOOLEAN : SetGrants(allowed, restricted)
    \/ \E g \in KaGroups : ChangeGroup(g)
    \/ WriteKey \/ DropUser \/ CheckRequest \/ QueueRequest \/ ReloadKey \/ EndRequest

KeySpec == KaInit /\ [][KeyNext]_kaVars
-----------------------------------------------------------------------------
\* A request goes on with a group only if, since it arrived or last left a queue,
\* its key lived and named that group with a user who was not deleted, and that
\* user had the right to the group, both at some time: however stale the check
\* was that let the key name the group (updateKey checks outside any
\* transaction), whatever a deletion left behind, and whatever was edited while
\* the request waited (gatewayAuth, revalidateQueuedRequest).
AdmittedWithAccess == kaReq # KaIdle /\ kaReq.at = "admitted" => kaReq.held /\ kaReq.had
=============================================================================
