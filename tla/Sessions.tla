------------------------------ MODULE Sessions ------------------------------
(***************************************************************************)
(* Users and their sessions (auth.go, users.go).  Users are rows of        *)
(* PostgreSQL; a session is a hash in Redis that names its user, the       *)
(* fingerprint of the password it was opened with, the user's epoch and    *)
(* the refresh token in use.  No transaction spans the two stores, so a    *)
(* login, a request, a refresh and an administrator's edit interleave      *)
(* between their reads and writes of either.                               *)
(*                                                                         *)
(* A password hash is its version: bcrypt never yields the same hash       *)
(* twice.  A refresh token is the number of rotations of its session.      *)
(***************************************************************************)
EXTENDS Integers, FiniteSets

CONSTANTS
    SsUsers,
    SsClients,      \* concurrent HTTP requests
    SsNobody,
    SsMaxSessions,  \* bound: sessions opened
    SsMaxRefresh,   \* bound: rotations of one session
    SsMaxChanges    \* bound: edits of users, passwords and epochs

ASSUME SsAssumption ==
    SsNobody \notin SsUsers \cup SsClients /\ {SsMaxSessions, SsMaxRefresh, SsMaxChanges} \subseteq Nat

VARIABLES
    ssUser,     \* table users
    ssEpoch,    \* lite-api:sessions-epoch
    ssSess,     \* lite-api:session
    ssGraph,    \* who holds the advisory lock 720032
    ssRow,      \* who holds the row of each user
    ssProc,     \* what each request has read so far
    ssSpent,    \* refresh tokens that were exchanged, with multiplicity 1 or 2
    ssChanges

ssVars == <<ssUser, ssEpoch, ssSess, ssGraph, ssRow, ssProc, ssSpent, ssChanges>>

SessionIds == 1..SsMaxSessions
SsIdle == [op |-> "idle"]
Unborn == [born |-> FALSE, live |-> FALSE, active |-> FALSE, admin |-> FALSE, pw |-> 0]
Closed == [user |-> SsNobody, pw |-> 0, epoch |-> 0, refresh |-> 0, revoked |-> FALSE]

SsInit ==
    /\ ssUser = [u \in SsUsers |-> Unborn] /\ ssEpoch = [u \in SsUsers |-> 0]
    /\ ssSess = [s \in {} |-> Closed]
    /\ ssGraph = SsNobody /\ ssRow = [u \in SsUsers |-> SsNobody]
    /\ ssProc = [c \in SsClients |-> SsIdle]
    /\ ssSpent = [t \in {} |-> 0] /\ ssChanges = 0

Become(c, state) == ssProc' = [ssProc EXCEPT ![c] = state]
Change == ssChanges < SsMaxChanges /\ ssChanges' = ssChanges + 1
\* From here on the sessions of u are revoked: what the properties remember.
Revoked(u) == [s \in DOMAIN ssSess |-> [ssSess[s] EXCEPT !.revoked = @ \/ ssSess[s].user = u]]
Loadable(u) == ssUser[u].live /\ ssUser[u].active
Admins == {u \in SsUsers : ssUser[u].live /\ ssUser[u].active /\ ssUser[u].admin}
-----------------------------------------------------------------------------
(* login: the password is compared before the transaction, and again under *)
(* the row lock that it holds while the session is stored.                 *)

\* Bootstrap, and createUser.
AddUser(u, admin) ==
    /\ ~ssUser[u].born
    /\ ssUser' = [ssUser EXCEPT ![u] = [born |-> TRUE, live |-> TRUE, active |-> TRUE, admin |-> admin, pw |-> 1]]
    /\ UNCHANGED <<ssEpoch, ssSess, ssGraph, ssRow, ssProc, ssSpent, ssChanges>>

Bootstrap(u) == u = (CHOOSE v \in SsUsers : TRUE) /\ ssGraph = SsNobody /\ (\A v \in SsUsers : ~ssUser[v].born) /\ AddUser(u, TRUE)
CreateUser(u, admin) == Admins # {} /\ AddUser(u, admin)

LoginCompare(c, u) ==
    /\ ssProc[c] = SsIdle /\ ssUser[u].live /\ Cardinality(DOMAIN ssSess) < SsMaxSessions
    /\ Become(c, [op |-> "login", user |-> u, hash |-> ssUser[u].pw])
    /\ UNCHANGED <<ssUser, ssEpoch, ssSess, ssGraph, ssRow, ssSpent, ssChanges>>

\* The row lock, and createSession's read of the epoch: until its script only
\* Redis is touched, so the two reads may be taken together.
LoginLock(c) ==
    LET p == ssProc[c] IN
    /\ p.op = "login" /\ ssRow[p.user] = SsNobody
    /\ IF Loadable(p.user) /\ ssUser[p.user].pw = p.hash
       THEN /\ Become(c, [op |-> "store", user |-> p.user, epoch |-> ssEpoch[p.user]])
            /\ ssRow' = [ssRow EXCEPT ![p.user] = c]
       ELSE Become(c, SsIdle) /\ UNCHANGED ssRow
    /\ UNCHANGED <<ssUser, ssEpoch, ssSess, ssGraph, ssSpent, ssChanges>>

\* createSession's script stores the session if the epoch is still the one read.
CreateSessionStore(c) ==
    LET p == ssProc[c]
        new == CHOOSE s \in SessionIds \ DOMAIN ssSess : TRUE
    IN
    /\ p.op = "store" /\ Become(c, SsIdle) /\ ssRow' = [ssRow EXCEPT ![p.user] = SsNobody]
    /\ ssSess' = IF p.epoch = ssEpoch[p.user] /\ SessionIds # DOMAIN ssSess
                 THEN [s \in DOMAIN ssSess \cup {new} |->
                         IF s = new THEN [user |-> p.user, pw |-> ssUser[p.user].pw, epoch |-> p.epoch,
                                          refresh |-> 0, revoked |-> FALSE]
                         ELSE ssSess[s]]
                 ELSE ssSess
    /\ UNCHANGED <<ssUser, ssEpoch, ssGraph, ssSpent, ssChanges>>
-----------------------------------------------------------------------------
(* authenticate and refresh: the user, then the session, then its epoch.   *)

Purposes == {"logout", "revoke", "password"}

\* loadIdentity.  The client names its session; what holds at this moment is
\* remembered for the properties.
Present(c, s, purpose, token) ==
    LET u == ssSess[s].user IN
    /\ ssProc[c] = SsIdle /\ u # SsNobody /\ Loadable(u)
    /\ Become(c, [op |-> "loaded", user |-> u, pw |-> ssUser[u].pw, sess |-> s, for |-> purpose,
                  token |-> token, old |-> ssSess[s].revoked])
    /\ UNCHANGED <<ssUser, ssEpoch, ssSess, ssGraph, ssRow, ssSpent, ssChanges>>

ReadSession(c) ==
    LET p == ssProc[c] IN
    /\ p.op = "loaded"
    /\ Become(c, [op |-> "fields", user |-> p.user, pw |-> p.pw, sess |-> p.sess, for |-> p.for,
                  token |-> p.token, old |-> p.old, fields |-> ssSess[p.sess]])
    /\ UNCHANGED <<ssUser, ssEpoch, ssSess, ssGraph, ssRow, ssSpent, ssChanges>>

ValidSession(p) == p.fields.user = p.user /\ p.fields.pw = p.pw /\ p.fields.epoch = ssEpoch[p.user]

ReadEpoch(c) ==
    LET p == ssProc[c] IN
    /\ p.op = "fields"
    /\ Become(c, IF ValidSession(p) THEN [p EXCEPT !.op = "accepted"] ELSE SsIdle)
    /\ UNCHANGED <<ssUser, ssEpoch, ssSess, ssGraph, ssRow, ssSpent, ssChanges>>

\* refresh's script rotates the token if neither it nor the epoch has changed.
MayRotate(p) == p.fields.epoch = ssEpoch[p.user] /\ ssSess[p.sess].user # SsNobody /\ ssSess[p.sess].refresh = p.token

Rotate(c) ==
    LET p == ssProc[c]
        token == <<p.sess, p.token>>
    IN
    /\ p.op = "accepted" /\ p.for = "refresh" /\ Become(c, SsIdle)
    /\ IF MayRotate(p)
       THEN /\ ssSess' = [ssSess EXCEPT ![p.sess].refresh = p.token + 1]
            /\ ssSpent' = [t \in DOMAIN ssSpent \cup {token} |->
                             IF t \notin DOMAIN ssSpent THEN 1 ELSE IF t = token THEN 2 ELSE ssSpent[t]]
       ELSE UNCHANGED <<ssSess, ssSpent>>
    /\ UNCHANGED <<ssUser, ssEpoch, ssGraph, ssRow, ssChanges>>

Logout(c) ==
    /\ ssProc[c].op = "accepted" /\ ssProc[c].for = "logout" /\ Become(c, SsIdle)
    /\ ssSess' = [ssSess EXCEPT ![ssProc[c].sess] = Closed]
    /\ UNCHANGED <<ssUser, ssEpoch, ssGraph, ssRow, ssSpent, ssChanges>>

\* logout with a refresh token alone ends the session if the token is in use.
LogoutToken(s, token) ==
    /\ ssSess[s].user # SsNobody /\ ssSess[s].refresh = token
    /\ ssSess' = [ssSess EXCEPT ![s] = Closed]
    /\ UNCHANGED <<ssUser, ssEpoch, ssGraph, ssRow, ssProc, ssSpent, ssChanges>>

RevokeAll(c) ==
    LET u == ssProc[c].user IN
    /\ ssProc[c].op = "accepted" /\ ssProc[c].for = "revoke" /\ Become(c, SsIdle) /\ Change
    /\ ssEpoch' = [ssEpoch EXCEPT ![u] = @ + 1] /\ ssSess' = Revoked(u)
    /\ UNCHANGED <<ssUser, ssGraph, ssRow, ssSpent>>

\* changePassword writes over the hash it was authenticated with.
ChangePassword(c) ==
    LET u == ssProc[c].user IN
    /\ ssProc[c].op = "accepted" /\ ssProc[c].for = "password" /\ ssRow[u] = SsNobody /\ Become(c, SsIdle) /\ Change
    /\ IF ssUser[u].live /\ ssUser[u].pw = ssProc[c].pw
       THEN ssUser' = [ssUser EXCEPT ![u].pw = @ + 1] /\ ssSess' = Revoked(u)
       ELSE UNCHANGED <<ssUser, ssSess>>
    /\ UNCHANGED <<ssEpoch, ssGraph, ssRow, ssSpent>>
-----------------------------------------------------------------------------
(* updateUser and deleteUser: under the graph lock and the row lock they   *)
(* check, revoke in Redis, and commit.                                     *)

UserEdits ==
    [what : {"status", "role"}, to : BOOLEAN] \cup [what : {"password", "delete"}, to : {FALSE}]

AfterEdit(row, edit) ==
    CASE edit.what = "status" -> [row EXCEPT !.active = edit.to]
      [] edit.what = "role" -> [row EXCEPT !.admin = edit.to]
      [] edit.what = "password" -> [row EXCEPT !.pw = @ + 1]
      [] edit.what = "delete" -> [row EXCEPT !.live = FALSE, !.active = FALSE]

\* An administrator was one when the request was authenticated, not
\* necessarily when it gets the lock.
StartEdit(c, by, u, edit) ==
    /\ ssProc[c] = SsIdle /\ by \in Admins /\ ssUser[u].live /\ AfterEdit(ssUser[u], edit) # ssUser[u] /\ Change
    /\ Become(c, [op |-> "edit", by |-> by, user |-> u, edit |-> edit])
    /\ UNCHANGED <<ssUser, ssEpoch, ssSess, ssGraph, ssRow, ssSpent>>

\* Nobody removes an administrator that is himself or the last one.
MayEdit(p) ==
    /\ p.edit.what = "delete" => p.user # p.by
    /\ ssUser[p.user].admin /\ p.edit.what # "password" /\ ~p.edit.to
        => p.user # p.by /\ Admins \ {p.user} # {}

\* revoke, for a deletion and for a change of the status that is stored.
Revokes(p) == p.edit.what = "delete" \/ (p.edit.what = "status" /\ p.edit.to # ssUser[p.user].active)

EditLock(c, locked) ==
    LET p == ssProc[c] IN
    /\ p.op = "edit" /\ ssRow[p.user] = SsNobody /\ (locked => ssGraph = SsNobody)
    /\ IF ssUser[p.user].live /\ MayEdit(p)
       THEN /\ Become(c, [p EXCEPT !.op = IF Revokes(p) THEN "revoked" ELSE "kept"])
            /\ ssGraph' = c /\ ssRow' = [ssRow EXCEPT ![p.user] = c]
            /\ ssEpoch' = IF Revokes(p) THEN [ssEpoch EXCEPT ![p.user] = @ + 1] ELSE ssEpoch
       ELSE Become(c, SsIdle) /\ UNCHANGED <<ssGraph, ssRow, ssEpoch>>
    /\ UNCHANGED <<ssUser, ssSess, ssSpent, ssChanges>>

EditBeginUnlocked(c) == EditLock(c, FALSE)
EditBegin(c) == EditLock(c, TRUE)

\* A statement that fails rolls back, and the epoch stays incremented.
EditCommit(c) ==
    LET p == ssProc[c] IN
    /\ p.op \in {"revoked", "kept"} /\ Become(c, SsIdle)
    /\ ssGraph' = SsNobody /\ ssRow' = [ssRow EXCEPT ![p.user] = SsNobody]
    /\ \E ok \in BOOLEAN :
        /\ ssUser' = IF ok THEN [ssUser EXCEPT ![p.user] = AfterEdit(@, p.edit)] ELSE ssUser
        /\ ssSess' = IF ok /\ (p.op = "revoked" \/ p.edit.what = "password") THEN Revoked(p.user) ELSE ssSess
    /\ UNCHANGED <<ssEpoch, ssSpent, ssChanges>>

SessionNext ==
    \/ \E u \in SsUsers : Bootstrap(u) \/ \E admin \in BOOLEAN : CreateUser(u, admin)
    \/ \E c \in SsClients, u \in SsUsers : LoginCompare(c, u)
    \/ \E c \in SsClients, by, u \in SsUsers, edit \in UserEdits : StartEdit(c, by, u, edit)
    \/ \E c \in SsClients, s \in DOMAIN ssSess :
        \/ \E purpose \in Purposes : Present(c, s, purpose, 0)
        \/ \E token \in 0..(SsMaxRefresh - 1) : Present(c, s, "refresh", token)
    \/ \E s \in DOMAIN ssSess, token \in 0..SsMaxRefresh : LogoutToken(s, token)
    \/ \E c \in SsClients :
        \/ LoginLock(c) \/ CreateSessionStore(c)
        \/ ReadSession(c) \/ ReadEpoch(c) \/ Rotate(c) \/ Logout(c) \/ RevokeAll(c) \/ ChangePassword(c)
        \/ EditBegin(c) \/ EditCommit(c)

SessionSpec == SsInit /\ [][SessionNext]_ssVars
-----------------------------------------------------------------------------
\* Once there is a user there is an active administrator: two administrators
\* cannot demote, disable or delete each other, though each request checks a
\* count that the other one is about to change.
AdministratorRemains == (\E u \in SsUsers : ssUser[u].born) => Admins # {}

\* A request is accepted only on a session that was opened after the last
\* revocation, status change, deletion or password change of its user that was
\* complete when the request arrived.
RevokedStayOut ==
    \A c \in SsClients : ssProc[c].op = "accepted" => ~ssProc[c].old

\* Of two requests with the same refresh token at most one gets its successor.
TokenSpentOnce == \A t \in DOMAIN ssSpent : ssSpent[t] = 1
=============================================================================
