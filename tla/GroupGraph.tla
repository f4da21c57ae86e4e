----------------------------- MODULE GroupGraph -----------------------------
(***************************************************************************)
(* Groups, their fallbacks and the requests that are routed along them     *)
(* (groups.go, group_fallback.go).  A group may be reserved for one kind   *)
(* of client, and names the group that serves the others.  Creating and    *)
(* editing a group takes the advisory lock 720035, checks the graph, and   *)
(* commits; deleting one takes no lock.  A request reads its own group     *)
(* when it is authenticated, and every group behind it later, one by one.  *)
(***************************************************************************)
EXTENDS Integers, FiniteSets

CONSTANTS
    GgGroups, NoGroup,
    GgAdmins,       \* administrators' requests
    GgMaxChain,     \* groups in the longest chain that is accepted
    GgMaxEdits      \* bound: edits of groups

ASSUME GgAssumption ==
    /\ NoGroup \notin GgGroups \cup GgAdmins /\ IsFiniteSet(GgGroups)
    /\ {GgMaxChain, GgMaxEdits} \subseteq Nat /\ GgMaxChain > 1

VARIABLES
    ggGroup,    \* table groups
    ggLock,     \* who holds the advisory lock
    ggTx,       \* what each administrator's transaction will write
    ggReq,      \* a request of a client the group does not admit directly
    ggEdits

ggVars == <<ggGroup, ggLock, ggTx, ggReq, ggEdits>>

GgIdle == [at |-> "idle"]
GgRow == [born : BOOLEAN, live : BOOLEAN, active : BOOLEAN, codeOnly : BOOLEAN, fallback : GgGroups \cup {NoGroup}]

GgInit ==
    /\ ggGroup = [g \in GgGroups |-> [born |-> FALSE, live |-> FALSE, active |-> FALSE,
                                      codeOnly |-> FALSE, fallback |-> NoGroup]]
    /\ ggLock = NoGroup /\ ggTx = [t \in GgAdmins |-> GgIdle] /\ ggReq = GgIdle /\ ggEdits = 0

\* Any commit may have changed what a request is about to read.
Disturb == ggReq' = IF ggReq = GgIdle THEN ggReq ELSE [ggReq EXCEPT !.quiet = FALSE]
-----------------------------------------------------------------------------
(* validateGroupFallback: the graph as the transaction would leave it.     *)

Referenced(g, rows) == \E h \in GgGroups : rows[h].live /\ rows[h].fallback = g

\* The groups a walk along the fallbacks of g meets, as far as it goes.
FallbackWalk(g, rows) ==
    LET at[n \in 0..GgMaxChain] ==
            IF n = 0 THEN g ELSE IF at[n - 1] = NoGroup THEN NoGroup ELSE rows[at[n - 1]].fallback
    IN  at

ValidTargets(g, rows) ==
    LET walk == FallbackWalk(g, rows) IN
    \A n \in 1..GgMaxChain : walk[n] # NoGroup =>
        /\ n < GgMaxChain /\ walk[n] # g
        /\ rows[walk[n]].live /\ ~rows[walk[n]].codeOnly

ValidGroupFallback(g, rows, checkTarget) ==
    /\ rows[g].codeOnly => ~Referenced(g, rows)
    /\ checkTarget => ValidTargets(g, rows)
-----------------------------------------------------------------------------
(* createGroup and updateGroup.                                            *)

Patched(g) ==
    {[ggGroup[g] EXCEPT !.codeOnly = ~@], [ggGroup[g] EXCEPT !.active = ~@]}
    \cup {[ggGroup[g] EXCEPT !.fallback = f] : f \in GgGroups \cup {NoGroup}}

NewGroup == {row \in GgRow : row.born /\ row.live /\ row.active}

GroupTx(t, g, row) ==
    LET rows == [ggGroup EXCEPT ![g] = row]
        create == ~ggGroup[g].born
        checkTarget == create \/ (row.fallback # ggGroup[g].fallback /\ row.fallback # NoGroup)
    IN
    /\ ggTx[t] = GgIdle /\ ggEdits < GgMaxEdits /\ ggEdits' = ggEdits + 1
    /\ \A u \in GgAdmins : ggTx[u] # GgIdle => ggTx[u].group # g
    /\ ValidGroupFallback(g, rows, checkTarget)
    /\ ggLock' = t /\ ggTx' = [ggTx EXCEPT ![t] = [at |-> "write", group |-> g, row |-> row]]
    /\ UNCHANGED <<ggGroup, ggReq>>

GroupBegin(t, g, row) == ggLock = NoGroup /\ GroupTx(t, g, row)

CreateGroup(t, g) == ~ggGroup[g].born /\ \E row \in NewGroup : row.fallback # g /\ GroupBegin(t, g, row)
UpdateGroup(t, g) == ggGroup[g].live /\ \E row \in Patched(g) \ {ggGroup[g]} : GroupBegin(t, g, row)

GroupCommit(t) ==
    /\ ggTx[t] # GgIdle
    /\ ggGroup' = [ggGroup EXCEPT ![ggTx[t].group] = ggTx[t].row]
    /\ ggTx' = [ggTx EXCEPT ![t] = GgIdle] /\ ggLock' = NoGroup /\ Disturb
    /\ UNCHANGED ggEdits

\* deleteGroup: only a transaction that has written the same row delays it.
DeleteGroup(g) ==
    /\ ggGroup[g].live /\ (\A t \in GgAdmins : ggTx[t] # GgIdle => ggTx[t].group # g)
    /\ ggGroup' = [ggGroup EXCEPT ![g].live = FALSE, ![g].active = FALSE] /\ Disturb
    /\ UNCHANGED <<ggLock, ggTx, ggEdits>>
-----------------------------------------------------------------------------
(* resolveClientGroup.                                                     *)

\* The group of the key is read with the key.
Authenticated(g) ==
    /\ ggReq = GgIdle /\ ggGroup[g].live /\ ggGroup[g].active /\ ggGroup[g].codeOnly
    /\ ggReq' = [at |-> "route", seen |-> {g}, next |-> ggGroup[g].fallback, quiet |-> TRUE, group |-> NoGroup]
    /\ UNCHANGED <<ggGroup, ggLock, ggTx, ggEdits>>

FollowFallback ==
    LET f == ggReq.next IN
    /\ ggReq.at = "route"
    /\ ggReq' = IF f = NoGroup THEN [ggReq EXCEPT !.at = "refused"]
                ELSE IF f \in ggReq.seen \/ Cardinality(ggReq.seen) >= GgMaxChain THEN [ggReq EXCEPT !.at = "invalid"]
                ELSE IF ~ggGroup[f].live \/ ~ggGroup[f].active THEN [ggReq EXCEPT !.at = "unavailable"]
                ELSE IF ggGroup[f].codeOnly
                     THEN [ggReq EXCEPT !.seen = @ \cup {f}, !.next = ggGroup[f].fallback]
                ELSE [ggReq EXCEPT !.at = "routed", !.group = f, !.next = NoGroup]
    /\ UNCHANGED <<ggGroup, ggLock, ggTx, ggEdits>>

Replied ==
    /\ ggReq.at \in {"refused", "invalid", "unavailable", "routed"} /\ ggReq' = GgIdle
    /\ UNCHANGED <<ggGroup, ggLock, ggTx, ggEdits>>

GroupNext ==
    \/ \E t \in GgAdmins, g \in GgGroups : CreateGroup(t, g) \/ UpdateGroup(t, g)
    \/ \E t \in GgAdmins : GroupCommit(t)
    \/ \E g \in GgGroups : DeleteGroup(g) \/ Authenticated(g)
    \/ FollowFallback \/ Replied

GroupSpec == GgInit /\ [][GroupNext]_ggVars
-----------------------------------------------------------------------------
\* Where the fallbacks of g lead, until a group is missing.
LiveWalk(g) ==
    LET at[n \in 0..Cardinality(GgGroups)] ==
            IF n = 0 THEN ggGroup[g].fallback
            ELSE IF at[n - 1] = NoGroup \/ ~ggGroup[at[n - 1]].live THEN NoGroup
            ELSE ggGroup[at[n - 1]].fallback
    IN  at

\* The fallbacks of the groups never form a cycle, though each edit walks only
\* the chain that it starts.
NoGroupCycle ==
    \A g \in GgGroups : ggGroup[g].live =>
        \A n \in 0..Cardinality(GgGroups) : LiveWalk(g)[n] # g

\* A request that no edit disturbs is served by the first group behind its own,
\* or refused at once: whatever edits came before it, in whatever order, it
\* meets no second reserved group and no invalid chain.
RoutedInOneHop ==
    ggReq # GgIdle /\ ggReq.quiet => ggReq.at # "invalid" /\ Cardinality(ggReq.seen) = 1
=============================================================================
