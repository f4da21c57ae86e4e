------------------------------ MODULE Composite -----------------------------
(***************************************************************************)
(* Composite groups (composite.go): a group without a platform of its own. *)
(* The model and the endpoint of a request decide its platform and its     *)
(* upstream model: by the best of the routes of the group, else by the     *)
(* platform whose accounts expose the model as an alias, else by the name  *)
(* of the model.  Routes and accounts are edited while requests wait.      *)
(***************************************************************************)
EXTENDS Integers, Sequences, SequencesExt, FiniteSetsExt

CONSTANTS
    CoModels,       \* names of models: sequences, so that they have prefixes
    CoEndpoints,    \* endpoints of requests
    CoIds,          \* ids of routes, numbers
    CoPriorities,
    CoTarget,       \* id -> platform of the route
    CoUpstream,     \* id -> upstream model of the route, <<>> for the model of the request
    CoAccounts,     \* accounts of the group
    CoPlatform,     \* account -> platform
    CoDetect,       \* rows <<prefix, platform>> of detectModelPlatform, in order
    NoPlatform,
    CoMaxEdits      \* bound: edits of routes and accounts

ASSUME CoAssumption == /\ CoIds \subseteq Nat /\ CoPriorities \subseteq Int /\ CoMaxEdits \in Nat
                       /\ IsFiniteSet(CoAccounts) /\ \A m \in CoModels : Len(m) \in Nat
                       /\ NoPlatform \notin {CoPlatform[a] : a \in CoAccounts} \cup {CoTarget[i] : i \in CoIds}

VARIABLES
    coRoutes,   \* the enabled routes of the group
    coAlias,    \* by account: the models it exposes, if it can be scheduled
    coReq,      \* a request of the gateway
    coEdits

coVars == <<coRoutes, coAlias, coReq, coEdits>>

CoRoute == [id : CoIds, match : {"exact", "prefix"}, model : CoModels, endpoint : CoEndpoints \cup {"any"},
            priority : CoPriorities]
CoIdle == [at |-> "idle"]

CoInit == coRoutes = {} /\ coAlias = [a \in CoAccounts |-> {}] /\ coReq = CoIdle /\ coEdits = 0
-----------------------------------------------------------------------------
(* loadComposite and resolve.                                              *)

\* betterCompositeRoute.
BetterCompositeRoute(a, b, endpoint) ==
    IF a.match # b.match THEN a.match = "exact"
    ELSE IF (a.endpoint = endpoint) # (b.endpoint = endpoint) THEN a.endpoint = endpoint
    ELSE IF Len(a.model) # Len(b.model) THEN Len(a.model) > Len(b.model)
    ELSE IF a.priority # b.priority THEN a.priority < b.priority
    ELSE a.id < b.id

Matches(r, model, endpoint) ==
    /\ r.endpoint \in {"any", endpoint}
    /\ IF r.match = "exact" THEN r.model = model ELSE IsPrefix(r.model, model)

\* The query returns the routes by priority, then by id: the last of some.
LastLoaded(routes) ==
    CHOOSE r \in routes : \A o \in routes : o.priority < r.priority \/ (o.priority = r.priority /\ o.id <= r.id)

\* The best so far, after one more route; the routes are taken in that order.
NoRoute == [match |-> "none"]
BetterOf(r, best, endpoint) == IF best = NoRoute \/ BetterCompositeRoute(r, best, endpoint) THEN r ELSE best
BestRoute(model, endpoint) ==
    MapThenFoldSet(LAMBDA r, best : BetterOf(r, best, endpoint), NoRoute, LAMBDA r : r, LastLoaded,
                   {r \in coRoutes : Matches(r, model, endpoint)})

\* The accounts come in no order; an alias of two platforms has no owner.
Claim(owner, platform) == IF owner.claimed /\ owner.platform # platform THEN NoPlatform ELSE platform

Owner(model) ==
    FoldSet(LAMBDA a, o : [claimed |-> TRUE, platform |-> Claim(o, CoPlatform[a])],
            [claimed |-> FALSE, platform |-> NoPlatform], {a \in CoAccounts : model \in coAlias[a]})

DetectModelPlatform(model) ==
    LET row == SelectInSeq(CoDetect, LAMBDA d : IsPrefix(d[1], model)) IN
    IF row = 0 THEN NoPlatform ELSE CoDetect[row][2]

\* The platform and the upstream model, with what decided them; NoPlatform
\* when the request is refused.
Resolved(model, endpoint) ==
    LET best == BestRoute(model, endpoint) IN
    IF best # NoRoute
    THEN [by |-> best.id, platform |-> CoTarget[best.id],
          upstream |-> IF CoUpstream[best.id] = <<>> THEN model ELSE CoUpstream[best.id]]
    ELSE IF Owner(model).claimed THEN [by |-> "alias", platform |-> Owner(model).platform, upstream |-> model]
    ELSE [by |-> "name", platform |-> DetectModelPlatform(model), upstream |-> model]
-----------------------------------------------------------------------------
(* Edits: compositeRoutes, and the aliases, the state and the groups of    *)
(* accounts (updateAccount, setAccountGroups, deleteAccount).              *)

CoEdit == coEdits < CoMaxEdits /\ coEdits' = coEdits + 1

\* POST and PUT; a PUT that disables the route is the same as a DELETE here.
SaveRoute(r) ==
    /\ CoEdit /\ coRoutes' = {x \in coRoutes : x.id # r.id} \cup {r}
    /\ UNCHANGED <<coAlias, coReq>>

DropRoute(r) == CoEdit /\ r \in coRoutes /\ coRoutes' = coRoutes \ {r} /\ UNCHANGED <<coAlias, coReq>>

SetAliases(a, models) == CoEdit /\ coAlias' = [coAlias EXCEPT ![a] = models] /\ UNCHANGED <<coRoutes, coReq>>
-----------------------------------------------------------------------------
(* A request: resolved on arrival, and again each time it is woken while   *)
(* it waits for an account (revalidateQueuedRequest).                      *)

RouteRequest(model, endpoint) ==
    LET d == Resolved(model, endpoint) IN
    /\ coReq = CoIdle /\ d.platform # NoPlatform
    /\ coReq' = [at |-> "routed", model |-> model, endpoint |-> endpoint, platform |-> d.platform,
                 upstream |-> d.upstream, held |-> TRUE]
    /\ UNCHANGED <<coRoutes, coAlias, coEdits>>

\* chooseAccount finds every account busy, at first or again after a wait.
\* held: the decision was right at some time since the request was last woken.
AccountBusy ==
    /\ coReq.at \in {"routed", "checked"} /\ coReq' = [coReq EXCEPT !.at = "queued", !.held = FALSE]
    /\ UNCHANGED <<coRoutes, coAlias, coEdits>>

StillRoutedPlatform(q) == Resolved(q.model, q.endpoint).platform = q.platform
StillRouted(q) ==
    /\ Resolved(q.model, q.endpoint).platform = q.platform
    /\ Resolved(q.model, q.endpoint).upstream = q.upstream

Revalidate ==
    LET d == Resolved(coReq.model, coReq.endpoint) IN
    /\ coReq.at = "queued"
    /\ coReq' = IF StillRouted(coReq)
                THEN [coReq EXCEPT !.at = "checked", !.held = <<d.platform, d.upstream>> = <<coReq.platform, coReq.upstream>>]
                ELSE CoIdle
    /\ UNCHANGED <<coRoutes, coAlias, coEdits>>

SendRequest ==
    /\ coReq.at \in {"routed", "checked"} /\ coReq' = [coReq EXCEPT !.at = "sent"]
    /\ UNCHANGED <<coRoutes, coAlias, coEdits>>

FinishRequest == coReq.at \in {"routed", "queued", "sent"} /\ coReq' = CoIdle /\ UNCHANGED <<coRoutes, coAlias, coEdits>>

CompositeNext ==
    \/ \E r \in CoRoute : SaveRoute(r) \/ DropRoute(r)
    \/ \E a \in CoAccounts, models \in SUBSET CoModels : SetAliases(a, models)
    \/ \E m \in CoModels, e \in CoEndpoints : RouteRequest(m, e)
    \/ AccountBusy \/ Revalidate \/ SendRequest \/ FinishRequest

CompositeSpec == CoInit /\ [][CompositeNext]_coVars
-----------------------------------------------------------------------------
(* What the rules say: of the routes that fit, the exact ones if there are *)
(* any; of those the ones for the endpoint; then the longest, the first in *)
(* priority, the oldest.                                                   *)

Narrow(S, P(_)) == IF \E r \in S : P(r) THEN {r \in S : P(r)} ELSE S
ChosenRoutes(model, endpoint) ==
    LET fits == {r \in coRoutes : Matches(r, model, endpoint)}
        exact == Narrow(fits, LAMBDA r : r.match = "exact")
        own == Narrow(exact, LAMBDA r : r.endpoint = endpoint)
        long == {r \in own : \A o \in own : Len(o.model) <= Len(r.model)}
        first == {r \in long : \A o \in long : r.priority <= o.priority}
    IN  {r \in first : \A o \in first : r.id <= o.id}

\* The comparison of pairs in resolve, folded over the routes, chooses the route
\* that the rules choose, and an alias decides only when accounts of exactly one
\* platform expose it, in whatever order the rows of the accounts arrive.
RoutedByRules ==
    \A m \in CoModels, e \in CoEndpoints :
        LET d == Resolved(m, e)
            chosen == ChosenRoutes(m, e)
            claims == {CoPlatform[a] : a \in {x \in CoAccounts : m \in coAlias[x]}}
        IN  /\ \A r \in chosen : d.by = r.id
            /\ chosen = {} /\ claims # {} => d.platform = IF \E p \in claims : claims = {p}
                                                          THEN CHOOSE p \in claims : TRUE ELSE NoPlatform

\* A request is sent to a platform and an upstream model that the routes and the
\* aliases chose at some time after its last wait for an account, whatever was
\* edited while it waited: "require a new request rather than combining old and
\* new policy" (revalidateQueuedRequest in concurrency.go).
QueuedRouteFresh == coReq.at = "sent" => coReq.held
=============================================================================
