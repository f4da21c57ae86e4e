------------------------------- MODULE MCAdmin ------------------------------
(***************************************************************************)
(* Small instances of what administrators and users edit while the gateway *)
(* runs: the graphs of proxies and of groups, sessions, keys and their     *)
(* groups, composite routes, spending limits, and the records of           *)
(* idempotency keys.  They meet in rows whose columns they do not share,   *)
(* so a behaviour is one of a single component.                            *)
(***************************************************************************)
EXTENDS ProxyRoutes, GroupGraph, Sessions, KeyAccess, Composite, Spending, Idempotency

CONSTANTS c1, c2, c3, k1, f1, f2, t1, t2, q1, q2

\* Proxy p1 falls back to p2, which falls back to the direct route.
MCFallback == [p \in PxProxies |-> [mode |-> IF p = "p1" THEN "proxy" ELSE IF p = "p2" THEN "direct" ELSE "none",
                                    backup |-> IF p = "p1" THEN "p2" ELSE NoProxy]]
MCAssigned == [a \in PxAccounts |-> "p1"]

\* Two names, one a prefix of the other; routes and accounts of two platforms.
MCModels == {<<"x">>, <<"x", "y">>}
MCTarget == [i \in CoIds |-> IF i = 2 THEN "grok" ELSE "openai"]
MCUpstream == [i \in CoIds |-> IF i = 3 THEN <<"z">> ELSE <<>>]
MCPlatform == [a \in CoAccounts |-> IF a = "a2" THEN "grok" ELSE "openai"]
MCDetect == << <<<<"x", "y">>, "openai">> >>

\* c1 and c2 repeat one request, c3 reuses their key for another.
MCKeyOf == [c \in Calls |-> k1]
MCFingerprint == [c \in Calls |-> IF c = c3 THEN f2 ELSE f1]

VARIABLE focus

Components == {"proxies", "groups", "sessions", "keys", "composite", "spending", "idempotency"}

\* Where a component has several initial states, they count in its behaviours only.
AdminInit ==
    /\ PxInit /\ GgInit /\ SsInit /\ KaInit /\ CoInit /\ SpInit /\ Init /\ focus \in Components
    /\ focus # "keys" => \A g \in KaGroups : kaGroup[g].exclusive
    /\ focus # "spending" => spFixed /\ spKey.quota = 0

Others(f, v) == focus # f => UNCHANGED v

AdminNext ==
    /\ UNCHANGED focus
    /\ Others("proxies", pxVars) /\ Others("groups", ggVars) /\ Others("sessions", ssVars) /\ Others("keys", kaVars)
    /\ Others("composite", coVars) /\ Others("spending", spVars) /\ Others("idempotency", vars)
    /\ \/ focus = "proxies" /\ ProxyNext
       \/ focus = "groups" /\ GroupNext
       \/ focus = "sessions" /\ SessionNext
       \/ focus = "keys" /\ KeyNext
       \/ focus = "composite" /\ CompositeNext
       \/ focus = "spending" /\ SpendingNext
       \/ focus = "idempotency" /\ Next

AdminSpec == AdminInit /\ [][AdminNext]_<<focus, pxVars, ggVars, ssVars, kaVars, coVars, spVars, vars>>

\* A request goes where the groups and routes in force send it: fallbacks of
\* groups end after one hop, the rules choose one route, and a request that
\* waited is not sent by rules that have changed since.
RoutingSound == NoGroupCycle /\ RoutedInOneHop /\ RoutedByRules /\ QueuedRouteFresh

\* Access that was taken away is not used: revoked sessions and spent refresh
\* tokens are refused, keys reach only groups their users may use, and the last
\* administrator cannot be lost.
AccessRevocable == AdministratorRemains /\ RevokedStayOut /\ TokenSpentOnce /\ AdmittedWithAccess
=============================================================================
