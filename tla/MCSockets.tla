------------------------------ MODULE MCSockets -----------------------------
(***************************************************************************)
(* Small instances of the connections a client keeps and of the voice      *)
(* library that realtime sessions name.  A behaviour is one of a single    *)
(* component: what they share, the registry of sockets and the process,    *)
(* Realtime has.                                                           *)
(***************************************************************************)
EXTENDS Realtime, ResponseSockets, CustomVoices

VARIABLE focus

SocketsInit ==
    /\ RtInit /\ WsInit /\ VoiceInit /\ focus \in {"realtime", "responses", "voices"}
    /\ focus # "responses" => \A a \in WsAccounts : wsAccount[a].mode = "passthrough"

SocketsNext ==
    /\ UNCHANGED focus
    /\ \/ focus = "realtime" /\ RtNext /\ UNCHANGED <<wsVars, cvVars>>
       \/ focus = "responses" /\ WsNext /\ UNCHANGED <<rtVars, cvVars>>
       \/ focus = "voices" /\ VoiceNext /\ UNCHANGED <<rtVars, wsVars>>

\* WsFairness and VoiceFairness ask for nothing while no call is under way. The
\* worker of Realtime runs from the start, but only where Realtime does.
SocketsFairness ==
    /\ \A s \in RtSessions : WF_rtVars(RtHandler(s))
    /\ WF_rtVars(focus = "realtime" /\ RtRecovery) /\ WF_rtVars(RtExit)
    /\ WsFairness /\ VoiceFairness

SocketsSpec ==
    SocketsInit /\ [][SocketsNext]_<<focus, rtVars, wsVars, cvVars>> /\ SocketsFairness

\* Nothing a connection leaves behind lasts: what a session relayed is charged
\* and its snapshots removed, a cancelled socket accounts for its turns and is
\* gone, and the slot of the voice library is free again.
ConnectionsEnd == SessionsCharged /\ SocketEnds /\ VoiceSlotFreed
=============================================================================
