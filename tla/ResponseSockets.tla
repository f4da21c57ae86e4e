-------------------------- MODULE ResponseSockets ---------------------------
(***************************************************************************)
(* Responses over WebSocket (responses_ws.go, responses_ws_bridge.go): one *)
(* client connection, whose turns run one after the other through          *)
(* textGateway.  A turn goes over the connection's private upstream        *)
(* WebSocket (mode passthrough) or as an HTTP request that replays the     *)
(* history kept on this connection (mode http_bridge).  Administrators     *)
(* edit the accounts meanwhile, the client may leave and the process stop. *)
(*                                                                         *)
(* A source is an account with its target, the digest of its protocol,     *)
(* address, credentials and headers.  The id of a response is its place in *)
(* wsLog; WsOld is a response whose binding another connection has stored  *)
(* in Redis.                                                               *)
(***************************************************************************)
EXTENDS Sums, Sequences, SequencesExt

CONSTANTS
    WsAccounts,
    WsHome,         \* the account that produced WsOld
    WsMaxTurns,     \* bound: turns the client asks for
    WsMaxEdits,     \* bound: edits of an administrator
    WsKeep,         \* snapshots kept for the bridge
    WsKeepIds,      \* response ids kept on the connection
    WsLimit,        \* bytes of the snapshots kept
    WsSnapshot,     \* bytes of the largest snapshot kept
    WsSizes         \* what a turn adds to its history

WsNone == 0
WsOld == -1
WsModes == {"passthrough", "http_bridge"}
WsTargets == 1..(WsMaxEdits + 1)
WsSources == WsAccounts \X WsTargets
NoSource == <<>>

ASSUME WsAssumption ==
    /\ WsHome \in WsAccounts
    /\ {WsMaxTurns, WsMaxEdits} \subseteq Nat /\ {WsKeep, WsKeepIds} \subseteq Nat \ {0}
    /\ WsSnapshot \in Nat /\ WsLimit \in Nat /\ WsSnapshot <= WsLimit
    /\ WsSizes \subseteq Nat

VARIABLES
    wsAccount,  \* mode, target and proxy route of each account
    wsSocket,   \* phase, mode, binding and upstream link of the connection
    wsInbox,    \* how many frames wait in the channel messages, of one place
    wsTurn,     \* the turn that runs
    wsLog,      \* every turn that an upstream, or a warmup, has accepted
    wsIds,      \* responses: the source of each id of this connection
    wsIdOrder,  \* responseOrder
    wsStored,   \* gateway:response bindings in Redis
    wsHistory,  \* bridgeHistory: the sizes of the items of each snapshot
    wsOrder,    \* bridgeOrder
    wsBytes,    \* bridgeBytes
    wsAsked, wsEdits

wsVars == <<wsAccount, wsSocket, wsInbox, wsTurn, wsLog, wsIds, wsIdOrder, wsStored, wsHistory,
            wsOrder, wsBytes, wsAsked, wsEdits>>
wsMemory == <<wsIds, wsIdOrder, wsStored, wsHistory, wsOrder, wsBytes>>
wsWorld == <<wsAccount, wsAsked, wsEdits>>

WsTotal(items) == SumOver(items, DOMAIN items)
WsIdle == [at |-> "idle", prev |-> WsNone, warm |-> FALSE, source |-> NoSource, mode |-> "",
           input |-> <<>>, size |-> 0, tried |-> {}]

WsInit ==
    /\ wsAccount \in [WsAccounts -> [mode : WsModes, target : {1}, route : {1}]]
    /\ wsSocket = [phase |-> "open", mode |-> "", binding |-> NoSource, link |-> NoSource, route |-> 0]
    /\ wsInbox = 0 /\ wsTurn = WsIdle /\ wsLog = <<>>
    /\ wsIds = <<>> /\ wsIdOrder = <<>>
    /\ wsStored = [id \in {WsOld} |-> <<WsHome, 1>>]
    /\ wsHistory = <<>> /\ wsOrder = <<>> /\ wsBytes = 0
    /\ wsAsked = 0 /\ wsEdits = 0

WsTypeOK ==
    /\ \A a \in WsAccounts : wsAccount[a].mode \in WsModes /\ wsAccount[a].target \in WsTargets
    /\ wsSocket.phase \in {"open", "closing", "gone"}
    /\ wsSocket.binding \in WsSources \cup {NoSource} /\ wsSocket.link \in WsSources \cup {NoSource}
    /\ wsInbox \in 0..1
    /\ wsTurn.at \in {"idle", "taken", "chosen", "sent", "seen", "paid"}
    /\ wsBytes \in Nat /\ wsAsked \in 0..WsMaxTurns /\ wsEdits \in 0..WsMaxEdits
-----------------------------------------------------------------------------
(* The world around the connection.                                        *)

\* An administrator edits an account: its mode, what its target covers, or
\* the proxy its requests leave through.
EditWsAccount(a) ==
    /\ wsEdits < WsMaxEdits /\ wsEdits' = wsEdits + 1 /\ wsSocket.phase # "gone"
    /\ wsAccount' \in {[wsAccount EXCEPT ![a].mode = m] : m \in WsModes \ {wsAccount[a].mode}}
                 \cup {[wsAccount EXCEPT ![a].target = @ + 1], [wsAccount EXCEPT ![a].route = 3 - @]}
    /\ UNCHANGED <<wsSocket, wsInbox, wsTurn, wsLog, wsMemory, wsAsked>>

\* The reader takes a frame.  With a turn waiting already it answers 429,
\* returns and so cancels the connection.
ReadTurn ==
    /\ wsSocket.phase = "open" /\ wsAsked < WsMaxTurns /\ wsAsked' = wsAsked + 1
    /\ IF wsInbox = 0
       THEN wsInbox' = 1 /\ UNCHANGED wsSocket
       ELSE wsSocket' = [wsSocket EXCEPT !.phase = "closing"] /\ UNCHANGED wsInbox
    /\ UNCHANGED <<wsAccount, wsTurn, wsLog, wsMemory, wsEdits>>

\* The client leaves, is idle for five minutes, the hour is over, or StopAdmission cancels.
CancelSocket ==
    /\ wsSocket.phase = "open" /\ wsSocket' = [wsSocket EXCEPT !.phase = "closing"]
    /\ UNCHANGED <<wsInbox, wsTurn, wsLog, wsMemory, wsWorld>>
-----------------------------------------------------------------------------
(* A turn of the connection.                                               *)

\* select between a message and ctx.Done; a message that parseSocketTurn refuses is answered
\* and dropped.
TakeTurn ==
    /\ wsTurn = WsIdle /\ wsInbox = 1 /\ wsSocket.phase # "gone"
    /\ wsInbox' = 0
    /\ \/ wsTurn' = WsIdle
       \/ \E prev \in {WsNone, WsOld} \cup (1..Len(wsLog)), warm \in BOOLEAN :
            wsTurn' = [WsIdle EXCEPT !.at = "taken", !.prev = prev, !.warm = warm]
    /\ UNCHANGED <<wsSocket, wsLog, wsMemory, wsWorld>>

\* Any error is written to the client as an error event, after which the
\* handler returns.
TurnFails ==
    /\ wsTurn' = WsIdle
    /\ wsSocket' = [wsSocket EXCEPT !.phase = "closing"]

PreviousResponseLocal(id) == IF id \in DOMAIN wsIds THEN wsIds[id] ELSE wsSocket.binding

\* previousResponse: the ids of this connection, then Redis.
PreviousResponse(id) ==
    IF id \in DOMAIN wsIds THEN wsIds[id]
    ELSE IF id \in DOMAIN wsStored THEN wsStored[id] ELSE NoSource

WsSource(a) == <<a, wsAccount[a].target>>

Eligible(a) ==
    /\ wsSocket.mode \in {"", wsAccount[a].mode}
    /\ wsSocket.binding \in {NoSource, WsSource(a)}

\* chooseAccount: an account that this connection and the response that is
\* continued allow; its row is read here and used until the turn ends.
ChooseWsAccount ==
    /\ wsTurn.at = "taken"
    /\ LET home == PreviousResponse(wsTurn.prev)
           usable == {a \in WsAccounts \ wsTurn.tried :
                        Eligible(a) /\ (wsTurn.prev # WsNone => home = WsSource(a))}
       IN  \/ \E a \in usable :
                /\ wsTurn' = [wsTurn EXCEPT !.at = "chosen", !.source = WsSource(a),
                                            !.mode = wsAccount[a].mode]
                /\ UNCHANGED wsSocket
           \/ usable = {} /\ TurnFails
    /\ UNCHANGED <<wsInbox, wsLog, wsMemory, wsWorld>>

Accepted(kind) ==
    Append(wsLog, [source |-> wsTurn.source, mode |-> wsTurn.mode, prev |-> wsTurn.prev,
                   size |-> 0, state |-> kind])

\* socketUpstream, mode passthrough: the first turn dials; a later one needs
\* the same route.  A handshake refused by the provider excludes the account
\* and the turn chooses again; any other error ends the turn.
SendOverSocket ==
    LET a == wsTurn.source[1]
        used == [wsSocket EXCEPT !.mode = "passthrough"]
        dialled == [used EXCEPT !.link = wsTurn.source, !.route = wsAccount[a].route,
                                !.binding = wsTurn.source]
        sent == [wsTurn EXCEPT !.at = "sent"]
    IN
    /\ wsTurn.at = "chosen" /\ wsTurn.mode = "passthrough"
    /\ \/ /\ wsSocket.link = NoSource \/ wsSocket.route = wsAccount[a].route
          /\ wsTurn' = sent /\ wsLog' = Accepted("sent")
          /\ wsSocket' = IF wsSocket.link = NoSource THEN dialled ELSE used
       \/ /\ wsSocket.link = NoSource /\ wsSocket' = used
          /\ wsTurn' = [wsTurn EXCEPT !.at = "taken", !.tried = @ \cup {a}]
          /\ UNCHANGED wsLog
       \/ TurnFails /\ UNCHANGED wsLog
    /\ UNCHANGED <<wsInbox, wsMemory, wsWorld>>

\* bridgeBody puts the snapshot of the previous response before the input; a
\* response or an item that has none on this connection is refused.
BridgeKnows(prev) == prev \in DOMAIN wsHistory \cup {WsNone}
BridgeBody(prev) == IF prev \in DOMAIN wsHistory THEN wsHistory[prev] ELSE <<>>

\* socketHTTPUpstream: a warmup is answered here; a request the provider
\* refuses is not tried elsewhere.
SendOverBridge ==
    LET bound == [wsSocket EXCEPT !.mode = "http_bridge", !.binding = wsTurn.source]
    IN
    /\ wsTurn.at = "chosen" /\ wsTurn.mode = "http_bridge"
    /\ \/ /\ BridgeKnows(wsTurn.prev) /\ (wsTurn.warm \/ wsSocket.phase = "open")
          /\ wsTurn' = [wsTurn EXCEPT !.at = "sent", !.input = BridgeBody(wsTurn.prev)]
          /\ wsLog' = Accepted(IF wsTurn.warm THEN "free" ELSE "sent") /\ wsSocket' = bound
       \/ TurnFails /\ UNCHANGED wsLog
    /\ UNCHANGED <<wsInbox, wsMemory, wsWorld>>

\* The events up to the terminal one.  After the client has left they are
\* read for 15 seconds more; the connection to the provider may also break.
ObserveTurn ==
    /\ wsTurn.at = "sent"
    /\ \/ \E size \in WsSizes :
            /\ wsTurn' = [wsTurn EXCEPT !.at = "seen", !.size = size]
            /\ wsLog' = [wsLog EXCEPT ![Len(wsLog)].size = size]
            /\ UNCHANGED wsSocket
       \/ TurnFails /\ wsLog' = [wsLog EXCEPT ![Len(wsLog)].state = "lost"]
    /\ UNCHANGED <<wsInbox, wsMemory, wsWorld>>

SettleTurnUnpaid ==
    /\ wsTurn.at = "seen" /\ wsTurn' = [wsTurn EXCEPT !.at = "paid"]
    /\ UNCHANGED <<wsSocket, wsLog, wsInbox, wsMemory, wsWorld>>

\* saveReceipt, under a context of its own; a warmup without usage is free.
SettleTurn ==
    /\ wsTurn.at = "seen"
    /\ \/ /\ wsTurn' = [wsTurn EXCEPT !.at = "paid"] /\ UNCHANGED wsSocket
          /\ wsLog' = [wsLog EXCEPT ![Len(wsLog)].state = IF @ = "sent" THEN "paid" ELSE @]
       \/ /\ wsLog[Len(wsLog)].state = "sent"
          /\ TurnFails /\ wsLog' = [wsLog EXCEPT ![Len(wsLog)].state = "review"]
    /\ UNCHANGED <<wsInbox, wsMemory, wsWorld>>

\* What each snapshot takes, and the n oldest together.
SnapshotBytes == [i \in DOMAIN wsOrder |-> WsTotal(wsHistory[wsOrder[i]])]
FreedBytes(n) == SumOver(SnapshotBytes, 1..n)

\* How many of the oldest snapshots rememberBridge drops for one of this size.
Evicted(size) ==
    Min({n \in 0..Len(wsOrder) :
           Len(wsOrder) - n < WsKeep /\ wsBytes - FreedBytes(n) + size <= WsLimit})

\* rememberBridge: too large a snapshot is not kept.
RememberBridge(id, items) ==
    LET n == Evicted(WsTotal(items))
        kept == SubSeq(wsOrder, n + 1, Len(wsOrder))
    IN  IF WsTotal(items) > WsSnapshot THEN UNCHANGED <<wsHistory, wsOrder, wsBytes>>
        ELSE /\ wsOrder' = Append(kept, id)
             /\ wsHistory' = [x \in Range(wsOrder') |-> IF x = id THEN items ELSE wsHistory[x]]
             /\ wsBytes' = wsBytes - FreedBytes(n) + WsTotal(items)

\* remember: the oldest id goes when there are too many.
RememberResponse(id) ==
    LET all == Append(wsIdOrder, id) IN
    /\ wsIdOrder' = IF Len(all) > WsKeepIds THEN Tail(all) ELSE all
    /\ wsIds' = [x \in Range(wsIdOrder') |-> IF x = id THEN wsTurn.source ELSE wsIds[x]]

\* storeResponseBinding, for a response the client wants stored; a local
\* warmup is not an upstream resource.
StoreBinding(id) ==
    \/ UNCHANGED wsStored
    \/ /\ wsLog[id].state = "paid"
       /\ wsStored' = [x \in DOMAIN wsStored \cup {id} |->
                         IF x = id THEN wsTurn.source ELSE wsStored[x]]

\* The end of textGateway: the turn is remembered on the connection and bound
\* in Redis.
PublishTurn ==
    LET id == Len(wsLog) IN
    /\ wsTurn.at = "paid"
    /\ RememberResponse(id)
    /\ IF wsTurn.mode = "http_bridge"
       THEN RememberBridge(id, Append(wsTurn.input, wsTurn.size))
       ELSE UNCHANGED <<wsHistory, wsOrder, wsBytes>>
    /\ StoreBinding(id)
    /\ \/ wsTurn' = WsIdle /\ UNCHANGED wsSocket
       \/ TurnFails
    /\ UNCHANGED <<wsInbox, wsLog, wsWorld>>

\* The handler returns: the reader is joined, the socket unregistered and
\* what it remembered is gone.
LeaveWs ==
    /\ wsTurn = WsIdle /\ wsSocket.phase = "closing"
    /\ wsSocket' = [wsSocket EXCEPT !.phase = "gone", !.link = NoSource]
    /\ wsInbox' = 0
    /\ wsIds' = <<>> /\ wsIdOrder' = <<>> /\ wsHistory' = <<>> /\ wsOrder' = <<>> /\ wsBytes' = 0
    /\ UNCHANGED <<wsTurn, wsLog, wsStored, wsWorld>>

WsHandler ==
    \/ TakeTurn \/ ChooseWsAccount \/ SendOverSocket \/ SendOverBridge
    \/ ObserveTurn \/ SettleTurn \/ PublishTurn \/ LeaveWs

WsNext ==
    \/ \E a \in WsAccounts : EditWsAccount(a)
    \/ ReadTurn \/ CancelSocket \/ WsHandler

\* The handler's goroutine runs, and no turn outlasts its upstream timeout.
WsFairness == WF_wsVars(WsHandler)

WsSpec == WsInit /\ [][WsNext]_wsVars /\ WsFairness
-----------------------------------------------------------------------------
\* Every turn of a connection goes to one account, target and mode, whatever an
\* administrator edits between two turns.
OneUpstreamPerSocket ==
    \A i, j \in DOMAIN wsLog :
        wsLog[i].source = wsLog[j].source /\ wsLog[i].mode = wsLog[j].mode

\* A turn that continues a response goes to the source that produced it, or
\* nowhere: the ids of the connection, those in Redis and an account row read
\* before an edit never lead it elsewhere.
ContinuesAtSource ==
    \A i \in DOMAIN wsLog :
        CASE wsLog[i].prev = WsOld -> wsLog[i].source = wsStored[WsOld]
          [] wsLog[i].prev \in 1..(i - 1) -> wsLog[i].source = wsLog[wsLog[i].prev].source
          [] OTHER -> wsLog[i].prev = WsNone

\* The bytes are counted exactly and bounded, so that eviction always finds
\* what it must drop; a snapshot is kept only of a settled turn and holds the
\* conversation up to it in full, the turn's own items last, even when the
\* snapshots it was built from are gone.
HistoryExact ==
    /\ DOMAIN wsHistory = Range(wsOrder) /\ Len(wsOrder) <= WsKeep
    /\ wsBytes = FreedBytes(Len(wsOrder))
    /\ wsBytes <= WsLimit
    /\ \A id \in DOMAIN wsHistory :
          /\ wsLog[id].state \in {"paid", "free"}
          /\ Last(wsHistory[id]) = wsLog[id].size
          /\ wsLog[id].prev \in DOMAIN wsHistory => Front(wsHistory[id]) = wsHistory[wsLog[id].prev]
          /\ wsLog[id].prev = WsNone => Len(wsHistory[id]) = 1

\* A cancelled connection ends, and with it every turn, which is paid for, free
\* or accounted for as lost to the provider or to review.
SocketEnds ==
    []<>( /\ wsSocket.phase # "closing"
          /\ wsSocket.phase = "gone" => \A i \in DOMAIN wsLog : wsLog[i].state # "sent" )

\* A turn that continues a response is answered by the account, connection and
\* history that made it, whatever was edited, lost or evicted between the turns.
ContinuationFaithful == WsTypeOK /\ OneUpstreamPerSocket /\ ContinuesAtSource /\ HistoryExact
=============================================================================
