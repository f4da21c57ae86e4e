------------------------------ MODULE Realtime ------------------------------
(***************************************************************************)
(* Grok realtime sessions (grok_realtime.go): a relayed WebSocket is       *)
(* billed by its duration.  Before audio is relayed the session writes a   *)
(* snapshot of its receipt to the Redis hash gateway:realtime-billing; at  *)
(* its end it freezes the last snapshot and settles it through             *)
(* saveReceipt.  The worker settles what sessions that died have left,     *)
(* while registration, StopAdmission and Close run beside them.            *)
(*                                                                         *)
(* A snapshot is the session's duration when it was taken; 0 is "none".    *)
(* The fingerprint of a receipt covers the duration, so two snapshots of a *)
(* session with different durations conflict in usage_billing_dedup.       *)
(***************************************************************************)
EXTENDS Integers, Sequences, FiniteSets, FiniteSetsExt

CONSTANTS
    RtSessions,     \* session ids
    RtMaxSockets,   \* WebSockets of one process
    RtHour,         \* the longest session
    RtInterval,     \* the time between two checkpoints
    RtMaxFaults,    \* bound: failures of Redis and PostgreSQL
    RtMaxCrashes    \* bound: crashes and restarts

RtWorker == "worker"
RtActors == RtSessions \cup {RtWorker}

ASSUME RtAssumption ==
    /\ RtWorker \notin RtSessions
    /\ {RtMaxSockets, RtHour, RtInterval} \subseteq Nat \ {0}
    /\ {RtMaxFaults, RtMaxCrashes} \subseteq Nat

VARIABLES
    rtPc,       \* new, dial, open, settle, leave or done
    rtClock,    \* time since the session was connected
    rtAudio,    \* audioSeen
    rtMark,     \* lastCheckpoint
    rtTick,     \* the time a tick waits with in tick.C, 0 when none does
    rtSent,     \* time of the last frame that was relayed once audio was seen
    rtSlack,    \* history: an interval, or longer by the wait of a tick that was
                \* taken since the last frame was relayed
    rtHash,     \* gateway:realtime-billing
    rtPending,  \* gateway:pending-billing
    rtBooks,    \* the duration charged in PostgreSQL
    rtJob,      \* the settlement each actor is in
    rtAgenda,   \* the passes the worker still has to make in this round
    rtScan,     \* the entries left in the worker's pass, as HScan returned them
    rtLive,     \* a.websockets
    rtApp,      \* up, stopping (StopAdmission) or closed (Close has returned)
    rtFaults, rtCrashes

rtVars == <<rtPc, rtClock, rtAudio, rtMark, rtTick, rtSent, rtSlack, rtHash, rtPending, rtBooks,
            rtJob, rtAgenda, rtScan, rtLive, rtApp, rtFaults, rtCrashes>>
rtRelay == <<rtClock, rtAudio, rtMark, rtTick, rtSent, rtSlack>>
rtStore == <<rtHash, rtPending, rtBooks>>
rtWork == <<rtJob, rtAgenda, rtScan>>
rtProcess == <<rtLive, rtApp, rtCrashes>>

RtIdle == [at |-> "idle", id |-> RtWorker, cost |-> 0, noted |-> FALSE]

RtTypeOK ==
    /\ rtPc \in [RtSessions -> {"new", "dial", "open", "settle", "leave", "done"}]
    /\ rtClock \in [RtSessions -> 0..RtHour] /\ rtMark \in [RtSessions -> 0..RtHour]
    /\ rtSent \in [RtSessions -> 0..RtHour] /\ rtTick \in [RtSessions -> 0..RtHour]
    /\ rtSlack \in [RtSessions -> Nat]
    /\ rtAudio \in [RtSessions -> BOOLEAN]
    /\ \A store \in {rtHash, rtPending, rtBooks} : store \in [RtSessions -> 0..RtHour]
    /\ rtJob \in [RtActors -> [at : {"idle", "read", "note", "apply", "forget", "drop"},
                               id : RtActors, cost : 0..RtHour, noted : BOOLEAN]]
    /\ rtAgenda \in Seq({"realtime", "receipts"}) /\ Len(rtAgenda) <= 2
    /\ rtScan \subseteq RtSessions \X (1..RtHour) /\ rtLive \subseteq RtSessions
    /\ rtApp \in {"up", "stopping", "closed"}
    /\ rtFaults \in 0..RtMaxFaults /\ rtCrashes \in 0..RtMaxCrashes

RtInit ==
    /\ rtPc = [s \in RtSessions |-> "new"]
    /\ rtClock = [s \in RtSessions |-> 0] /\ rtMark = rtClock /\ rtSent = rtClock /\ rtTick = rtClock
    /\ rtSlack = [s \in RtSessions |-> RtInterval]
    /\ rtAudio = [s \in RtSessions |-> FALSE]
    /\ rtHash = rtClock /\ rtPending = rtClock /\ rtBooks = rtClock
    /\ rtJob = [a \in RtActors |-> RtIdle]
    /\ rtAgenda = <<"realtime", "receipts">> /\ rtScan = {}
    /\ rtLive = {} /\ rtApp = "up"
    /\ rtFaults = 0 /\ rtCrashes = 0

RtFault == rtFaults < RtMaxFaults /\ rtFaults' = rtFaults + 1
RtFine == UNCHANGED rtFaults
-----------------------------------------------------------------------------
(* The session's handler.                                                  *)

\* Under gatewayMu: a socket is registered, or refused when the process is
\* stopping or has its fill of sockets.
RegisterSocket(s) ==
    /\ rtPc[s] = "new"
    /\ IF rtApp = "up" /\ Cardinality(rtLive) < RtMaxSockets
       THEN rtPc' = [rtPc EXCEPT ![s] = "dial"] /\ rtLive' = rtLive \cup {s}
       ELSE rtPc' = [rtPc EXCEPT ![s] = "done"] /\ UNCHANGED rtLive
    /\ UNCHANGED <<rtRelay, rtStore, rtWork, rtApp, rtFaults, rtCrashes>>

\* An account accepts within four attempts and the key is still authorized,
\* or the upgrade fails; cancelling the context fails it too.
DialRealtime(s) ==
    /\ rtPc[s] = "dial"
    /\ rtPc' \in {[rtPc EXCEPT ![s] = next] :
                    next \in IF rtApp = "up" THEN {"open", "leave"} ELSE {"leave"}}
    /\ UNCHANGED <<rtRelay, rtStore, rtWork, rtProcess, rtFaults>>

\* Time passes; the context of a session ends after an hour.  The ticker, of
\* any phase, sends the time unless an earlier tick still waits.
RtPass(s) ==
    /\ rtPc[s] = "open" /\ rtClock[s] < RtHour
    /\ rtClock' = [rtClock EXCEPT ![s] = @ + 1]
    /\ rtTick' \in {rtTick} \cup (IF rtTick[s] = 0 THEN {[rtTick EXCEPT ![s] = rtClock[s] + 1]} ELSE {})
    /\ UNCHANGED <<rtPc, rtAudio, rtMark, rtSent, rtSlack, rtStore, rtWork, rtProcess, rtFaults>>

RtDuration(at) == Max({at, 1})

\* HSet of the snapshot at some time.  An error leaves open whether it was done.
CheckpointOk(s, at) ==
    /\ rtHash' = [rtHash EXCEPT ![s] = RtDuration(at)]
    /\ rtMark' = [rtMark EXCEPT ![s] = at]
    /\ RtFine
CheckpointFails(s, at) ==
    /\ RtFault
    /\ rtHash' \in {rtHash, [rtHash EXCEPT ![s] = RtDuration(at)]}
    /\ UNCHANGED rtMark

\* What is left of the handler when its loop ends: only a session with
\* audio has something to settle.
RtEnding(s) == IF rtAudio'[s] THEN "settle" ELSE "leave"

\* The checkpoint of a tick is for the time the tick carries.  One that waited
\* while the loop was blocked in a write takes the snapshot back to that time.
RtTick(s) ==
    /\ rtPc[s] = "open" /\ rtTick[s] # 0
    /\ rtTick' = [rtTick EXCEPT ![s] = 0]
    /\ \/ ~rtAudio[s] /\ RtFine /\ UNCHANGED <<rtPc, rtHash, rtMark, rtSlack>>
       \/ /\ rtAudio[s] /\ rtSlack' = [rtSlack EXCEPT ![s] = Max({@, rtClock[s] - rtTick[s] + 1})]
          /\ \/ CheckpointOk(s, rtTick[s]) /\ UNCHANGED rtPc
             \/ CheckpointFails(s, rtTick[s]) /\ rtPc' = [rtPc EXCEPT ![s] = "settle"]
    /\ UNCHANGED <<rtClock, rtAudio, rtSent, rtPending, rtBooks, rtWork, rtProcess>>

\* Mutant: only the first audio frame waits for a checkpoint.
RtMustCheckpointFirst(s, audio) == audio /\ ~rtAudio[s]

\* A frame of either side; the first audio frame, and any frame a second
\* after the last checkpoint, waits for a checkpoint of its own.  The write
\* fails when the context is cancelled or the peer is gone.
RtMustCheckpoint(s, audio) ==
    \/ audio /\ ~rtAudio[s]
    \/ rtAudio[s] /\ rtClock[s] - rtMark[s] >= RtInterval

RtFrame(s, audio) ==
    /\ rtPc[s] = "open"
    /\ rtAudio' = [rtAudio EXCEPT ![s] = @ \/ audio]
    /\ \/ /\ \/ RtMustCheckpoint(s, audio) /\ CheckpointOk(s, rtClock[s])
             \/ ~RtMustCheckpoint(s, audio) /\ RtFine /\ UNCHANGED <<rtHash, rtMark>>
          /\ \/ /\ rtApp = "up" /\ UNCHANGED rtPc
                /\ IF rtAudio'[s]
                   THEN /\ rtSent' = [rtSent EXCEPT ![s] = RtDuration(rtClock[s])]
                        /\ rtSlack' = [rtSlack EXCEPT ![s] = RtInterval]
                   ELSE UNCHANGED <<rtSent, rtSlack>>
             \/ rtPc' = [rtPc EXCEPT ![s] = RtEnding(s)] /\ UNCHANGED <<rtSent, rtSlack>>
       \/ /\ RtMustCheckpoint(s, audio) /\ CheckpointFails(s, rtClock[s])
          /\ rtPc' = [rtPc EXCEPT ![s] = RtEnding(s)] /\ UNCHANGED <<rtSent, rtSlack>>
    /\ UNCHANGED <<rtClock, rtTick, rtPending, rtBooks, rtWork, rtProcess>>

\* Every other end of the loop: the context is done (StopAdmission, the hour), the
\* session is idle or no longer authorized, a frame is refused, a peer left.
RtEnd(s) ==
    /\ rtPc[s] = "open"
    /\ UNCHANGED rtRelay
    /\ rtPc' = [rtPc EXCEPT ![s] = RtEnding(s)]
    /\ UNCHANGED <<rtStore, rtWork, rtProcess, rtFaults>>

\* The final snapshot, which the settlement of the session then reads.
FreezeReceipt(s) ==
    /\ rtPc[s] = "settle" /\ rtJob[s] = RtIdle
    /\ \/ /\ CheckpointOk(s, rtClock[s]) /\ UNCHANGED rtPc
          /\ rtJob' = [rtJob EXCEPT ![s] = [RtIdle EXCEPT !.at = "read", !.id = s]]
       \/ CheckpointFails(s, rtClock[s]) /\ rtPc' = [rtPc EXCEPT ![s] = "leave"] /\ UNCHANGED rtJob
    /\ UNCHANGED <<rtClock, rtAudio, rtTick, rtSent, rtSlack, rtPending, rtBooks, rtAgenda, rtScan, rtProcess>>

\* The deferred functions: the readers are joined, the socket unregistered.
LeaveSocket(s) ==
    /\ rtPc[s] = "leave"
    /\ rtPc' = [rtPc EXCEPT ![s] = "done"] /\ rtLive' = rtLive \ {s}
    /\ UNCHANGED <<rtRelay, rtStore, rtWork, rtApp, rtFaults, rtCrashes>>
-----------------------------------------------------------------------------
(* settleRealtime and saveReceipt, step by step, for a session or for the  *)
(* worker.                                                                 *)

\* The settlement of actor a is over, with or without an error: a session
\* leaves; an error ends the worker's pass.
RtReturn(a, failed) ==
    /\ rtJob' = [rtJob EXCEPT ![a] = RtIdle]
    /\ IF a = RtWorker
       THEN rtScan' = (IF failed THEN {} ELSE rtScan) /\ UNCHANGED rtPc
       ELSE rtPc' = [rtPc EXCEPT ![a] = "leave"] /\ UNCHANGED rtScan
    /\ UNCHANGED rtAgenda

RtGoto(a, at) == /\ rtJob' = [rtJob EXCEPT ![a].at = at]
                 /\ UNCHANGED <<rtPc, rtScan, rtAgenda>>

\* HGet; redis.Nil is an error like any other.
ReadCheckpoint(a) ==
    LET id == rtJob[a].id IN
    /\ rtJob[a].at = "read"
    /\ \/ /\ rtHash[id] # 0 /\ RtFine
          /\ rtJob' = [rtJob EXCEPT ![a].at = "note", ![a].cost = rtHash[id]]
          /\ UNCHANGED <<rtPc, rtScan, rtAgenda>>
       \/ rtHash[id] = 0 /\ RtFine /\ RtReturn(a, TRUE)
       \/ RtFault /\ RtReturn(a, TRUE)
    /\ UNCHANGED <<rtRelay, rtStore, rtProcess>>

\* HSet gateway:pending-billing; an error is only remembered.
NoteReceipt(a) ==
    LET noted == [rtPending EXCEPT ![rtJob[a].id] = rtJob[a].cost] IN
    /\ rtJob[a].at = "note"
    /\ \/ RtFine /\ rtPending' = noted /\ rtJob' = [rtJob EXCEPT ![a].at = "apply", ![a].noted = TRUE]
       \/ RtFault /\ rtPending' \in {rtPending, noted} /\ rtJob' = [rtJob EXCEPT ![a].at = "apply"]
    /\ UNCHANGED <<rtPc, rtScan, rtAgenda, rtRelay, rtHash, rtBooks, rtProcess>>

\* applyReceipt: charged once by id; another fingerprint is a conflict.  A
\* failed transaction leaves open whether it was committed.
RtApply(a) ==
    LET id == rtJob[a].id
        cost == rtJob[a].cost
        charged == IF rtBooks[id] = 0 THEN [rtBooks EXCEPT ![id] = cost] ELSE rtBooks
    IN
    /\ rtJob[a].at = "apply"
    /\ \/ /\ rtBooks[id] \in {0, cost} /\ RtFine /\ rtBooks' = charged
          /\ RtGoto(a, IF rtJob[a].noted THEN "forget" ELSE "drop")
       \/ rtBooks[id] \notin {0, cost} /\ RtFine /\ RtReturn(a, TRUE) /\ UNCHANGED rtBooks
       \/ RtFault /\ rtBooks' \in {rtBooks, charged} /\ RtReturn(a, TRUE)
    /\ UNCHANGED <<rtRelay, rtHash, rtPending, rtProcess>>

\* HDel gateway:pending-billing.  saveReceipt ignores an error, for
\* recoverReceipts it ends the pass.
RtForgetReceipt(a) ==
    LET recovering == a = RtWorker /\ Head(rtAgenda) = "receipts"
        forgotten == [rtPending EXCEPT ![rtJob[a].id] = 0]
    IN
    /\ rtJob[a].at = "forget"
    /\ \/ RtFine /\ rtPending' = forgotten
          /\ IF recovering THEN RtReturn(a, FALSE) ELSE RtGoto(a, "drop")
       \/ RtFault /\ rtPending' \in {rtPending, forgotten}
          /\ IF recovering THEN RtReturn(a, TRUE) ELSE RtGoto(a, "drop")
    /\ UNCHANGED <<rtRelay, rtHash, rtBooks, rtProcess>>

\* HDel gateway:realtime-billing.
DropCheckpoint(a) ==
    LET dropped == [rtHash EXCEPT ![rtJob[a].id] = 0] IN
    /\ rtJob[a].at = "drop"
    /\ \/ RtFine /\ rtHash' = dropped /\ RtReturn(a, FALSE)
       \/ RtFault /\ rtHash' \in {rtHash, dropped} /\ RtReturn(a, TRUE)
    /\ UNCHANGED <<rtRelay, rtPending, rtBooks, rtProcess>>
-----------------------------------------------------------------------------
(* The worker: at start recoverRealtime and then recoverReceipts, at every *)
(* tick the other way round.                                               *)

RtWorkerFree == rtJob[RtWorker] = RtIdle /\ rtApp # "closed"
\* HScan of the hash a pass is about; the entries are visited later.
RtScanned(pass) ==
    LET hash == IF pass = "realtime" THEN rtHash ELSE rtPending
    IN  {<<s, hash[s]>> : s \in {t \in RtSessions : hash[t] # 0}}

\* The next pass of agenda starts, unless its scan fails.
RtStartPass(agenda) ==
    /\ rtAgenda' = agenda
    /\ \/ RtFine /\ rtScan' = IF agenda = <<>> THEN {} ELSE RtScanned(Head(agenda))
       \/ agenda # <<>> /\ RtFault /\ rtScan' = {}
    /\ UNCHANGED <<rtPc, rtRelay, rtStore, rtJob, rtProcess>>

RtWorkerTick == RtWorkerFree /\ rtAgenda = <<>> /\ RtStartPass(<<"receipts", "realtime">>)

RtEndPass == RtWorkerFree /\ rtAgenda # <<>> /\ rtScan = {} /\ RtStartPass(Tail(rtAgenda))

\* recoverRealtime: the checkpoint of a live session is left alone.
RecoverRealtime(entry) ==
    /\ RtWorkerFree /\ entry \in rtScan /\ Head(rtAgenda) = "realtime"
    /\ rtScan' = rtScan \ {entry}
    /\ IF entry[1] \in rtLive
       THEN UNCHANGED rtJob
       ELSE rtJob' = [rtJob EXCEPT ![RtWorker] = [RtIdle EXCEPT !.at = "read", !.id = entry[1]]]
    /\ UNCHANGED <<rtPc, rtRelay, rtStore, rtAgenda, rtProcess, rtFaults>>

\* recoverReceipts works with the value that the scan returned.
RtRecoverReceipt(entry) ==
    /\ RtWorkerFree /\ entry \in rtScan /\ Head(rtAgenda) = "receipts"
    /\ rtScan' = rtScan \ {entry}
    /\ rtJob' = [rtJob EXCEPT ![RtWorker] =
                    [at |-> "apply", id |-> entry[1], cost |-> entry[2], noted |-> TRUE]]
    /\ UNCHANGED <<rtPc, rtRelay, rtStore, rtAgenda, rtProcess, rtFaults>>
-----------------------------------------------------------------------------
(* The process.                                                            *)

RtMayFall == rtCrashes < RtMaxCrashes /\ rtCrashes' = rtCrashes + 1

\* StopAdmission cancels every session; see DialRealtime, RtFrame and RtEnd.
RtStop ==
    /\ rtApp = "up" /\ RtMayFall /\ rtApp' = "stopping"
    /\ UNCHANGED <<rtPc, rtRelay, rtStore, rtWork, rtLive, rtFaults>>

\* Close: websocketDone.Wait, then the worker is cancelled wherever it is.
RtClose ==
    /\ rtApp = "stopping" /\ rtLive = {}
    /\ rtApp' = "closed"
    /\ rtJob' = [rtJob EXCEPT ![RtWorker] = RtIdle] /\ rtAgenda' = <<>> /\ rtScan' = {}
    /\ UNCHANGED <<rtPc, rtRelay, rtStore, rtLive, rtFaults, rtCrashes>>

\* A process starts, after Close or after a crash, which ends what was under way.
RtStart ==
    /\ rtApp' = "up" /\ rtLive' = {}
    /\ rtPc' = [s \in RtSessions |-> IF rtPc[s] = "new" THEN "new" ELSE "done"]
    /\ rtJob' = [a \in RtActors |-> RtIdle]
    /\ rtAgenda' = <<"realtime", "receipts">> /\ rtScan' = RtScanned("realtime")
    /\ UNCHANGED <<rtRelay, rtStore, rtFaults>>
RtRestart == rtApp = "closed" /\ RtStart /\ UNCHANGED rtCrashes
RtCrash == RtMayFall /\ RtStart

RtSettles(a) ==
    ReadCheckpoint(a) \/ NoteReceipt(a) \/ RtApply(a) \/ RtForgetReceipt(a) \/ DropCheckpoint(a)
RtHandler(s) ==
    DialRealtime(s) \/ RtEnd(s) \/ FreezeReceipt(s) \/ RtSettles(s) \/ LeaveSocket(s)
RtRecovery ==
    \/ RtWorkerTick \/ RtEndPass \/ RtSettles(RtWorker)
    \/ \E entry \in rtScan : RecoverRealtime(entry) \/ RtRecoverReceipt(entry)
RtExit == RtClose \/ RtRestart

RtNext ==
    \/ \E s \in RtSessions :
          \/ RegisterSocket(s) \/ RtHandler(s) \/ RtPass(s) \/ RtTick(s)
          \/ \E audio \in BOOLEAN : RtFrame(s, audio)
    \/ RtRecovery \/ RtExit \/ RtStop \/ RtCrash

\* The handler's goroutine runs and its session ends, at the latest with its
\* hour; so does the worker; a process that was stopped closes and is started again.
RtFairness ==
    /\ \A s \in RtSessions : WF_rtVars(RtHandler(s))
    /\ WF_rtVars(RtRecovery) /\ WF_rtVars(RtExit)

RtSpec == RtInit /\ [][RtNext]_rtVars /\ RtFairness
-----------------------------------------------------------------------------
\* What was relayed with audio is covered by a snapshot, a pending receipt or
\* the books, but for less than one checkpoint interval or as long as a tick
\* taken since had waited, whatever fails or crashes: a checkpoint is written
\* before the frame that needs it is.
BillingLossBounded ==
    \A s \in RtSessions :
        rtSent[s] # 0 => rtSent[s] - Max({rtHash[s], rtPending[s], rtBooks[s]}) < rtSlack[s]

\* A session is charged from one snapshot.  Once it is charged, no snapshot of
\* another duration is left for its id, in Redis or in the hands of a
\* settlement: it would be a fingerprint conflict for ever, at which every
\* later recovery pass ends.
OneSnapshotPerSession ==
    \A s \in RtSessions : rtBooks[s] # 0 =>
        /\ rtHash[s] \in {0, rtBooks[s]} /\ rtPending[s] \in {0, rtBooks[s]}
        /\ \A a \in RtActors : rtJob[a].id = s => rtJob[a].cost \in {0, rtBooks[s]}

\* Close returns when no session is left, so a clean run leaves nothing to
\* recover and has charged everything it relayed.
CloseDrains ==
    rtApp = "closed" =>
        /\ rtLive = {}
        /\ rtFaults = 0 /\ rtCrashes = 1 =>
              \A s \in RtSessions : rtHash[s] = 0 /\ rtPending[s] = 0 /\ rtBooks[s] >= rtSent[s]

\* Every session that relayed audio is charged in the end and its snapshots are
\* removed, after crashes and failures between any two steps; a stop ends.
SessionsCharged ==
    []<>( /\ rtApp # "stopping"
          /\ \A s \in RtSessions :
               rtSent[s] # 0 => rtBooks[s] # 0 /\ rtHash[s] = 0 /\ rtPending[s] = 0 )

\* What a session relays is billed up to the interval since its checkpoint, or
\* since the tick that took the checkpoint back, from one snapshot, and Close
\* leaves nothing behind that recovery must find (grok_realtime.go).
RealtimeBilled == RtTypeOK /\ BillingLossBounded /\ OneSnapshotPerSession /\ CloseDrains
=============================================================================
