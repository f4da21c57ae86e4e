----------------------------- MODULE VideoTasks -----------------------------
(***************************************************************************)
(* Video tasks (internal/app/video_tasks.go): a submission is sent and     *)
(* recorded when the provider has accepted it; the worker and clients poll *)
(* it under the slot video-task:<id> until its usage is settled; a client  *)
(* may cancel or delete it.                                                *)
(*                                                                         *)
(* An actor is a submitting handler, a client's handler or the worker.     *)
(* Every write to a record happens under its slot.                         *)
(***************************************************************************)
EXTENDS Naturals, FiniteSets

CONSTANTS
    VideoIds,       \* submissions; each is also the actor that makes it
    VideoClients,   \* handlers of look-ups and deletions
    VideoWorker,
    VideoCap,       \* 32 in the code
    MaxVideoFaults,
    NoVideo

VideoActors == VideoIds \cup VideoClients \cup {VideoWorker}

ASSUME VideoAssumption ==
    /\ IsFiniteSet(VideoIds) /\ VideoCap \in Nat \ {0} /\ MaxVideoFaults \in Nat
    /\ VideoIds \cap VideoClients = {} /\ VideoWorker \notin VideoIds \cup VideoClients
    /\ NoVideo \notin VideoActors

VARIABLES
    vidRec,     \* the task records: stage and the provider's final status
    vidPending, \* the set gateway:video:pending
    vidBooks,   \* where the receipt of a task is
    vidSent,    \* how often a task was sent
    vidUp,      \* the provider's tasks
    vidSlot,    \* holder of the slot of a task
    vidCreate,  \* holder of the slot video-create
    vidAct,     \* the actors: control, purpose, task and copy of its record
    vidFaults

vidStore == <<vidRec, vidPending>>
vidSlots == <<vidSlot, vidCreate>>
vidVars == <<vidStore, vidBooks, vidSent, vidUp, vidSlots, vidAct, vidFaults>>

VideoEnds == {"open", "good", "void"}
VideoStages == {"none", "pending", "settling", "terminal", "deleted", "expired"}
VideoRecord == [stage : VideoStages, end : VideoEnds]
NoVideoRecord == [stage |-> "none", end |-> "open"]
VideoLabels == {"idle", "done", "count", "post", "persist", "poll", "settle", "publish", "delete", "confirm", "drop"}
VideoIdle == [pc |-> "idle", goal |-> "read", task |-> NoVideo, copy |-> NoVideoRecord]

VideoTypeOK ==
    /\ vidRec \in [VideoIds -> VideoRecord]
    /\ vidPending \subseteq VideoIds
    /\ vidBooks \in [VideoIds -> {"none", "stored", "charged"}]
    /\ vidSent \in [VideoIds -> Nat]
    /\ vidUp \in [VideoIds -> {"none", "queued", "running", "good", "void", "gone"}]
    /\ vidSlot \in [VideoIds -> VideoActors \cup {NoVideo}]
    /\ vidCreate \in VideoIds \cup {NoVideo}
    /\ vidAct \in [VideoActors -> [pc : VideoLabels, goal : {"submit", "read", "delete", "cancel"},
                                   task : VideoIds \cup {NoVideo}, copy : VideoRecord]]
    /\ vidFaults \in 0..MaxVideoFaults

VideoInit ==
    /\ vidRec = [t \in VideoIds |-> NoVideoRecord]
    /\ vidPending = {}
    /\ vidBooks = [t \in VideoIds |-> "none"]
    /\ vidSent = [t \in VideoIds |-> 0]
    /\ vidUp = [t \in VideoIds |-> "none"]
    /\ vidSlot = [t \in VideoIds |-> NoVideo] /\ vidCreate = NoVideo
    /\ vidAct = [a \in VideoActors |-> VideoIdle]
    /\ vidFaults = 0

VideoFault == vidFaults < MaxVideoFaults /\ vidFaults' = vidFaults + 1
VideoFine == UNCHANGED vidFaults

\* Mutant: a task leaves the pending set when its receipt is checkpointed.
SaveVideoTaskEarly(t, rec) ==
    /\ vidRec' = [vidRec EXCEPT ![t] = rec]
    /\ vidPending' = IF rec.stage = "pending" THEN vidPending \cup {t} ELSE vidPending \ {t}

\* saveVideoTask writes the record and the pending set in one transaction.
SaveVideoTask(t, rec) ==
    /\ vidRec' = [vidRec EXCEPT ![t] = rec]
    /\ vidPending' = IF rec.stage \in {"terminal", "deleted"} THEN vidPending \ {t} ELSE vidPending \cup {t}

\* A write that fails may have happened all the same.
SaveVideoTaskFails(t, rec) == VideoFault /\ (SaveVideoTask(t, rec) \/ UNCHANGED vidStore)

Vid(a) == vidAct[a].task
VidCopy(a) == vidAct[a].copy
VideoGoto(a, label) == vidAct' = [vidAct EXCEPT ![a].pc = label] /\ UNCHANGED vidSlots
VideoKeep(a, label, rec) == vidAct' = [vidAct EXCEPT ![a].pc = label, ![a].copy = rec] /\ UNCHANGED vidSlots

\* The handler returns; its deferred calls release its slots.
VideoReturn(a) ==
    /\ vidAct' = [vidAct EXCEPT ![a] = [VideoIdle EXCEPT !.pc = IF a \in VideoIds THEN "done" ELSE "idle"]]
    /\ vidSlot' = [t \in VideoIds |-> IF vidSlot[t] = a THEN NoVideo ELSE vidSlot[t]]
    /\ vidCreate' = IF vidCreate = a THEN NoVideo ELSE vidCreate

-----------------------------------------------------------------------------
(* Submission                                                              *)

\* Mutant: two submissions may count the set at the same time.
SubmitVideoUnlocked(a) ==
    /\ a \in VideoIds /\ vidAct[a].pc = "idle"
    /\ vidAct' = [vidAct EXCEPT ![a].pc = "count", ![a].goal = "submit", ![a].task = a]
    /\ UNCHANGED <<vidStore, vidBooks, vidSent, vidUp, vidSlots, vidFaults>>

SubmitVideo(a) ==
    /\ a \in VideoIds /\ vidAct[a].pc = "idle"
    /\ IF vidCreate = NoVideo
       THEN /\ vidCreate' = a /\ UNCHANGED vidSlot
            /\ vidAct' = [vidAct EXCEPT ![a].pc = "count", ![a].goal = "submit", ![a].task = a]
       ELSE VideoReturn(a)
    /\ UNCHANGED <<vidStore, vidBooks, vidSent, vidUp, vidFaults>>

CountVideos(a) ==
    /\ vidAct[a].pc = "count"
    /\ IF Cardinality(vidPending) < VideoCap THEN VideoGoto(a, "post") ELSE VideoReturn(a)
    /\ UNCHANGED <<vidStore, vidBooks, vidSent, vidUp, vidFaults>>

\* The provider accepts the task, rejects it, or leaves the outcome unknown.
PostVideo(a) ==
    /\ vidAct[a].pc = "post" /\ vidSent' = [vidSent EXCEPT ![a] = @ + 1]
    /\ \/ /\ vidUp' = [vidUp EXCEPT ![a] = "queued"] /\ VideoFine
          /\ VideoKeep(a, "persist", [stage |-> "pending", end |-> "open"])
       \/ VideoFine /\ VideoReturn(a) /\ UNCHANGED vidUp
       \/ VideoFault /\ VideoReturn(a) /\ vidUp' \in {vidUp, [vidUp EXCEPT ![a] = "queued"]}
    /\ UNCHANGED <<vidStore, vidBooks>>

PersistVideo(a) ==
    /\ vidAct[a].pc = "persist" /\ VideoReturn(a)
    /\ (SaveVideoTask(a, VidCopy(a)) /\ VideoFine) \/ SaveVideoTaskFails(a, VidCopy(a))
    /\ UNCHANGED <<vidBooks, vidSent, vidUp>>

-----------------------------------------------------------------------------
(* Reconciliation                                                          *)

\* refreshVideoTask by stage.
VideoEntry(goal, stage) ==
    CASE stage = "pending" -> "poll"
      [] stage = "settling" -> "settle"
      [] stage = "terminal" /\ goal = "delete" -> "delete"
      [] OTHER -> "return"

EnterVideo(a, goal, t) ==
    LET label == VideoEntry(goal, vidRec[t].stage) IN
    /\ label # "return" /\ vidSlot[t] = NoVideo
    /\ vidSlot' = [vidSlot EXCEPT ![t] = a] /\ UNCHANGED vidCreate
    /\ vidAct' = [vidAct EXCEPT ![a] = [pc |-> label, goal |-> goal, task |-> t, copy |-> vidRec[t]]]

\* videoLookup for GET and DELETE.
LookUpVideo(a, goal, t) ==
    /\ a \in VideoClients /\ vidAct[a].pc = "idle" /\ EnterVideo(a, goal, t)
    /\ UNCHANGED <<vidStore, vidBooks, vidSent, vidUp, vidFaults>>

\* runVideoTasks skips busy tasks, and one that fails does not stop the rest.
RunVideoTask(t) ==
    /\ vidAct[VideoWorker].pc = "idle" /\ t \in vidPending /\ EnterVideo(VideoWorker, "read", t)
    /\ UNCHANGED <<vidStore, vidBooks, vidSent, vidUp, vidFaults>>

\* Where a handler goes when its task is up to date.
VideoSettled(a, rec) ==
    IF vidAct[a].goal = "delete" THEN VideoKeep(a, "delete", rec) ELSE VideoReturn(a)

\* refreshVideoTask: the answer is stored before anything is charged.  The
\* query fails when the provider has no such task, the account was changed,
\* or the answer or its usage is invalid.
PollVideo(a) ==
    /\ vidAct[a].pc \in {"poll", "confirm"}
    /\ LET t == Vid(a)
           up == vidUp[t]
           rec == CASE up = "good" -> [stage |-> "settling", end |-> "good"]
                    [] up = "void" -> [stage |-> "terminal", end |-> "void"]
                    [] OTHER -> [stage |-> "pending", end |-> "open"] IN
       \/ /\ up \in {"queued", "running", "good", "void"} /\ VideoFine
          /\ SaveVideoTask(t, rec)
          /\ IF rec.stage = "settling" THEN VideoKeep(a, "settle", rec) ELSE VideoSettled(a, rec)
       \/ up # "gone" /\ SaveVideoTaskFails(t, rec) /\ VideoReturn(a)
       \/ up = "gone" /\ VideoFine /\ VideoReturn(a) /\ UNCHANGED vidStore
       \/ up # "gone" /\ VideoFault /\ VideoReturn(a) /\ UNCHANGED vidStore
    /\ UNCHANGED <<vidBooks, vidSent, vidUp>>

\* settleVideoTask: saveReceipt.
SettleVideo(a) ==
    /\ vidAct[a].pc = "settle"
    /\ LET t == Vid(a) IN
       \/ VideoFine /\ vidBooks' = [vidBooks EXCEPT ![t] = "charged"] /\ VideoGoto(a, "publish")
       \/ /\ VideoFault /\ VideoReturn(a)
          /\ \E b \in {vidBooks[t], "charged"} \cup (IF vidBooks[t] = "none" THEN {"stored"} ELSE {}) :
                vidBooks' = [vidBooks EXCEPT ![t] = b]
    /\ UNCHANGED <<vidStore, vidSent, vidUp>>

\* The rest of settleVideoTask.
PublishVideo(a) ==
    /\ vidAct[a].pc = "publish"
    /\ LET rec == [VidCopy(a) EXCEPT !.stage = "terminal"] IN
       \/ SaveVideoTask(Vid(a), rec) /\ VideoFine /\ VideoSettled(a, rec)
       \/ SaveVideoTaskFails(Vid(a), rec) /\ VideoReturn(a)
    /\ UNCHANGED <<vidBooks, vidSent, vidUp>>

-----------------------------------------------------------------------------
(* Deletion                                                                *)

\* The provider cancels a queued task, refuses to touch a running one and
\* drops the record of a finished one.
DeletedUpstream(up) == CASE up = "queued" -> "void" [] up = "running" -> "running" [] OTHER -> "gone"

\* DELETE at the provider.  A settled record is then dropped, an unsettled
\* one polled again.
DeleteVideo(a) ==
    /\ vidAct[a].pc = "delete"
    /\ LET t == Vid(a)
           up == vidUp[t]
           settled == VidCopy(a).stage = "terminal" IN
       \/ /\ up # "running" /\ (up = "gone" => settled) /\ VideoFine
          /\ vidUp' = [vidUp EXCEPT ![t] = DeletedUpstream(up)]
          /\ vidAct' = [vidAct EXCEPT ![a].pc = IF settled THEN "drop" ELSE "confirm", ![a].goal = "cancel"]
          /\ UNCHANGED vidSlots
       \/ up = "running" /\ VideoReturn(a) /\ VideoFine /\ UNCHANGED vidUp
       \/ up = "gone" /\ ~settled /\ VideoReturn(a) /\ VideoFine /\ UNCHANGED vidUp
       \/ VideoFault /\ VideoReturn(a) /\ vidUp' \in {vidUp, [vidUp EXCEPT ![t] = DeletedUpstream(up)]}
    /\ UNCHANGED <<vidStore, vidBooks, vidSent>>

DropVideo(a) ==
    /\ vidAct[a].pc = "drop" /\ VideoReturn(a)
    /\ LET rec == [VidCopy(a) EXCEPT !.stage = "deleted"] IN
       (SaveVideoTask(Vid(a), rec) /\ VideoFine) \/ SaveVideoTaskFails(Vid(a), rec)
    /\ UNCHANGED <<vidBooks, vidSent, vidUp>>

-----------------------------------------------------------------------------
(* The rest of the world                                                   *)

VideoProvider(t) ==
    /\ \/ vidUp[t] = "queued" /\ vidUp' \in {[vidUp EXCEPT ![t] = up] : up \in {"running", "void"}}
       \/ vidUp[t] = "running" /\ vidUp' \in {[vidUp EXCEPT ![t] = up] : up \in {"good", "void"}}
    /\ UNCHANGED <<vidStore, vidBooks, vidSent, vidSlots, vidAct, vidFaults>>

RecoverVideoReceipt(t) ==
    /\ vidBooks[t] = "stored" /\ vidBooks' = [vidBooks EXCEPT ![t] = "charged"]
    /\ UNCHANGED <<vidStore, vidSent, vidUp, vidSlots, vidAct, vidFaults>>

\* A finished record expires after a week.
ExpireVideo(t) ==
    /\ vidRec[t].stage \in {"terminal", "deleted"} /\ vidSlot[t] = NoVideo
    /\ vidRec' = [vidRec EXCEPT ![t].stage = "expired"]
    /\ UNCHANGED <<vidPending, vidBooks, vidSent, vidUp, vidSlots, vidAct, vidFaults>>

\* The process dies and is started again.
VideoCrash ==
    /\ \E a \in VideoActors : vidAct[a].pc \notin {"idle", "done"}
    /\ VideoFault
    /\ vidAct' = [a \in VideoActors |->
                    IF a \in VideoIds /\ vidAct[a].pc # "idle" THEN [VideoIdle EXCEPT !.pc = "done"] ELSE VideoIdle]
    /\ vidSlot' = [t \in VideoIds |-> NoVideo] /\ vidCreate' = NoVideo
    /\ UNCHANGED <<vidStore, vidBooks, vidSent, vidUp>>

VideoStep(a) ==
    \/ CountVideos(a) \/ PostVideo(a) \/ PersistVideo(a) \/ PollVideo(a) \/ SettleVideo(a)
    \/ PublishVideo(a) \/ DeleteVideo(a) \/ DropVideo(a)

VideoNext ==
    \/ \E a \in VideoActors : SubmitVideo(a) \/ VideoStep(a)
    \/ \E a \in VideoClients, t \in VideoIds, goal \in {"read", "delete"} : LookUpVideo(a, goal, t)
    \/ \E t \in VideoIds : RunVideoTask(t) \/ VideoProvider(t) \/ RecoverVideoReceipt(t) \/ ExpireVideo(t)
    \/ VideoCrash

VideoSpec == VideoInit /\ [][VideoNext]_vidVars

\* Handlers run, the worker takes each pending task that is not always busy,
\* and the provider finishes its tasks.
VideoFairness ==
    /\ \A a \in VideoActors : WF_vidVars(VideoStep(a))
    /\ \A t \in VideoIds : SF_vidVars(RunVideoTask(t)) /\ WF_vidVars(VideoProvider(t)) /\ WF_vidVars(RecoverVideoReceipt(t))

-----------------------------------------------------------------------------
(* Properties                                                              *)

\* The pending set is exactly the tasks still to be settled and never larger
\* than the cap, although a task joins it only after the provider's answer.
VideoQueueExact ==
    /\ vidPending = {t \in VideoIds : vidRec[t].stage \in {"pending", "settling"}}
    /\ Cardinality(vidPending) <= VideoCap

\* No record is closed while the provider still works on the task: what it
\* will deliver is known to be billed or to be free.
NoOrphanVideo ==
    \A t \in VideoIds : vidRec[t].stage \in {"terminal", "deleted", "expired"} => vidUp[t] \notin {"queued", "running"}

VideoOutcome(t) ==
    IF vidRec[t].stage \in {"terminal", "deleted", "expired"}
    THEN IF vidRec[t].end = "good" THEN "result" ELSE "failure"
    ELSE "open"

Video == INSTANCE PaidTask WITH
    Tasks <- VideoIds, sent <- vidSent,
    charged <- [t \in VideoIds |-> vidBooks[t] = "charged"],
    outcome <- [t \in VideoIds |-> VideoOutcome(t)]

\* Video tasks are paid tasks: sent once, a result is published only when it
\* is charged, and deletion or expiry never changes the outcome.
VideoImplementsPaidTask == Video!Spec

\* A client's DELETE reached a video that had finished since it was last
\* polled: the provider has dropped its record, every later poll fails, and
\* the task stays pending, unpaid and in its place.
VideoLost(t) == vidRec[t].stage = "pending" /\ vidUp[t] = "gone"

\* Every other recorded task is settled: submissions being finitely many,
\* none remains.
VideoTasksEnd ==
    []<>(\A t \in VideoIds : vidRec[t].stage \in {"pending", "settling"} => VideoLost(t))
=============================================================================
