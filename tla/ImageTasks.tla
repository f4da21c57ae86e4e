----------------------------- MODULE ImageTasks -----------------------------
(***************************************************************************)
(* Asynchronous image tasks (internal/app/image_tasks.go): a submission is *)
(* stored in Redis, and one worker hands it to the gateway, settles what   *)
(* it consumed and publishes the result.                                   *)
(*                                                                         *)
(* The worker is the only writer of a stored task, as one process holds    *)
(* the instance lock and the worker holds imageTaskMu.  saveReceipt is the *)
(* promise Settlement proves: success means charged, and an error leaves   *)
(* the receipt unrecorded, stored for recovery or charged.                 *)
(***************************************************************************)
EXTENDS Naturals, FiniteSets

CONSTANTS
    ImageIds,       \* the ids submissions will get
    ImageCap,       \* 32 in the code
    MaxImageFaults,
    NoTask

ASSUME ImageAssumption ==
    /\ IsFiniteSet(ImageIds) /\ NoTask \notin ImageIds
    /\ ImageCap \in Nat \ {0} /\ MaxImageFaults \in Nat

VARIABLES
    imgStage,   \* Status and Stage of the record in Redis, "none" without one
    imgOk,      \* tasks whose record has an HTTPStatus of 2xx
    imgPending, \* the set image_tasks:pending
    imgReply,   \* what the submitter was told
    imgBooks,   \* where the receipt is: "none", "stored" or "charged"
    imgSent,    \* how often the task was given to textGateway
    imgPc, imgAt, imgLeft,   \* the worker: control, task, rest of the pass
    imgHttp,    \* HTTPStatus of the worker's copy of the task
    imgFaults

imgRecord == <<imgStage, imgOk, imgPending>>
imgWorker == <<imgPc, imgAt, imgLeft, imgHttp>>
imgVars == <<imgRecord, imgReply, imgBooks, imgSent, imgWorker, imgFaults>>

ImageProcessing == {"queued", "running", "settling"}
ImageEnded == {"completed", "failed", "expired"}

ImageTypeOK ==
    /\ imgStage \in [ImageIds -> {"none"} \cup ImageProcessing \cup ImageEnded]
    /\ imgOk \subseteq ImageIds /\ imgPending \subseteq ImageIds /\ imgLeft \subseteq ImageIds
    /\ imgReply \in [ImageIds -> {"none", "accepted", "full", "error"}]
    /\ imgBooks \in [ImageIds -> {"none", "stored", "charged"}]
    /\ imgSent \in [ImageIds -> Nat]
    /\ imgPc \in {"idle", "next", "run", "gateway", "bill", "checkpoint", "reload", "complete", "finish"}
    /\ imgAt \in ImageIds \cup {NoTask}
    /\ imgPc \notin {"idle", "next"} => imgAt \in ImageIds
    /\ imgHttp \in {"ok", "error"}
    /\ imgFaults \in 0..MaxImageFaults

ImageInit ==
    /\ imgStage = [t \in ImageIds |-> "none"]
    /\ imgOk = {} /\ imgPending = {} /\ imgLeft = {}
    /\ imgReply = [t \in ImageIds |-> "none"]
    /\ imgBooks = [t \in ImageIds |-> "none"]
    /\ imgSent = [t \in ImageIds |-> 0]
    /\ imgPc = "idle" /\ imgAt = NoTask /\ imgHttp = "error"
    /\ imgFaults = 0

ImageFault == imgFaults < MaxImageFaults /\ imgFaults' = imgFaults + 1
ImageFine == UNCHANGED imgFaults

\* saveImageTask writes the record and the pending set in one transaction.
SaveImageTask(t, stage, ok) ==
    /\ imgStage' = [imgStage EXCEPT ![t] = stage]
    /\ imgOk' = IF ok THEN imgOk \cup {t} ELSE imgOk \ {t}
    /\ imgPending' = IF stage \in ImageProcessing THEN imgPending \cup {t} ELSE imgPending \ {t}

\* A write that fails may have happened all the same.
SaveImageTaskFails(t, stage, ok) == ImageFault /\ (SaveImageTask(t, stage, ok) \/ UNCHANGED imgRecord)

\* An error of any step ends the pass; the next one starts from Redis.
EndImagePass == imgPc' = "idle" /\ imgAt' = NoTask /\ imgLeft' = {} /\ imgHttp' = "error"

ImageGoto(label) == imgPc' = label /\ UNCHANGED <<imgAt, imgLeft>>

-----------------------------------------------------------------------------
(* Submission                                                              *)

\* One script compares the size of the set with the cap and stores the task.
AsyncImageTask(t) ==
    /\ imgReply[t] = "none"
    /\ \/ /\ Cardinality(imgPending) < ImageCap
          /\ SaveImageTask(t, "queued", FALSE) /\ ImageFine
          /\ imgReply' = [imgReply EXCEPT ![t] = "accepted"]
       \/ /\ Cardinality(imgPending) >= ImageCap
          /\ imgReply' = [imgReply EXCEPT ![t] = "full"]
          /\ ImageFine /\ UNCHANGED imgRecord
       \/ /\ ImageFault
          /\ imgReply' = [imgReply EXCEPT ![t] = "error"]
          /\ \/ Cardinality(imgPending) < ImageCap /\ SaveImageTask(t, "queued", FALSE)
             \/ UNCHANGED imgRecord
    /\ UNCHANGED <<imgBooks, imgSent, imgWorker>>

-----------------------------------------------------------------------------
(* The worker                                                              *)

RunImageTasks ==
    /\ imgPc = "idle" /\ imgPending # {}
    /\ imgPc' = "next" /\ imgLeft' = imgPending
    /\ UNCHANGED <<imgRecord, imgReply, imgBooks, imgSent, imgAt, imgHttp, imgFaults>>

\* Mutant: a task found running is sent again.
StageEntryResends(stage) ==
    CASE stage \in {"queued", "running"} -> "run" [] stage = "settling" -> "complete"

\* What the worker does with a task depends on the stage it loaded.  A
\* running task was interrupted after it may have been sent.
StageEntry(stage) ==
    CASE stage = "queued" -> "run" [] stage = "settling" -> "complete" [] stage = "running" -> "finish"

\* loadImageTask; a queued task is not started once admission is stopped,
\* which is one of the failures.
LoadImageTask(t) ==
    /\ imgPc = "next" /\ t \in imgLeft
    /\ imgLeft' = imgLeft \ {t} /\ imgAt' = t
    /\ imgPc' = StageEntry(imgStage[t])
    /\ imgHttp' = IF t \in imgOk THEN "ok" ELSE "error"
    /\ UNCHANGED <<imgRecord, imgReply, imgBooks, imgSent, imgFaults>>

ImagePassEnds ==
    /\ imgPc = "next" /\ imgLeft = {} /\ EndImagePass
    /\ UNCHANGED <<imgRecord, imgReply, imgBooks, imgSent, imgFaults>>

\* A read fails, of Redis or the database, or admission is stopped.
ImagePassFails ==
    /\ imgPc \in {"next", "run", "reload"} /\ ImageFault /\ EndImagePass
    /\ UNCHANGED <<imgRecord, imgReply, imgBooks, imgSent>>

\* The sealed request cannot be opened, or the API key is gone: the task
\* fails.  Otherwise it is marked before it is sent.
RunImageTask ==
    /\ imgPc = "run"
    /\ \/ ImageFault /\ imgHttp' = "error" /\ ImageGoto("finish") /\ UNCHANGED imgRecord
       \/ ImageFine /\ SaveImageTask(imgAt, "running", FALSE) /\ ImageGoto("gateway") /\ UNCHANGED imgHttp
       \/ SaveImageTaskFails(imgAt, "running", FALSE) /\ EndImagePass
    /\ UNCHANGED <<imgReply, imgBooks, imgSent>>

\* textGateway: the request is refused or consumes nothing that can be
\* billed, or its usage is known.
ImageGateway ==
    /\ imgPc = "gateway"
    /\ imgSent' = [imgSent EXCEPT ![imgAt] = @ + 1]
    /\ \/ imgHttp' = "error" /\ ImageGoto("reload")
       \/ imgHttp' \in {"ok", "error"} /\ ImageGoto("bill")
    /\ ImageFine
    /\ UNCHANGED <<imgRecord, imgReply, imgBooks>>

\* saveReceipt in textGateway; its error does not keep the checkpoint away.
BillImage ==
    /\ imgPc = "bill"
    /\ \/ ImageFine /\ imgBooks' = [imgBooks EXCEPT ![imgAt] = "charged"]
       \/ ImageFault /\ \E b \in {"none", "stored", "charged"} : imgBooks' = [imgBooks EXCEPT ![imgAt] = b]
    /\ ImageGoto("checkpoint")
    /\ UNCHANGED <<imgRecord, imgReply, imgSent, imgHttp>>

\* checkpointImageTask stores the images, which may fail, and the receipt.
CheckpointImageTask ==
    /\ imgPc = "checkpoint"
    /\ \E ok \in IF imgHttp = "ok" THEN BOOLEAN ELSE {FALSE} :
          \/ ImageFine /\ SaveImageTask(imgAt, "settling", ok)
          \/ SaveImageTaskFails(imgAt, "settling", ok)
    /\ ImageGoto("reload")
    /\ UNCHANGED <<imgReply, imgBooks, imgSent, imgHttp>>

\* The end of runImageTask: what was checkpointed is completed, anything
\* else has failed, whatever status the gateway answered.
ReloadImageTask ==
    /\ imgPc = "reload"
    /\ \/ /\ imgStage[imgAt] = "settling" /\ ImageGoto("complete")
          /\ imgHttp' = IF imgAt \in imgOk THEN "ok" ELSE "error"
       \/ /\ imgStage[imgAt] # "settling" /\ ImageGoto("finish")
          /\ imgHttp' = "error"
    /\ UNCHANGED <<imgRecord, imgReply, imgBooks, imgSent, imgFaults>>

\* saveReceipt again, which recognises a receipt it knows.
CompleteImageTask ==
    /\ imgPc = "complete"
    /\ \/ ImageFine /\ imgBooks' = [imgBooks EXCEPT ![imgAt] = "charged"]
          /\ ImageGoto("finish") /\ UNCHANGED imgHttp
       \/ /\ ImageFault /\ EndImagePass
          /\ \E b \in {imgBooks[imgAt], "charged"} \cup (IF imgBooks[imgAt] = "none" THEN {"stored"} ELSE {}) :
                imgBooks' = [imgBooks EXCEPT ![imgAt] = b]
    /\ UNCHANGED <<imgRecord, imgReply, imgSent>>

FinishImageTask ==
    /\ imgPc = "finish"
    /\ LET stage == IF imgHttp = "ok" THEN "completed" ELSE "failed" IN
       \/ ImageFine /\ SaveImageTask(imgAt, stage, imgHttp = "ok") /\ ImageGoto("next") /\ UNCHANGED imgHttp
       \/ SaveImageTaskFails(imgAt, stage, imgHttp = "ok") /\ EndImagePass
    /\ UNCHANGED <<imgReply, imgBooks, imgSent>>

ImageStep ==
    \/ RunImageTasks \/ (\E t \in ImageIds : LoadImageTask(t)) \/ ImagePassEnds \/ ImagePassFails
    \/ RunImageTask \/ ImageGateway \/ BillImage \/ CheckpointImageTask \/ ReloadImageTask
    \/ CompleteImageTask \/ FinishImageTask

-----------------------------------------------------------------------------
(* The rest of the world                                                   *)

\* The process dies and is started again.
ImageCrash ==
    /\ imgPc # "idle" /\ ImageFault /\ EndImagePass
    /\ UNCHANGED <<imgRecord, imgReply, imgBooks, imgSent>>

\* recoverReceipts charges a stored receipt.
RecoverImageReceipt(t) ==
    /\ imgBooks[t] = "stored" /\ imgBooks' = [imgBooks EXCEPT ![t] = "charged"]
    /\ UNCHANGED <<imgRecord, imgReply, imgSent, imgWorker, imgFaults>>

\* A finished record expires after a day.
ExpireImageTask(t) ==
    /\ imgStage[t] \in {"completed", "failed"} /\ imgStage' = [imgStage EXCEPT ![t] = "expired"]
    /\ UNCHANGED <<imgOk, imgPending, imgReply, imgBooks, imgSent, imgWorker, imgFaults>>

ImageNext ==
    \/ ImageStep \/ ImageCrash
    \/ \E t \in ImageIds : AsyncImageTask(t) \/ RecoverImageReceipt(t) \/ ExpireImageTask(t)

ImageSpec == ImageInit /\ [][ImageNext]_imgVars

\* The worker runs every second, its calls end, and receipts are recovered.
ImageFairness ==
    /\ WF_imgVars(ImageStep)
    /\ \A t \in ImageIds : WF_imgVars(RecoverImageReceipt(t))

-----------------------------------------------------------------------------
(* Properties                                                              *)

\* The pending set is exactly the tasks in progress and within the cap, and a
\* submitter who was told that the queue is full left nothing behind.
ImageQueueExact ==
    /\ imgPending = {t \in ImageIds : imgStage[t] \in ImageProcessing}
    /\ Cardinality(imgPending) <= ImageCap
    /\ \A t \in ImageIds : imgReply[t] = "full" => imgStage[t] = "none"

ImageOutcome(t) ==
    CASE imgStage[t] = "completed" -> "result"
      [] imgStage[t] = "failed" -> "failure"
      [] imgStage[t] = "expired" -> IF t \in imgOk THEN "result" ELSE "failure"
      [] OTHER -> "open"

Img == INSTANCE PaidTask WITH
    Tasks <- ImageIds, sent <- imgSent,
    charged <- [t \in ImageIds |-> imgBooks[t] = "charged"],
    outcome <- [t \in ImageIds |-> ImageOutcome(t)]

\* Image tasks are paid tasks: never sent twice, although the process dies
\* anywhere and any write may be lost, and a result is published only when it
\* is charged.
ImageImplementsPaidTask == Img!Spec

\* Every stored task is finished, although one failing task ends the pass for
\* all that come after it: submissions being finitely many, the queue empties.
ImageTasksEnd == []<>(\A t \in ImageIds : imgStage[t] \notin ImageProcessing)
=============================================================================
