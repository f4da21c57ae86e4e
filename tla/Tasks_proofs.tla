---------------------------- MODULE Tasks_proofs ----------------------------
(***************************************************************************)
(* Proofs about the three kinds of asynchronous tasks, for any tasks,      *)
(* clients, response ids, caps and faults: each is a PaidTask, its pending *)
(* set is exact and within the cap, and a deleted response stays deleted.  *)
(***************************************************************************)
EXTENDS MCTasks, FiniteSetTheorems, TLAPS

\* A set with room takes one more element.
LEMMA JoinCounts ==
  ASSUME NEW S, IsFiniteSet(S), NEW x, NEW c \in Nat, x \in S => Cardinality(S) <= c, x \notin S => Cardinality(S) < c
  PROVE  IsFiniteSet(S \cup {x}) /\ Cardinality(S \cup {x}) <= c
<1>1. Cardinality(S) \in Nat
  BY FS_CardinalityType
<1>2. IsFiniteSet(S \cup {x}) /\ Cardinality(S \cup {x}) = IF x \in S THEN Cardinality(S) ELSE Cardinality(S) + 1
  BY FS_AddElement
<1> QED
  BY <1>1, <1>2

\* A set does not grow when an element leaves.
LEMMA LeaveCounts ==
  ASSUME NEW S, IsFiniteSet(S), NEW x
  PROVE  IsFiniteSet(S \ {x}) /\ Cardinality(S \ {x}) \in Nat /\ Cardinality(S \ {x}) <= Cardinality(S)
<1>1. IsFiniteSet(S \ {x}) /\ Cardinality(S \ {x}) = IF x \in S THEN Cardinality(S) - 1 ELSE Cardinality(S)
  BY FS_RemoveElement
<1>2. Cardinality(S) \in Nat /\ Cardinality(S \ {x}) \in Nat
  BY <1>1, FS_CardinalityType
<1> QED
  BY <1>1, <1>2

-----------------------------------------------------------------------------
(* Image tasks                                                             *)

\* What the record of a task tells of the books: it was sent once when its
\* receipt is checkpointed, and nothing is charged that was not sent.
ImageTaskOK(t) ==
    /\ imgReply[t] \in {"none", "full"} => imgStage[t] = "none"
    /\ imgSent[t] \in {0, 1}
    /\ imgStage[t] \in {"none", "queued"} => imgSent[t] = 0
    /\ imgStage[t] = "settling" => imgSent[t] = 1
    /\ imgSent[t] = 0 => imgBooks[t] = "none"
    /\ t \in imgOk => imgStage[t] \in {"settling", "completed", "expired"}
    /\ imgStage[t] = "completed" => t \in imgOk

\* What the worker knows of its task: nobody else writes the record, so it is
\* in the stage the worker left it in.
ImageWorkerOK ==
    /\ imgLeft \subseteq imgPending
    /\ imgPc \notin {"idle", "next"} => imgAt \in imgPending \ imgLeft
    /\ imgPc = "run" => imgStage[imgAt] = "queued"
    /\ imgPc \in {"gateway", "bill", "checkpoint"} => imgStage[imgAt] = "running"
    /\ imgPc = "gateway" => imgSent[imgAt] = 0
    /\ imgPc = "bill" => imgBooks[imgAt] = "none"
    /\ imgPc \in {"bill", "checkpoint"} => imgSent[imgAt] = 1
    /\ imgPc = "complete" => imgStage[imgAt] = "settling"
    /\ imgPc = "finish" /\ imgHttp = "ok" => imgSent[imgAt] = 1 /\ imgBooks[imgAt] = "charged"

ImageInv == ImageTypeOK /\ ImageQueueExact /\ ImageWorkerOK /\ \A t \in ImageIds : ImageTaskOK(t)

\* Faults stay within their bound.
LEMMA ImageFaultType == ImageInv /\ (ImageFine \/ ImageFault) => imgFaults' \in 0..MaxImageFaults
  BY ImageAssumption DEF ImageInv, ImageTypeOK, ImageFine, ImageFault

\* Before the first submission there is no record.
LEMMA ImageInitInv == ImageInit => ImageInv
<1> SUFFICES ASSUME ImageInit PROVE ImageInv
  OBVIOUS
<1>1. ImageTypeOK /\ ImageWorkerOK /\ \A t \in ImageIds : ImageTaskOK(t)
  BY ImageAssumption DEF ImageInit, ImageTypeOK, ImageWorkerOK, ImageTaskOK, ImageProcessing, ImageEnded
<1>2. imgPending = {t \in ImageIds : imgStage[t] \in ImageProcessing} /\ Cardinality(imgPending) <= ImageCap
  BY FS_EmptySet, ImageAssumption DEF ImageInit, ImageProcessing
<1> QED
  BY <1>1, <1>2 DEF ImageInv, ImageQueueExact, ImageInit

\* Saving a record keeps the queue exact: a task joins it only where it has a
\* place.
LEMMA ImageSaved ==
  ASSUME ImageInv, NEW t \in ImageIds, NEW stage \in ImageProcessing \cup ImageEnded, NEW ok \in BOOLEAN,
         SaveImageTask(t, stage, ok),
         stage \in ImageProcessing => t \in imgPending \/ Cardinality(imgPending) < ImageCap
  PROVE  /\ imgStage' \in [ImageIds -> {"none"} \cup ImageProcessing \cup ImageEnded]
         /\ imgOk' \subseteq ImageIds /\ imgPending' \subseteq ImageIds
         /\ imgPending' = {s \in ImageIds : imgStage'[s] \in ImageProcessing}
         /\ Cardinality(imgPending') <= ImageCap
<1> USE DEF ImageInv, ImageTypeOK, SaveImageTask
<1>1. /\ imgStage' \in [ImageIds -> {"none"} \cup ImageProcessing \cup ImageEnded]
      /\ imgOk' \subseteq ImageIds /\ imgPending' \subseteq ImageIds
  OBVIOUS
<1>2. imgPending' = {s \in ImageIds : imgStage'[s] \in ImageProcessing}
  BY DEF ImageQueueExact
<1>3. IsFiniteSet(imgPending) /\ Cardinality(imgPending) <= ImageCap /\ Cardinality(imgPending) \in Nat
  BY FS_Subset, FS_CardinalityType, ImageAssumption DEF ImageQueueExact
<1>4. Cardinality(imgPending') <= ImageCap
  <2>1. CASE stage \in ImageProcessing
    BY <1>3, <2>1, JoinCounts, ImageAssumption
  <2>2. CASE stage \notin ImageProcessing
    BY <1>3, <2>2, LeaveCounts, ImageAssumption
  <2> QED
    BY <2>1, <2>2
<1> QED
  BY <1>1, <1>2, <1>4

\* A submission is stored with its place in the queue or not at all.
LEMMA AsyncImageTaskInv ==
  ASSUME ImageInv, NEW t \in ImageIds, AsyncImageTask(t)
  PROVE  ImageInv'
<1> USE DEF ImageInv, ImageProcessing
<1>1. imgReply[t] = "none" /\ imgStage[t] = "none" /\ imgSent[t] = 0 /\ t \notin imgPending /\ UNCHANGED <<imgBooks, imgSent, imgWorker>>
  BY DEF AsyncImageTask, ImageTaskOK, ImageQueueExact
<1>2. imgFaults' \in 0..MaxImageFaults
  BY ImageFaultType, Zenon DEF AsyncImageTask
<1>3. CASE SaveImageTask(t, "queued", FALSE) /\ Cardinality(imgPending) < ImageCap
           /\ \E reply \in {"accepted", "error"} : imgReply' = [imgReply EXCEPT ![t] = reply]
  <2>1. /\ imgStage' \in [ImageIds -> {"none"} \cup ImageProcessing \cup ImageEnded]
        /\ imgOk' \subseteq ImageIds /\ imgPending' \subseteq ImageIds
        /\ imgPending' = {s \in ImageIds : imgStage'[s] \in ImageProcessing}
        /\ Cardinality(imgPending') <= ImageCap
    BY <1>3, ImageSaved
  <2>2. imgStage' = [imgStage EXCEPT ![t] = "queued"] /\ imgOk' = imgOk \ {t} /\ imgPending' = imgPending \cup {t}
    BY <1>3 DEF SaveImageTask
  <2>3. ImageTypeOK'
    BY <1>1, <1>2, <1>3, <2>1 DEF ImageTypeOK, imgWorker
  <2>4. ImageQueueExact'
    BY <1>3, <2>1, <2>2 DEF ImageQueueExact, ImageTypeOK
  <2>5. ImageWorkerOK'
    BY <1>1, <2>2 DEF ImageWorkerOK, ImageTypeOK, imgWorker
  <2>6. \A s \in ImageIds : ImageTaskOK(s)'
    BY <1>1, <1>3, <2>2 DEF ImageTaskOK, ImageTypeOK
  <2> QED
    BY <2>3, <2>4, <2>5, <2>6
<1>4. CASE UNCHANGED imgRecord /\ \E reply \in {"full", "error"} : imgReply' = [imgReply EXCEPT ![t] = reply]
  <2>1. ImageTypeOK'
    BY <1>1, <1>2, <1>4 DEF ImageTypeOK, imgWorker, imgRecord
  <2>2. ImageQueueExact' /\ ImageWorkerOK' /\ \A s \in ImageIds : ImageTaskOK(s)'
    BY <1>1, <1>4 DEF ImageQueueExact, ImageWorkerOK, ImageTaskOK, ImageTypeOK, imgWorker, imgRecord
  <2> QED
    BY <2>1, <2>2
<1> QED
  BY <1>3, <1>4 DEF AsyncImageTask

\* The worker's steps that write no record.
LEMMA ImageControlInv ==
  ASSUME ImageInv,
         \/ RunImageTasks \/ (\E t \in ImageIds : LoadImageTask(t)) \/ ImagePassEnds \/ ImagePassFails
         \/ ReloadImageTask \/ ImageCrash
  PROVE  ImageInv'
<1>1. UNCHANGED <<imgRecord, imgReply, imgBooks, imgSent>> /\ imgFaults' \in 0..MaxImageFaults
  BY ImageAssumption DEF RunImageTasks, LoadImageTask, ImagePassEnds, ImagePassFails, ReloadImageTask, ImageCrash,
     ImageInv, ImageTypeOK, ImageFault
<1>2. ImageQueueExact' /\ \A t \in ImageIds : ImageTaskOK(t)'
  BY <1>1 DEF ImageInv, ImageQueueExact, ImageTaskOK, imgRecord
<1>3. ASSUME imgPc' \in {"idle", "next", "run", "complete", "finish"} /\ imgAt' \in ImageIds \cup {NoTask} /\ imgHttp' \in {"ok", "error"}
             /\ imgLeft' \subseteq ImageIds /\ (imgPc' \notin {"idle", "next"} => imgAt' \in ImageIds), ImageWorkerOK'
      PROVE  ImageInv'
  BY <1>1, <1>2, <1>3 DEF ImageInv, ImageTypeOK, imgRecord
<1> USE DEF ImageInv, ImageTypeOK, ImageWorkerOK, imgRecord, EndImagePass, ImageGoto
<1>4. CASE RunImageTasks
  BY <1>1, <1>3, <1>4 DEF RunImageTasks
<1>5. ASSUME NEW t \in ImageIds, LoadImageTask(t) PROVE ImageInv'
  <2>1. t \in imgPending /\ imgStage[t] \in ImageProcessing
    BY <1>5 DEF LoadImageTask, ImageQueueExact
  <2>2. imgStage[t] = "running" => t \notin imgOk
    BY DEF ImageTaskOK
  <2> QED
    BY <1>1, <1>3, <1>5, <2>1, <2>2 DEF LoadImageTask, StageEntry, ImageProcessing
<1>6. CASE ImagePassEnds \/ ImagePassFails \/ ImageCrash
  BY <1>1, <1>3, <1>6 DEF ImagePassEnds, ImagePassFails, ImageCrash
<1>7. CASE ReloadImageTask
  BY <1>1, <1>3, <1>7 DEF ReloadImageTask
<1> QED
  BY <1>4, <1>5, <1>6, <1>7

\* The worker's steps that write the record of its task.
LEMMA ImageSavesInv ==
  ASSUME ImageInv, RunImageTask \/ CheckpointImageTask \/ FinishImageTask
  PROVE  ImageInv'
<1> USE DEF ImageInv
<1>1. imgFaults' \in 0..MaxImageFaults /\ UNCHANGED <<imgReply, imgBooks, imgSent>>
  <2>1. ImageFine \/ ImageFault
    BY DEF RunImageTask, CheckpointImageTask, FinishImageTask, SaveImageTaskFails
  <2> QED
    BY <2>1, ImageFaultType DEF RunImageTask, CheckpointImageTask, FinishImageTask
<1>2. imgPc \in {"run", "checkpoint", "finish"} /\ imgAt \in imgPending /\ imgAt \in ImageIds /\ imgStage[imgAt] \in ImageProcessing /\ imgAt \notin imgLeft
      /\ imgLeft \subseteq imgPending
  BY DEF RunImageTask, CheckpointImageTask, FinishImageTask, ImageWorkerOK, ImageTypeOK, ImageQueueExact
<1>3. ASSUME UNCHANGED imgRecord,
             \/ EndImagePass
             \/ imgPc' = "finish" /\ imgHttp' = "error" /\ UNCHANGED <<imgAt, imgLeft>>
             \/ imgPc' = "reload" /\ UNCHANGED <<imgHttp, imgAt, imgLeft>>
      PROVE  ImageInv'
  <2>1. ImageQueueExact' /\ \A t \in ImageIds : ImageTaskOK(t)'
    BY <1>1, <1>3 DEF ImageQueueExact, ImageTaskOK, imgRecord
  <2> QED
    BY <1>1, <1>2, <1>3, <2>1 DEF ImageTypeOK, ImageWorkerOK, imgRecord, EndImagePass
<1>4. ASSUME NEW stage \in ImageProcessing \cup ImageEnded, NEW ok \in BOOLEAN, SaveImageTask(imgAt, stage, ok),
             \/ stage = "running" /\ ~ok /\ imgPc = "run"
             \/ stage = "settling" /\ imgPc = "checkpoint"
             \/ stage = "completed" /\ ok /\ imgPc = "finish"
             \/ stage = "failed" /\ ~ok /\ imgPc = "finish",
             \/ EndImagePass
             \/ imgHttp' \in {"ok", "error"} /\ imgAt' = imgAt /\ imgLeft' = imgLeft
                /\ <<stage, imgPc'>> \in {<<"running", "gateway">>, <<"settling", "reload">>, <<"completed", "next">>, <<"failed", "next">>}
      PROVE  ImageInv'
  <2>1. /\ imgStage' \in [ImageIds -> {"none"} \cup ImageProcessing \cup ImageEnded]
        /\ imgOk' \subseteq ImageIds /\ imgPending' \subseteq ImageIds
        /\ imgPending' = {s \in ImageIds : imgStage'[s] \in ImageProcessing}
        /\ Cardinality(imgPending') <= ImageCap
    BY <1>2, <1>4, ImageSaved
  <2>2. imgStage' = [imgStage EXCEPT ![imgAt] = stage] /\ imgOk' = (IF ok THEN imgOk \cup {imgAt} ELSE imgOk \ {imgAt})
    BY <1>4 DEF SaveImageTask
  <2>3. ImageTypeOK'
    BY <1>1, <1>2, <1>4, <2>1 DEF ImageTypeOK, EndImagePass
  <2>4. ImageQueueExact'
    BY <1>1, <1>2, <2>1, <2>2 DEF ImageQueueExact, ImageTypeOK, ImageProcessing
  <2>5. imgLeft' \subseteq imgPending' /\ (stage \in ImageProcessing => imgAt \in imgPending')
    BY <1>2, <1>4 DEF SaveImageTask, EndImagePass
  <2>6. ImageWorkerOK'
    BY <1>1, <1>2, <1>4, <2>2, <2>5 DEF ImageWorkerOK, EndImagePass, ImageTaskOK, ImageTypeOK, ImageProcessing
  <2>7. \A t \in ImageIds : ImageTaskOK(t)'
    BY <1>1, <1>2, <1>4, <2>2 DEF ImageTaskOK, ImageWorkerOK, ImageTypeOK, ImageProcessing
  <2> QED
    BY <2>3, <2>4, <2>6, <2>7
<1>5. CASE RunImageTask
  BY <1>3, <1>4, <1>5 DEF RunImageTask, SaveImageTaskFails, ImageGoto, ImageTypeOK, ImageProcessing
<1>6. CASE CheckpointImageTask
  BY <1>3, <1>4, <1>6 DEF CheckpointImageTask, SaveImageTaskFails, ImageGoto, ImageTypeOK, ImageProcessing
<1>7. CASE FinishImageTask
  BY <1>3, <1>4, <1>7 DEF FinishImageTask, SaveImageTaskFails, ImageGoto, ImageTypeOK, ImageEnded
<1> QED
  BY <1>5, <1>6, <1>7

\* The gateway is called once, and what it consumed goes to the books.
LEMMA ImageBooksInv ==
  ASSUME ImageInv, ImageGateway \/ BillImage \/ CompleteImageTask \/ \E t \in ImageIds : RecoverImageReceipt(t)
  PROVE  ImageInv'
<1> USE DEF ImageInv
<1>1. UNCHANGED <<imgRecord, imgReply>> /\ imgFaults' \in 0..MaxImageFaults
  BY ImageAssumption DEF ImageGateway, BillImage, CompleteImageTask, RecoverImageReceipt, ImageFine, ImageFault, ImageTypeOK
<1>2. ImageQueueExact'
  BY <1>1 DEF ImageQueueExact, imgRecord
<1> USE DEF ImageTypeOK, ImageWorkerOK, ImageTaskOK, imgRecord, imgWorker, ImageGoto, EndImagePass
<1>3. CASE ImageGateway
  BY <1>1, <1>2, <1>3 DEF ImageGateway
<1>4. CASE BillImage
  BY <1>1, <1>2, <1>4 DEF BillImage
<1>5. CASE CompleteImageTask
  BY <1>1, <1>2, <1>5 DEF CompleteImageTask
<1>6. ASSUME NEW t \in ImageIds, RecoverImageReceipt(t) PROVE ImageInv'
  BY <1>1, <1>2, <1>6 DEF RecoverImageReceipt
<1> QED
  BY <1>3, <1>4, <1>5, <1>6

\* Every step keeps the invariant.
LEMMA ImageNextInv == ImageInv /\ [ImageNext]_imgVars => ImageInv'
<1> SUFFICES ASSUME ImageInv, [ImageNext]_imgVars PROVE ImageInv'
  OBVIOUS
<1>1. CASE ImageStep
  BY <1>1, ImageControlInv, ImageSavesInv, ImageBooksInv DEF ImageStep
<1>2. CASE ImageCrash
  BY <1>2, ImageControlInv
<1>3. ASSUME NEW t \in ImageIds, AsyncImageTask(t) \/ RecoverImageReceipt(t) PROVE ImageInv'
  BY <1>3, AsyncImageTaskInv, ImageBooksInv
<1>4. ASSUME NEW t \in ImageIds, ExpireImageTask(t) PROVE ImageInv'
  BY <1>4 DEF ExpireImageTask, ImageInv, ImageTypeOK, ImageQueueExact, ImageWorkerOK, ImageTaskOK, imgWorker,
     ImageProcessing, ImageEnded
<1>5. CASE UNCHANGED imgVars
  BY <1>5 DEF imgVars, imgRecord, imgWorker, ImageInv, ImageTypeOK, ImageQueueExact, ImageWorkerOK, ImageTaskOK
<1> QED
  BY <1>1, <1>2, <1>3, <1>4, <1>5 DEF ImageNext

\* The invariant holds in every state.
LEMMA ImageInvariance == ImageSpec => []ImageInv
  BY ImageInitInv, ImageNextInv, PTL DEF ImageSpec

ImageOutcomes == [t \in ImageIds |-> ImageOutcome(t)]
ImageCharges == [t \in ImageIds |-> imgBooks[t] = "charged"]

\* Only the publication of a result or its expiry could change an outcome.
LEMMA ImageOutcomesKept ==
  ASSUME \A t \in ImageIds : \/ imgStage'[t] = imgStage[t] /\ (t \in imgOk' <=> t \in imgOk)
                             \/ imgStage[t] \notin ImageEnded /\ imgStage'[t] \notin ImageEnded
  PROVE  ImageOutcomes' = ImageOutcomes
  BY DEF ImageOutcomes, ImageOutcome, ImageEnded

\* A receipt that is stored or charged is a charge of the task, or nothing.
LEMMA ImageBooked ==
  ASSUME ImageInv, NEW t \in ImageIds, NEW b, imgBooks' = [imgBooks EXCEPT ![t] = b],
         imgSent[t] = 1, imgBooks[t] = "charged" => b = "charged",
         UNCHANGED <<imgRecord, imgSent>>
  PROVE  Img!Charge(t) \/ UNCHANGED Img!taskVars
<1>1. ImageOutcomes' = ImageOutcomes
  BY ImageOutcomesKept DEF imgRecord
<1>2. CASE b = "charged"
  <2>1. ImageCharges' = [ImageCharges EXCEPT ![t] = TRUE]
    BY <1>2 DEF ImageCharges, ImageInv, ImageTypeOK
  <2> QED
    BY <1>1, <2>1 DEF Img!Charge, ImageOutcomes, ImageCharges
<1>3. CASE b # "charged"
  <2>1. ImageCharges' = ImageCharges
    BY <1>3 DEF ImageCharges, ImageInv, ImageTypeOK
  <2> QED
    BY <1>1, <2>1 DEF Img!taskVars, ImageOutcomes, ImageCharges
<1> QED
  BY <1>2, <1>3

\* Every step of the gateway is a step of the paid task or changes nothing
\* that the paid task speaks of.
LEMMA ImageStepSimulation == ImageInv /\ [ImageNext]_imgVars => [Img!Next]_(Img!taskVars)
<1> SUFFICES ASSUME ImageInv, [ImageNext]_imgVars PROVE [Img!Next]_(Img!taskVars)
  OBVIOUS
<1> USE DEF ImageInv
<1>1. ASSUME UNCHANGED <<imgSent, imgBooks>>,
             \A t \in ImageIds : \/ imgStage'[t] = imgStage[t] /\ (t \in imgOk' <=> t \in imgOk)
                                 \/ imgStage[t] \notin ImageEnded /\ imgStage'[t] \notin ImageEnded
      PROVE  UNCHANGED Img!taskVars
  BY <1>1, ImageOutcomesKept DEF Img!taskVars, ImageOutcomes
<1>2. CASE \/ RunImageTasks \/ (\E t \in ImageIds : LoadImageTask(t)) \/ ImagePassEnds \/ ImagePassFails
           \/ ReloadImageTask \/ ImageCrash \/ UNCHANGED imgVars
  <2>1. UNCHANGED <<imgRecord, imgSent, imgBooks>>
    BY <1>2 DEF RunImageTasks, LoadImageTask, ImagePassEnds, ImagePassFails, ReloadImageTask, ImageCrash, imgVars
  <2> QED
    BY <1>1, <2>1 DEF imgRecord
<1>3. CASE RunImageTask \/ CheckpointImageTask
  <2>1. imgAt \in ImageIds /\ imgStage[imgAt] \in {"queued", "running"}
    BY <1>3 DEF RunImageTask, CheckpointImageTask, ImageWorkerOK, ImageTypeOK
  <2>2. UNCHANGED imgRecord \/ \E stage \in {"running", "settling"}, ok \in BOOLEAN : SaveImageTask(imgAt, stage, ok)
    BY <1>3 DEF RunImageTask, CheckpointImageTask, SaveImageTaskFails
  <2>3. UNCHANGED <<imgSent, imgBooks>>
    BY <1>3 DEF RunImageTask, CheckpointImageTask
  <2> QED
    BY <1>1, <2>1, <2>2, <2>3 DEF imgRecord, SaveImageTask, ImageTypeOK, ImageEnded
<1>4. ASSUME NEW t \in ImageIds, AsyncImageTask(t) PROVE UNCHANGED Img!taskVars
  <2>1. imgStage[t] = "none" /\ UNCHANGED <<imgSent, imgBooks>>
    BY <1>4 DEF AsyncImageTask, ImageTaskOK
  <2>2. UNCHANGED imgRecord \/ SaveImageTask(t, "queued", FALSE)
    BY <1>4 DEF AsyncImageTask
  <2> QED
    BY <1>1, <2>1, <2>2 DEF imgRecord, SaveImageTask, ImageTypeOK, ImageEnded
<1>5. ASSUME NEW t \in ImageIds, ExpireImageTask(t) PROVE UNCHANGED Img!taskVars
  <2>1. ImageOutcomes' = ImageOutcomes
    BY <1>5 DEF ExpireImageTask, ImageOutcomes, ImageOutcome, ImageTypeOK, ImageTaskOK
  <2> QED
    BY <1>5, <2>1 DEF ExpireImageTask, Img!taskVars, ImageOutcomes
<1>6. CASE ImageGateway
  <2>1. imgAt \in ImageIds /\ imgSent[imgAt] = 0 /\ imgStage[imgAt] = "running" /\ imgSent' = [imgSent EXCEPT ![imgAt] = 1]
        /\ UNCHANGED <<imgRecord, imgBooks>>
    BY <1>6 DEF ImageGateway, ImageWorkerOK, ImageTypeOK
  <2>2. ImageOutcomes' = ImageOutcomes /\ ImageOutcomes[imgAt] = "open"
    BY <2>1, ImageOutcomesKept DEF imgRecord, ImageOutcomes, ImageOutcome
  <2>3. Img!Send(imgAt)
    BY <2>1, <2>2 DEF Img!Send, ImageOutcomes
  <2> QED
    BY <2>1, <2>3 DEF Img!Next
<1>7. CASE BillImage \/ CompleteImageTask
  <2>1. imgAt \in ImageIds /\ imgSent[imgAt] = 1 /\ UNCHANGED <<imgRecord, imgSent>>
    BY <1>7 DEF BillImage, CompleteImageTask, ImageWorkerOK, ImageTypeOK, ImageTaskOK
  <2>2. PICK b : imgBooks' = [imgBooks EXCEPT ![imgAt] = b] /\ (imgBooks[imgAt] = "charged" => b = "charged")
    BY <1>7 DEF BillImage, CompleteImageTask, ImageWorkerOK, ImageTypeOK
  <2> QED
    BY <2>1, <2>2, ImageBooked DEF Img!Next
<1>8. ASSUME NEW t \in ImageIds, RecoverImageReceipt(t) PROVE Img!Charge(t) \/ UNCHANGED Img!taskVars
  <2>1. imgSent[t] = 1 /\ imgBooks' = [imgBooks EXCEPT ![t] = "charged"] /\ UNCHANGED <<imgRecord, imgSent>>
    BY <1>8 DEF RecoverImageReceipt, ImageTaskOK
  <2> QED
    BY <2>1, ImageBooked
<1>9. CASE FinishImageTask
  <2>1. imgAt \in ImageIds /\ imgStage[imgAt] \in ImageProcessing /\ UNCHANGED <<imgSent, imgBooks>>
    BY <1>9 DEF FinishImageTask, ImageWorkerOK, ImageTypeOK, ImageQueueExact
  <2>2. CASE UNCHANGED imgRecord
    BY <1>1, <2>1, <2>2 DEF imgRecord
  <2>3. CASE imgHttp = "ok" /\ SaveImageTask(imgAt, "completed", TRUE)
    <3>1. ImageOutcomes' = [ImageOutcomes EXCEPT ![imgAt] = "result"] /\ ImageOutcomes[imgAt] = "open"
      BY <2>1, <2>3 DEF ImageOutcomes, ImageOutcome, SaveImageTask, ImageTypeOK, ImageProcessing
    <3>2. imgSent[imgAt] = 1 /\ imgBooks[imgAt] = "charged"
      BY <1>9, <2>3 DEF FinishImageTask, ImageWorkerOK
    <3>3. Img!End(imgAt, "result")
      BY <2>1, <3>1, <3>2 DEF Img!End, ImageOutcomes
    <3> QED
      BY <2>1, <3>3 DEF Img!Next
  <2>4. CASE SaveImageTask(imgAt, "failed", FALSE)
    <3>1. ImageOutcomes' = [ImageOutcomes EXCEPT ![imgAt] = "failure"] /\ ImageOutcomes[imgAt] = "open"
      BY <2>1, <2>4 DEF ImageOutcomes, ImageOutcome, SaveImageTask, ImageTypeOK, ImageProcessing
    <3>2. Img!End(imgAt, "failure")
      BY <2>1, <3>1 DEF Img!End, ImageOutcomes
    <3> QED
      BY <2>1, <3>2 DEF Img!Next
  <2> QED
    BY <1>9, <2>2, <2>3, <2>4 DEF FinishImageTask, SaveImageTaskFails
<1> QED
  BY <1>2, <1>3, <1>4, <1>5, <1>6, <1>7, <1>8, <1>9 DEF ImageNext, ImageStep, Img!Next

\* An image task is a paid task, for any number of tasks, places and faults.
THEOREM ImageTaskIsPaid == ImageSpec => ImageImplementsPaidTask
<1>1. ImageInit => Img!Init
  BY DEF ImageInit, Img!Init, ImageOutcome
<1> QED
  BY <1>1, ImageStepSimulation, ImageInvariance, PTL DEF ImageSpec, ImageImplementsPaidTask, Img!Spec

-----------------------------------------------------------------------------
(* Video tasks                                                             *)

\* A task without a record was never sent or never accepted; what is settled
\* is finished at the provider.
VideoTaskOK(t) ==
    /\ vidSent[t] \in {0, 1}
    /\ vidSent[t] = 0 => vidRec[t] = NoVideoRecord /\ vidBooks[t] = "none"
    /\ vidRec[t].stage = "settling" => vidRec[t].end = "good" /\ vidUp[t] \notin {"queued", "running"}

VideoSubmitting == {"count", "post", "persist"}
VideoWorking == {"poll", "settle", "publish", "delete", "confirm", "drop"}

\* An actor that works on a task holds its slot, and its copy is the record;
\* a submission holds video-create, so the room it counted is still there.
VideoActorOK(a) ==
    /\ a \in VideoIds => vidAct[a].pc \in {"idle", "done"} \cup VideoSubmitting
    /\ a \notin VideoIds => vidAct[a].pc \in {"idle"} \cup VideoWorking
    /\ vidAct[a].pc \in VideoSubmitting => vidCreate = a /\ vidRec[a] = NoVideoRecord
    /\ a \in VideoIds /\ vidAct[a].pc \in {"idle", "count", "post"} => vidSent[a] = 0
    /\ vidAct[a].pc \in {"post", "persist"} => Cardinality(vidPending) < VideoCap
    /\ vidAct[a].pc = "persist" => vidSent[a] = 1 /\ VidCopy(a) = [stage |-> "pending", end |-> "open"]
    /\ vidAct[a].pc \in VideoWorking => Vid(a) \in VideoIds /\ vidSlot[Vid(a)] = a /\ VidCopy(a) = vidRec[Vid(a)]
    /\ vidAct[a].pc \in {"poll", "confirm"} => VidCopy(a).stage = "pending"
    /\ vidAct[a].pc \in {"settle", "publish"} => VidCopy(a).stage = "settling"
    /\ vidAct[a].pc = "publish" => vidBooks[Vid(a)] = "charged"
    /\ vidAct[a].pc = "delete" => VidCopy(a).stage \in {"pending", "terminal"}
    /\ vidAct[a].pc = "drop" => VidCopy(a).stage = "terminal"

VideoInv ==
    /\ VideoTypeOK /\ VideoQueueExact /\ NoOrphanVideo
    /\ \A t \in VideoIds : VideoTaskOK(t)
    /\ \A a \in VideoActors : VideoActorOK(a)

\* The types of the actors.
VideoActorType == [pc : VideoLabels, goal : {"submit", "read", "delete", "cancel"}, task : VideoIds \cup {NoVideo}, copy : VideoRecord]

\* Before the first submission there is no record and nobody is busy.
LEMMA VideoInitInv == VideoInit => VideoInv
<1> SUFFICES ASSUME VideoInit PROVE VideoInv
  OBVIOUS
<1> USE DEF VideoInit, NoVideoRecord, VideoIdle
<1>1. VideoTypeOK
  BY VideoAssumption DEF VideoTypeOK, VideoLabels, VideoRecord, VideoStages, VideoEnds
<1>2. VideoQueueExact
  BY FS_EmptySet, VideoAssumption DEF VideoQueueExact
<1>3. NoOrphanVideo /\ \A t \in VideoIds : VideoTaskOK(t)
  BY DEF NoOrphanVideo, VideoTaskOK
<1>4. \A a \in VideoActors : VideoActorOK(a)
  BY DEF VideoActorOK, VideoSubmitting, VideoWorking
<1> QED
  BY <1>1, <1>2, <1>3, <1>4 DEF VideoInv

\* Faults stay within their bound.
LEMMA VideoFaultType == VideoInv /\ (VideoFine \/ VideoFault) => vidFaults' \in 0..MaxVideoFaults
  BY VideoAssumption DEF VideoInv, VideoTypeOK, VideoFine, VideoFault

\* What every step of an actor keeps: types, and the state and slots of others.
VideoMoved(a) ==
    /\ vidAct' \in [VideoActors -> VideoActorType]
    /\ vidSlot' \in [VideoIds -> VideoActors \cup {NoVideo}] /\ vidCreate' \in VideoIds \cup {NoVideo}
    /\ \A b \in VideoActors \ {a} :
          /\ vidAct'[b] = vidAct[b] /\ (vidCreate = b => vidCreate' = b)
          /\ \A t \in VideoIds : vidSlot[t] = b => vidSlot'[t] = b

\* A handler that returns is idle or, as a submission, done, and keeps no slot.
LEMMA VideoReturned ==
  ASSUME VideoInv, NEW a \in VideoActors, VideoReturn(a)
  PROVE  VideoMoved(a) /\ vidAct'[a].pc = IF a \in VideoIds THEN "done" ELSE "idle"
<1> USE DEF VideoInv, VideoTypeOK, VideoReturn
<1>1. [VideoIdle EXCEPT !.pc = IF a \in VideoIds THEN "done" ELSE "idle"] \in VideoActorType
  BY DEF VideoIdle, VideoActorType, VideoLabels, NoVideoRecord, VideoRecord, VideoStages, VideoEnds
<1>2. [VideoIdle EXCEPT !.pc = IF a \in VideoIds THEN "done" ELSE "idle"].pc = IF a \in VideoIds THEN "done" ELSE "idle"
  BY DEF VideoIdle
<1>3. vidAct' \in [VideoActors -> VideoActorType] /\ vidAct'[a].pc = IF a \in VideoIds THEN "done" ELSE "idle"
  BY <1>1, <1>2 DEF VideoActorType
<1>4. vidSlot' \in [VideoIds -> VideoActors \cup {NoVideo}] /\ vidCreate' \in VideoIds \cup {NoVideo}
  OBVIOUS
<1> QED
  BY <1>3, <1>4 DEF VideoMoved

\* An actor that goes on with its task keeps the types.
LEMMA VideoWent ==
  ASSUME VideoInv, NEW a \in VideoActors, NEW label \in VideoLabels, NEW rec \in VideoRecord,
         VideoGoto(a, label) \/ VideoKeep(a, label, rec)
  PROVE  /\ VideoMoved(a) /\ UNCHANGED vidSlots
         /\ vidAct'[a].pc = label /\ vidAct'[a].goal = vidAct[a].goal /\ vidAct'[a].task = vidAct[a].task
         /\ VideoGoto(a, label) => vidAct'[a].copy = vidAct[a].copy
         /\ VideoKeep(a, label, rec) => vidAct'[a].copy = rec
<1>1. /\ vidAct' \in [VideoActors -> VideoActorType] /\ UNCHANGED vidSlots
      /\ vidAct'[a].pc = label /\ vidAct'[a].goal = vidAct[a].goal /\ vidAct'[a].task = vidAct[a].task
      /\ VideoGoto(a, label) => vidAct'[a].copy = vidAct[a].copy
      /\ VideoKeep(a, label, rec) => vidAct'[a].copy = rec
      /\ \A b \in VideoActors \ {a} : vidAct'[b] = vidAct[b]
  BY DEF VideoInv, VideoTypeOK, VideoGoto, VideoKeep, VideoActorType
<1> QED
  BY <1>1 DEF VideoMoved, vidSlots, VideoInv, VideoTypeOK

\* What an actor may do without disturbing another: it writes the record of a
\* task whose slot it has, or its own new one, and joins the queue only while
\* it holds video-create.
LEMMA VideoOthersKeep ==
  ASSUME VideoInv, NEW a, NEW b \in VideoActors, b # a,
         vidAct'[b] = vidAct[b], vidCreate = b => vidCreate' = b,
         \A t \in VideoIds : vidSlot[t] = b => vidSlot'[t] = b,
         \A t \in VideoIds : \/ vidRec'[t] = vidRec[t]
                             \/ t = a /\ vidRec[t] = NoVideoRecord
                             \/ vidSlot[t] = a /\ vidRec[t] # NoVideoRecord,
         \A t \in VideoIds : /\ t # a => vidSent'[t] = vidSent[t]
                             /\ vidBooks[t] = "charged" => vidBooks'[t] = "charged",
         Cardinality(vidPending) < VideoCap => vidCreate = a \/ Cardinality(vidPending') < VideoCap
  PROVE  VideoActorOK(b)'
<1>1. VideoActorOK(b)
  BY DEF VideoInv
<1>2. CASE vidAct[b].pc \in VideoSubmitting
  <2>1. b \in VideoIds /\ vidRec'[b] = vidRec[b] /\ vidSent'[b] = vidSent[b] /\ vidCreate = b
    BY <1>1, <1>2 DEF VideoActorOK, VideoWorking, VideoSubmitting
  <2> QED
    BY <1>1, <1>2, <2>1 DEF VideoActorOK, VidCopy, VideoWorking, VideoSubmitting
<1>3. CASE vidAct[b].pc \in VideoWorking
  <2>1. Vid(b) \in VideoIds /\ vidSlot[Vid(b)] = b /\ vidRec[Vid(b)].stage # "none"
    BY <1>1, <1>3 DEF VideoActorOK, VideoWorking
  <2>2. vidRec'[Vid(b)] = vidRec[Vid(b)] /\ vidSlot'[Vid(b)] = b
    BY <2>1 DEF NoVideoRecord
  <2>3. b \notin VideoIds
    BY <1>1, <1>3 DEF VideoActorOK, VideoWorking, VideoSubmitting
  <2> QED
    BY <1>1, <1>3, <2>1, <2>2, <2>3 DEF VideoActorOK, VidCopy, Vid, VideoWorking, VideoSubmitting
<1>4. CASE vidAct[b].pc \notin VideoSubmitting \cup VideoWorking
  BY <1>1, <1>4 DEF VideoActorOK, VideoWorking, VideoSubmitting
<1> QED
  BY <1>2, <1>3, <1>4

\* A save keeps the queue exact.
LEMMA VideoSaved ==
  ASSUME VideoInv, NEW t \in VideoIds, NEW rec \in VideoRecord, SaveVideoTask(t, rec),
         rec.stage \in {"pending", "settling", "terminal", "deleted"},
         rec.stage \in {"pending", "settling"} => t \in vidPending \/ Cardinality(vidPending) < VideoCap
  PROVE  /\ vidRec' \in [VideoIds -> VideoRecord] /\ vidPending' \subseteq VideoIds
         /\ vidRec' = [vidRec EXCEPT ![t] = rec]
         /\ VideoQueueExact'
         /\ t \in vidPending \/ rec.stage \in {"terminal", "deleted"} => Cardinality(vidPending') <= Cardinality(vidPending)
         /\ Cardinality(vidPending) \in Nat /\ Cardinality(vidPending') \in Nat
<1> USE DEF VideoInv, VideoTypeOK, SaveVideoTask
<1>1. /\ vidRec' \in [VideoIds -> VideoRecord] /\ vidPending' \subseteq VideoIds
      /\ vidRec' = [vidRec EXCEPT ![t] = rec]
  OBVIOUS
<1>2. vidPending' = {s \in VideoIds : vidRec'[s].stage \in {"pending", "settling"}}
  BY DEF VideoQueueExact
<1>3. IsFiniteSet(vidPending) /\ Cardinality(vidPending) \in Nat /\ Cardinality(vidPending) <= VideoCap /\ VideoCap \in Nat
  BY FS_Subset, FS_CardinalityType, VideoAssumption DEF VideoQueueExact
<1>4. CASE rec.stage \in {"pending", "settling"}
  <2>1. IsFiniteSet(vidPending') /\ Cardinality(vidPending') <= VideoCap
    BY <1>3, <1>4, JoinCounts
  <2>2. t \in vidPending => Cardinality(vidPending') = Cardinality(vidPending)
    <3>1. t \in vidPending => vidPending' = vidPending
      BY <1>4
    <3> QED
      BY <3>1
  <2>3. Cardinality(vidPending') \in Nat
    BY <2>1, FS_CardinalityType
  <2> QED
    BY <1>1, <1>2, <1>3, <1>4, <2>1, <2>2, <2>3 DEF VideoQueueExact
<1>5. CASE rec.stage \in {"terminal", "deleted"}
  <2>1. vidPending' = vidPending \ {t}
    BY <1>5
  <2>2. Cardinality(vidPending') <= Cardinality(vidPending) /\ Cardinality(vidPending') \in Nat
    BY <1>3, <2>1, LeaveCounts
  <2> QED
    BY <1>1, <1>2, <1>3, <2>2 DEF VideoQueueExact
<1> QED
  BY <1>4, <1>5

\* A submission takes video-create, counts the queue under it and is sent.
LEMMA VideoSubmissionInv ==
  ASSUME VideoInv, NEW a \in VideoActors, SubmitVideo(a) \/ CountVideos(a) \/ PostVideo(a)
  PROVE  VideoInv'
<1> USE DEF VideoInv
<1>1. /\ UNCHANGED <<vidStore, vidBooks>> /\ a \in VideoIds /\ vidSent[a] = 0 /\ vidRec[a] = NoVideoRecord
      /\ \A t \in VideoIds : t # a => vidSent'[t] = vidSent[t] /\ vidUp'[t] = vidUp[t]
  BY DEF SubmitVideo, CountVideos, PostVideo, VideoActorOK, VideoSubmitting, VideoWorking, VideoTypeOK, VideoTaskOK
<1>2. /\ vidFaults' \in 0..MaxVideoFaults
      /\ vidSent' \in [VideoIds -> Nat]
      /\ vidUp' \in [VideoIds -> {"none", "queued", "running", "good", "void", "gone"}]
  <2>1. VideoFine \/ VideoFault
    BY DEF SubmitVideo, CountVideos, PostVideo, VideoFine
  <2> QED
    BY <2>1, VideoFaultType DEF SubmitVideo, CountVideos, PostVideo, VideoTypeOK
<1>3. VideoQueueExact' /\ NoOrphanVideo'
  BY <1>1 DEF VideoQueueExact, NoOrphanVideo, vidStore, NoVideoRecord
<1>4. VideoMoved(a)
  <2>1. CASE VideoReturn(a)
    BY <2>1, VideoReturned
  <2>2. CASE SubmitVideo(a) /\ vidCreate = NoVideo
    <3>1. vidAct' = [vidAct EXCEPT ![a].pc = "count", ![a].goal = "submit", ![a].task = a] /\ vidCreate' = a /\ UNCHANGED vidSlot
      BY <2>2 DEF SubmitVideo
    <3>2. vidAct' \in [VideoActors -> VideoActorType]
      <4>1. [vidAct[a] EXCEPT !.pc = "count", !.goal = "submit", !.task = a] \in VideoActorType
        <5>1. vidAct[a] \in VideoActorType
          BY DEF VideoTypeOK, VideoActorType
        <5> QED
          BY <1>1, <5>1 DEF VideoActorType, VideoLabels
      <4>2. vidAct' = [vidAct EXCEPT ![a] = [vidAct[a] EXCEPT !.pc = "count", !.goal = "submit", !.task = a]]
        BY <3>1 DEF VideoTypeOK
      <4> QED
        BY <4>1, <4>2 DEF VideoTypeOK, VideoActorType
    <3>3. \A b \in VideoActors : vidCreate # b
      BY <2>2, VideoAssumption
    <3> QED
      BY <1>1, <3>1, <3>2, <3>3 DEF VideoTypeOK, VideoMoved
  <2>3. CASE VideoGoto(a, "post") \/ VideoKeep(a, "persist", [stage |-> "pending", end |-> "open"])
    <3>1. "post" \in VideoLabels /\ "persist" \in VideoLabels /\ [stage |-> "pending", end |-> "open"] \in VideoRecord
      BY DEF VideoLabels, VideoRecord, VideoStages, VideoEnds
    <3> QED
      BY <2>3, <3>1, VideoWent
  <2> QED
    BY <2>1, <2>2, <2>3 DEF SubmitVideo, CountVideos, PostVideo
<1>5. VideoTypeOK'
  BY <1>1, <1>2, <1>4 DEF VideoTypeOK, VideoActorType, vidStore, VideoMoved
<1>6. \A b \in VideoActors \ {a} : VideoActorOK(b)'
  BY <1>1, <1>4, VideoOthersKeep DEF vidStore, VideoMoved
<1>7. VideoTaskOK(a)' /\ VideoActorOK(a)'
  <2>1. CASE VideoReturn(a)
    BY <1>1, <2>1, VideoReturned DEF SubmitVideo, CountVideos, PostVideo, VideoTaskOK, VideoActorOK, VideoSubmitting, VideoWorking,
       NoVideoRecord, vidStore, VideoTypeOK
  <2>2. CASE SubmitVideo(a) /\ vidCreate = NoVideo
    BY <1>1, <2>2 DEF SubmitVideo, VideoTaskOK, VideoActorOK, VideoSubmitting, VideoWorking, NoVideoRecord, vidStore, VideoTypeOK
  <2>3. CASE CountVideos(a) /\ Cardinality(vidPending) < VideoCap /\ VideoGoto(a, "post")
    BY <1>1, <2>3, VideoWent DEF CountVideos, VideoTaskOK, VideoActorOK, VideoSubmitting, VideoWorking, NoVideoRecord, vidStore, VideoTypeOK, VideoGoto, vidSlots
  <2>4. CASE PostVideo(a) /\ VideoKeep(a, "persist", [stage |-> "pending", end |-> "open"])
    <3> DEFINE rec == [stage |-> "pending", end |-> "open"]
    <3>1. "persist" \in VideoLabels /\ rec \in VideoRecord
      BY DEF VideoLabels, VideoRecord, VideoStages, VideoEnds
    <3>2. vidAct'[a].pc = "persist" /\ vidAct'[a].copy = rec /\ UNCHANGED vidSlots
      BY <2>4, <3>1, VideoWent
    <3>3. vidAct[a].pc = "post" /\ vidSent'[a] = 1
      BY <1>1, <2>4 DEF PostVideo, VideoTypeOK
    <3>4. VideoTaskOK(a)'
      BY <1>1, <3>3 DEF VideoTaskOK, vidStore, NoVideoRecord
    <3>5. VideoActorOK(a)
      OBVIOUS
    <3> QED
      BY <1>1, <3>2, <3>3, <3>4, <3>5 DEF VideoActorOK, VideoSubmitting, VideoWorking, vidStore, vidSlots, VidCopy
  <2> QED
    BY <2>1, <2>2, <2>3, <2>4 DEF SubmitVideo, CountVideos, PostVideo
<1>8. \A t \in VideoIds \ {a} : VideoTaskOK(t)'
  BY <1>1 DEF VideoTaskOK, vidStore
<1> QED
  BY <1>3, <1>5, <1>6, <1>7, <1>8

\* A handler that returns without writing a record leaves the rest as it was;
\* what it charged or cancelled stays charged or cancelled.
LEMMA VideoQuietInv ==
  ASSUME VideoInv, NEW a \in VideoActors, VideoReturn(a), VideoFine \/ VideoFault, UNCHANGED <<vidStore, vidSent>>,
         vidBooks' \in [VideoIds -> {"none", "stored", "charged"}],
         vidUp' \in [VideoIds -> {"none", "queued", "running", "good", "void", "gone"}],
         \A t \in VideoIds : /\ vidBooks[t] = "charged" => vidBooks'[t] = "charged"
                             /\ vidSent[t] = 0 => vidBooks'[t] = "none"
                             /\ vidUp[t] \notin {"queued", "running"} => vidUp'[t] \notin {"queued", "running"}
  PROVE  VideoInv'
<1> USE DEF VideoInv
<1>1. VideoMoved(a) /\ vidAct'[a].pc = IF a \in VideoIds THEN "done" ELSE "idle"
  BY VideoReturned
<1>2. VideoTypeOK'
  BY <1>1, VideoFaultType DEF VideoTypeOK, VideoMoved, VideoActorType, vidStore
<1>3. VideoQueueExact' /\ NoOrphanVideo' /\ \A t \in VideoIds : VideoTaskOK(t)'
  BY DEF VideoQueueExact, NoOrphanVideo, VideoTaskOK, vidStore
<1>4. \A b \in VideoActors \ {a} : VideoActorOK(b)'
  BY <1>1, VideoOthersKeep DEF vidStore, VideoMoved
<1>5. VideoActorOK(a)'
  BY <1>1 DEF VideoActorOK, VideoSubmitting, VideoWorking
<1> QED
  BY <1>2, <1>3, <1>4, <1>5

\* A save under the slot, or the first one under video-create.
LEMMA VideoStoreInv ==
  ASSUME VideoInv, NEW a \in VideoActors, NEW t \in VideoIds, NEW rec \in VideoRecord, SaveVideoTask(t, rec),
         UNCHANGED <<vidBooks, vidSent, vidUp>>, VideoFine \/ VideoFault, VideoMoved(a), VideoActorOK(a)',
         vidSent[t] = 1, rec.stage \in {"pending", "settling", "terminal", "deleted"},
         \/ t = a /\ vidRec[t] = NoVideoRecord /\ vidCreate = a /\ Cardinality(vidPending) < VideoCap
         \/ vidSlot[t] = a /\ vidRec[t].stage \in {"pending", "settling", "terminal"}
            /\ (vidRec[t].stage = "terminal" => rec.stage = "deleted"),
         rec.stage # "pending" => vidUp[t] \notin {"queued", "running"},
         rec.stage = "settling" => rec.end = "good"
  PROVE  VideoInv'
<1> USE DEF VideoInv
<1>1. /\ vidRec' \in [VideoIds -> VideoRecord] /\ vidPending' \subseteq VideoIds
      /\ vidRec' = [vidRec EXCEPT ![t] = rec]
      /\ VideoQueueExact'
      /\ t \in vidPending \/ rec.stage \in {"terminal", "deleted"} => Cardinality(vidPending') <= Cardinality(vidPending)
      /\ Cardinality(vidPending) \in Nat /\ Cardinality(vidPending') \in Nat
  <2>1. rec.stage \in {"pending", "settling"} => t \in vidPending \/ Cardinality(vidPending) < VideoCap
    BY DEF VideoQueueExact
  <2> QED
    BY <2>1, VideoSaved
<1>2. VideoTypeOK'
  BY <1>1, VideoFaultType DEF VideoTypeOK, VideoMoved, VideoActorType
<1>3. NoOrphanVideo' /\ \A s \in VideoIds : VideoTaskOK(s)'
  BY <1>1 DEF NoOrphanVideo, VideoTaskOK, VideoTypeOK
<1>4. Cardinality(vidPending) < VideoCap => vidCreate = a \/ Cardinality(vidPending') < VideoCap
  BY <1>1, VideoAssumption DEF VideoQueueExact
<1>5. \A s \in VideoIds : \/ vidRec'[s] = vidRec[s]
                          \/ s = a /\ vidRec[s] = NoVideoRecord
                          \/ vidSlot[s] = a /\ vidRec[s] # NoVideoRecord
  BY <1>1 DEF VideoTypeOK, NoVideoRecord
<1>6. \A b \in VideoActors \ {a} : VideoActorOK(b)'
  BY <1>4, <1>5, VideoOthersKeep DEF VideoMoved
<1> QED
  BY <1>1, <1>2, <1>3, <1>6

\* A handler that returns is done with whatever it did.
LEMMA VideoReturnedOK ==
  ASSUME VideoInv, NEW a \in VideoActors, VideoReturn(a)
  PROVE  VideoMoved(a) /\ VideoActorOK(a)'
  BY VideoReturned DEF VideoActorOK, VideoSubmitting, VideoWorking

\* The record of an accepted submission.
LEMMA PersistVideoInv ==
  ASSUME VideoInv, NEW a \in VideoActors, PersistVideo(a)
  PROVE  VideoInv'
<1> USE DEF VideoInv
<1>1. /\ a \in VideoIds /\ vidSent[a] = 1 /\ VidCopy(a) = [stage |-> "pending", end |-> "open"]
      /\ vidRec[a] = NoVideoRecord /\ vidCreate = a /\ Cardinality(vidPending) < VideoCap
  BY DEF PersistVideo, VideoActorOK, VideoSubmitting, VideoWorking
<1>2. VidCopy(a) \in VideoRecord
  BY <1>1 DEF VideoRecord, VideoStages, VideoEnds
<1>3. CASE SaveVideoTask(a, VidCopy(a)) /\ (VideoFine \/ VideoFault)
  <2>1. PICK rec : rec = VidCopy(a)
    OBVIOUS
  <2> QED
    BY <1>1, <1>2, <1>3, <2>1, VideoReturnedOK, VideoStoreInv DEF PersistVideo
<1>4. CASE UNCHANGED vidStore /\ VideoFault
  BY <1>4, VideoQuietInv DEF PersistVideo, VideoTypeOK, VideoTaskOK
<1> QED
  BY <1>3, <1>4 DEF PersistVideo, SaveVideoTaskFails

\* A handler or the worker takes the slot of a task and loads its record.
LEMMA EnterVideoInv ==
  ASSUME VideoInv, NEW a \in VideoActors \ VideoIds, NEW goal \in {"read", "delete"}, NEW t \in VideoIds,
         vidAct[a].pc = "idle", EnterVideo(a, goal, t),
         UNCHANGED <<vidStore, vidBooks, vidSent, vidUp, vidFaults>>
  PROVE  VideoInv'
<1> USE DEF VideoInv
<1>1. PICK label \in {"poll", "settle", "delete"} :
        /\ label = VideoEntry(goal, vidRec[t].stage)
        /\ vidAct' = [vidAct EXCEPT ![a] = [pc |-> label, goal |-> goal, task |-> t, copy |-> vidRec[t]]]
        /\ vidSlot[t] = NoVideo /\ vidSlot' = [vidSlot EXCEPT ![t] = a] /\ vidCreate' = vidCreate
  BY DEF EnterVideo, VideoEntry
<1>2. [pc |-> label, goal |-> goal, task |-> t, copy |-> vidRec[t]] \in VideoActorType
  BY DEF VideoActorType, VideoLabels, VideoTypeOK
<1>3. VideoMoved(a)
  BY <1>1, <1>2, VideoAssumption DEF VideoMoved, VideoTypeOK, VideoActorType, VideoActors
<1>4. VideoTypeOK'
  BY <1>3 DEF VideoTypeOK, VideoMoved, VideoActorType, vidStore
<1>5. VideoQueueExact' /\ NoOrphanVideo' /\ \A s \in VideoIds : VideoTaskOK(s)'
  BY DEF VideoQueueExact, NoOrphanVideo, VideoTaskOK, vidStore
<1>6. \A b \in VideoActors \ {a} : VideoActorOK(b)'
  BY <1>3, VideoOthersKeep DEF vidStore, VideoMoved
<1>7. VideoActorOK(a)'
  <2>1. vidAct'[a] = [pc |-> label, goal |-> goal, task |-> t, copy |-> vidRec[t]] /\ vidSlot'[t] = a /\ vidRec' = vidRec
    BY <1>1 DEF VideoTypeOK, vidStore
  <2>2. /\ label = "poll" => vidRec[t].stage = "pending"
        /\ label = "settle" => vidRec[t].stage = "settling"
        /\ label = "delete" => vidRec[t].stage = "terminal"
    BY <1>1 DEF VideoEntry
  <2> QED
    BY <2>1, <2>2 DEF VideoActorOK, VideoSubmitting, VideoWorking, Vid, VidCopy
<1> QED
  BY <1>4, <1>5, <1>6, <1>7

\* What an actor knows of the task it works on.
LEMMA VideoHeld ==
  ASSUME VideoInv, NEW a \in VideoActors, vidAct[a].pc \in VideoWorking
  PROVE  /\ Vid(a) \in VideoIds /\ vidSlot[Vid(a)] = a /\ VidCopy(a) = vidRec[Vid(a)] /\ vidSent[Vid(a)] = 1
         /\ a \notin VideoIds /\ VidCopy(a) \in VideoRecord
         /\ vidAct[a].pc \in {"poll", "confirm"} => vidRec[Vid(a)].stage = "pending"
         /\ vidAct[a].pc \in {"settle", "publish"} => vidRec[Vid(a)].stage = "settling"
         /\ vidAct[a].pc = "publish" => vidBooks[Vid(a)] = "charged"
         /\ vidAct[a].pc = "delete" => vidRec[Vid(a)].stage \in {"pending", "terminal"}
         /\ vidAct[a].pc = "drop" => vidRec[Vid(a)].stage = "terminal"
<1>1. VideoActorOK(a)
  BY DEF VideoInv
<1>2. Vid(a) \in VideoIds /\ vidSlot[Vid(a)] = a /\ VidCopy(a) = vidRec[Vid(a)] /\ a \notin VideoIds
  BY <1>1 DEF VideoActorOK, VideoWorking, VideoSubmitting
<1>3. vidRec[Vid(a)].stage # "none"
  BY <1>1, <1>2 DEF VideoActorOK, VideoWorking
<1>4. VideoTaskOK(Vid(a)) /\ vidRec[Vid(a)] \in VideoRecord
  BY <1>2 DEF VideoInv, VideoTypeOK
<1>5. vidSent[Vid(a)] = 1
  BY <1>3, <1>4 DEF VideoTaskOK, NoVideoRecord
<1> QED
  BY <1>1, <1>2, <1>4, <1>5 DEF VideoActorOK

\* An actor that keeps its task and slot, with the record it has written.
LEMMA VideoKept ==
  ASSUME VideoInv, NEW a \in VideoActors, vidAct[a].pc \in VideoWorking, NEW label \in VideoWorking, NEW rec \in VideoRecord,
         VideoKeep(a, label, rec), vidRec'[Vid(a)] = rec,
         label \in {"poll", "confirm"} => rec.stage = "pending",
         label \in {"settle", "publish"} => rec.stage = "settling",
         label = "publish" => vidBooks'[Vid(a)] = "charged",
         label = "delete" => rec.stage \in {"pending", "terminal"},
         label = "drop" => rec.stage = "terminal"
  PROVE  VideoMoved(a) /\ VideoActorOK(a)'
<1>1. /\ VideoMoved(a) /\ UNCHANGED vidSlots
      /\ vidAct'[a].pc = label /\ vidAct'[a].task = vidAct[a].task /\ vidAct'[a].copy = rec
  BY VideoWent DEF VideoWorking, VideoLabels
<1>2. Vid(a) \in VideoIds /\ vidSlot[Vid(a)] = a /\ a \notin VideoIds
  BY VideoHeld
<1> QED
  BY <1>1, <1>2 DEF VideoActorOK, Vid, VidCopy, VideoWorking, VideoSubmitting, vidSlots

\* refreshVideoTask stores the answer before anything is charged.
LEMMA PollVideoInv ==
  ASSUME VideoInv, NEW a \in VideoActors, PollVideo(a)
  PROVE  VideoInv'
<1> USE DEF VideoInv
<1>1. /\ vidAct[a].pc \in VideoWorking /\ Vid(a) \in VideoIds /\ vidSlot[Vid(a)] = a /\ vidSent[Vid(a)] = 1
      /\ vidRec[Vid(a)].stage = "pending" /\ UNCHANGED <<vidBooks, vidSent, vidUp>>
  BY VideoHeld DEF PollVideo, VideoWorking
<1>2. PICK t \in VideoIds, rec \in VideoRecord :
        /\ t = Vid(a)
        /\ rec = CASE vidUp[t] = "good" -> [stage |-> "settling", end |-> "good"]
                   [] vidUp[t] = "void" -> [stage |-> "terminal", end |-> "void"]
                   [] OTHER -> [stage |-> "pending", end |-> "open"]
  BY <1>1 DEF VideoRecord, VideoStages, VideoEnds
<1>3. /\ rec.stage \in {"pending", "settling", "terminal"} /\ (rec.stage = "settling" => rec.end = "good")
      /\ (rec.stage # "pending" => vidUp[t] \notin {"queued", "running"})
  BY <1>2
<1>4. \/ /\ SaveVideoTask(t, rec) /\ VideoFine
         /\ IF rec.stage = "settling" THEN VideoKeep(a, "settle", rec) ELSE VideoSettled(a, rec)
      \/ SaveVideoTaskFails(t, rec) /\ VideoReturn(a)
      \/ (VideoFine \/ VideoFault) /\ VideoReturn(a) /\ UNCHANGED vidStore
  BY <1>2 DEF PollVideo
<1>5. CASE SaveVideoTask(t, rec) /\ (VideoFine \/ VideoFault) /\ VideoReturn(a)
  BY <1>1, <1>2, <1>3, <1>5, VideoReturnedOK, VideoStoreInv
<1>6. CASE SaveVideoTask(t, rec) /\ VideoFine /\ \E label \in {"settle", "delete"} : VideoKeep(a, label, rec) /\ (label = "settle" <=> rec.stage = "settling")
  <2>1. vidRec'[t] = rec
    BY <1>6 DEF SaveVideoTask, VideoTypeOK
  <2>2. VideoMoved(a) /\ VideoActorOK(a)'
    BY <1>1, <1>2, <1>3, <1>6, <2>1, VideoKept DEF VideoWorking
  <2> QED
    BY <1>1, <1>2, <1>3, <1>6, <2>2, VideoStoreInv
<1>7. CASE (VideoFine \/ VideoFault) /\ VideoReturn(a) /\ UNCHANGED vidStore
  BY <1>1, <1>7, VideoQuietInv DEF VideoTypeOK, VideoTaskOK
<1> QED
  BY <1>4, <1>5, <1>6, <1>7 DEF VideoSettled, SaveVideoTaskFails

\* saveReceipt charges the task, or leaves what it left.
LEMMA SettleVideoInv ==
  ASSUME VideoInv, NEW a \in VideoActors, SettleVideo(a)
  PROVE  VideoInv'
<1> USE DEF VideoInv
<1>1. /\ vidAct[a].pc \in VideoWorking /\ Vid(a) \in VideoIds /\ vidSlot[Vid(a)] = a /\ vidSent[Vid(a)] = 1
      /\ vidRec[Vid(a)].stage = "settling" /\ VidCopy(a) = vidRec[Vid(a)] /\ VidCopy(a) \in VideoRecord
      /\ UNCHANGED <<vidStore, vidSent, vidUp>>
  BY VideoHeld DEF SettleVideo, VideoWorking
<1>2. PICK b \in {"none", "stored", "charged"} :
        /\ vidBooks' = [vidBooks EXCEPT ![Vid(a)] = b] /\ (vidBooks[Vid(a)] = "charged" => b = "charged")
        /\ \/ VideoFault /\ VideoReturn(a)
           \/ VideoFine /\ b = "charged" /\ VideoGoto(a, "publish")
  BY <1>1 DEF SettleVideo, VideoTypeOK
<1>3. /\ vidBooks' \in [VideoIds -> {"none", "stored", "charged"}]
      /\ \A t \in VideoIds : (vidBooks[t] = "charged" => vidBooks'[t] = "charged") /\ (vidSent[t] = 0 => vidBooks'[t] = "none")
  BY <1>1, <1>2 DEF VideoTypeOK, VideoTaskOK
<1>4. CASE VideoFault /\ VideoReturn(a)
  BY <1>1, <1>3, <1>4, VideoQuietInv DEF VideoTypeOK
<1>5. CASE VideoFine /\ b = "charged" /\ VideoGoto(a, "publish")
  <2>1. /\ VideoMoved(a) /\ UNCHANGED vidSlots
        /\ vidAct'[a].pc = "publish" /\ vidAct'[a].task = vidAct[a].task /\ vidAct'[a].copy = vidAct[a].copy
    BY <1>1, <1>5, VideoWent DEF VideoLabels
  <2>2. VideoTypeOK'
    BY <1>1, <1>3, <2>1, <1>5, VideoFaultType DEF VideoTypeOK, VideoMoved, VideoActorType, vidStore
  <2>3. VideoQueueExact' /\ NoOrphanVideo' /\ \A t \in VideoIds : VideoTaskOK(t)'
    BY <1>1, <1>3 DEF VideoQueueExact, NoOrphanVideo, VideoTaskOK, vidStore
  <2>4. \A o \in VideoActors \ {a} : VideoActorOK(o)'
    BY <1>1, <1>3, <2>1, VideoOthersKeep, ZenonT(40) DEF vidStore, VideoMoved
  <2>5. VideoActorOK(a)'
    <3>1. a \notin VideoIds /\ vidBooks'[Vid(a)] = "charged"
      BY <1>1, <1>2, <1>5, VideoHeld DEF VideoTypeOK
    <3> QED
      BY <1>1, <2>1, <3>1 DEF VideoActorOK, VideoSubmitting, VideoWorking, Vid, VidCopy, vidStore, vidSlots
  <2> QED
    BY <2>2, <2>3, <2>4, <2>5
<1> QED
  BY <1>2, <1>4, <1>5

\* The rest of settleVideoTask.
LEMMA PublishVideoInv ==
  ASSUME VideoInv, NEW a \in VideoActors, PublishVideo(a)
  PROVE  VideoInv'
<1> USE DEF VideoInv
<1>1. /\ vidAct[a].pc \in VideoWorking /\ Vid(a) \in VideoIds /\ vidSlot[Vid(a)] = a /\ vidSent[Vid(a)] = 1
      /\ vidRec[Vid(a)].stage = "settling" /\ VidCopy(a) \in VideoRecord
      /\ UNCHANGED <<vidBooks, vidSent, vidUp>>
  BY VideoHeld DEF PublishVideo, VideoWorking
<1>2. PICK t \in VideoIds, rec \in VideoRecord : t = Vid(a) /\ rec = [VidCopy(a) EXCEPT !.stage = "terminal"]
  BY <1>1 DEF VideoRecord, VideoStages
<1>3. rec.stage = "terminal" /\ vidUp[t] \notin {"queued", "running"}
  BY <1>1, <1>2 DEF VideoRecord, VideoTaskOK
<1>4. CASE SaveVideoTask(t, rec) /\ (VideoFine \/ VideoFault) /\ VideoReturn(a)
  BY <1>1, <1>2, <1>3, <1>4, VideoReturnedOK, VideoStoreInv
<1>5. CASE SaveVideoTask(t, rec) /\ VideoFine /\ VideoKeep(a, "delete", rec)
  <2>1. vidRec'[t] = rec
    BY <1>5 DEF SaveVideoTask, VideoTypeOK
  <2>2. VideoMoved(a) /\ VideoActorOK(a)'
    BY <1>1, <1>2, <1>3, <1>5, <2>1, VideoKept DEF VideoWorking
  <2> QED
    BY <1>1, <1>2, <1>3, <1>5, <2>2, VideoStoreInv
<1>6. CASE VideoFault /\ VideoReturn(a) /\ UNCHANGED vidStore
  BY <1>1, <1>6, VideoQuietInv DEF VideoTypeOK, VideoTaskOK
<1> QED
  BY <1>2, <1>4, <1>5, <1>6 DEF PublishVideo, VideoSettled, SaveVideoTaskFails

\* Deletion: the record is dropped only after the provider's was.
LEMMA DropVideoInv ==
  ASSUME VideoInv, NEW a \in VideoActors, DropVideo(a)
  PROVE  VideoInv'
<1> USE DEF VideoInv
<1>1. /\ vidAct[a].pc \in VideoWorking /\ Vid(a) \in VideoIds /\ vidSlot[Vid(a)] = a /\ vidSent[Vid(a)] = 1
      /\ vidRec[Vid(a)].stage = "terminal" /\ VidCopy(a) \in VideoRecord
      /\ UNCHANGED <<vidBooks, vidSent, vidUp>>
  BY VideoHeld DEF DropVideo, VideoWorking
<1>2. PICK t \in VideoIds, rec \in VideoRecord : t = Vid(a) /\ rec = [VidCopy(a) EXCEPT !.stage = "deleted"]
  BY <1>1 DEF VideoRecord, VideoStages
<1>3. rec.stage = "deleted" /\ vidUp[t] \notin {"queued", "running"}
  BY <1>1, <1>2 DEF VideoRecord, NoOrphanVideo
<1>4. CASE SaveVideoTask(t, rec) /\ (VideoFine \/ VideoFault) /\ VideoReturn(a)
  BY <1>1, <1>2, <1>3, <1>4, VideoReturnedOK, VideoStoreInv
<1>5. CASE VideoFault /\ VideoReturn(a) /\ UNCHANGED vidStore
  BY <1>1, <1>5, VideoQuietInv DEF VideoTypeOK, VideoTaskOK
<1> QED
  BY <1>2, <1>4, <1>5 DEF DropVideo, SaveVideoTaskFails

\* The provider cancels a queued task; its record is polled again then.
LEMMA DeleteVideoInv ==
  ASSUME VideoInv, NEW a \in VideoActors, DeleteVideo(a)
  PROVE  VideoInv'
<1> USE DEF VideoInv
<1>1. /\ vidAct[a].pc \in VideoWorking /\ Vid(a) \in VideoIds /\ vidSlot[Vid(a)] = a /\ vidSent[Vid(a)] = 1 /\ a \notin VideoIds
      /\ vidRec[Vid(a)].stage \in {"pending", "terminal"} /\ VidCopy(a) = vidRec[Vid(a)]
      /\ UNCHANGED <<vidStore, vidBooks, vidSent>>
  BY VideoHeld DEF DeleteVideo, VideoWorking
<1>2. /\ vidUp' \in [VideoIds -> {"none", "queued", "running", "good", "void", "gone"}]
      /\ \A t \in VideoIds : vidUp[t] \notin {"queued", "running"} => vidUp'[t] \notin {"queued", "running"}
  BY <1>1 DEF DeleteVideo, DeletedUpstream, VideoTypeOK
<1>3. CASE (VideoFine \/ VideoFault) /\ VideoReturn(a)
  BY <1>1, <1>2, <1>3, VideoQuietInv DEF VideoTypeOK, VideoTaskOK
<1>4. ASSUME NEW label \in {"drop", "confirm"}, label = (IF VidCopy(a).stage = "terminal" THEN "drop" ELSE "confirm"),
             vidAct' = [vidAct EXCEPT ![a].pc = label, ![a].goal = "cancel"], UNCHANGED vidSlots, VideoFine
      PROVE  VideoInv'
  <2>1. /\ vidAct' \in [VideoActors -> VideoActorType] /\ vidAct'[a].pc = label /\ vidAct'[a].task = vidAct[a].task
        /\ vidAct'[a].copy = vidAct[a].copy /\ \A b \in VideoActors \ {a} : vidAct'[b] = vidAct[b]
    <3>1. vidAct[a] \in VideoActorType /\ vidAct \in [VideoActors -> VideoActorType]
      BY DEF VideoTypeOK, VideoActorType
    <3>2. [vidAct[a] EXCEPT !.pc = label, !.goal = "cancel"] \in VideoActorType
      BY <3>1 DEF VideoActorType, VideoLabels
    <3>3. vidAct' = [vidAct EXCEPT ![a] = [vidAct[a] EXCEPT !.pc = label, !.goal = "cancel"]]
      BY <1>4, <3>1
    <3>4. vidAct'[a] = [vidAct[a] EXCEPT !.pc = label, !.goal = "cancel"] /\ \A b \in VideoActors \ {a} : vidAct'[b] = vidAct[b]
      BY <3>1, <3>3
    <3>5. vidAct'[a].pc = label /\ vidAct'[a].task = vidAct[a].task /\ vidAct'[a].copy = vidAct[a].copy
      BY <3>1, <3>4 DEF VideoActorType
    <3> QED
      BY <3>1, <3>2, <3>3, <3>4, <3>5
  <2>2. VideoMoved(a)
    BY <1>4, <2>1 DEF VideoMoved, VideoTypeOK, vidSlots
  <2>3. VideoTypeOK'
    BY <1>1, <1>2, <1>4, <2>2, VideoFaultType DEF VideoTypeOK, VideoMoved, VideoActorType, vidStore
  <2>4. VideoQueueExact' /\ NoOrphanVideo' /\ \A t \in VideoIds : VideoTaskOK(t)'
    BY <1>1, <1>2 DEF VideoQueueExact, NoOrphanVideo, VideoTaskOK, vidStore
  <2>5. \A b \in VideoActors \ {a} : VideoActorOK(b)'
    BY <1>1, <2>2, VideoOthersKeep DEF vidStore, VideoMoved
  <2>6. VideoActorOK(a)'
    BY <1>1, <1>4, <2>1 DEF VideoActorOK, VideoSubmitting, VideoWorking, Vid, VidCopy, vidStore, vidSlots
  <2> QED
    BY <2>3, <2>4, <2>5, <2>6
<1> QED
  BY <1>3, <1>4 DEF DeleteVideo

\* The provider, the recovery of receipts, expiry and a crash.
LEMMA VideoWorldInv ==
  ASSUME VideoInv,
         (\E t \in VideoIds : VideoProvider(t) \/ RecoverVideoReceipt(t) \/ ExpireVideo(t)) \/ VideoCrash
  PROVE  VideoInv'
<1> USE DEF VideoInv
<1>1. ASSUME NEW t \in VideoIds, VideoProvider(t) PROVE VideoInv'
  <2>1. vidRec[t].stage # "settling" /\ vidRec[t].stage \notin {"terminal", "deleted", "expired"}
    BY <1>1 DEF VideoProvider, VideoTaskOK, NoOrphanVideo
  <2>2. VideoTypeOK' /\ \A s \in VideoIds : s # t => vidUp'[s] = vidUp[s]
    BY <1>1 DEF VideoProvider, VideoTypeOK, vidStore, vidSlots
  <2>3. VideoQueueExact' /\ NoOrphanVideo' /\ \A s \in VideoIds : VideoTaskOK(s)'
    BY <1>1, <2>1, <2>2 DEF VideoProvider, VideoQueueExact, NoOrphanVideo, VideoTaskOK, vidStore
  <2>4. \A a \in VideoActors : VideoActorOK(a)'
    BY <1>1 DEF VideoProvider, VideoActorOK, vidStore, vidSlots, Vid, VidCopy
  <2> QED
    BY <2>2, <2>3, <2>4
<1>2. ASSUME NEW t \in VideoIds, RecoverVideoReceipt(t) PROVE VideoInv'
  <2>1. vidSent[t] = 1 /\ vidBooks' = [vidBooks EXCEPT ![t] = "charged"]
    BY <1>2 DEF RecoverVideoReceipt, VideoTaskOK
  <2>2. VideoTypeOK' /\ VideoQueueExact' /\ NoOrphanVideo' /\ \A s \in VideoIds : VideoTaskOK(s)'
    BY <1>2, <2>1 DEF RecoverVideoReceipt, VideoTypeOK, VideoQueueExact, NoOrphanVideo, VideoTaskOK, vidStore, vidSlots
  <2>3. \A a \in VideoActors : VideoActorOK(a)'
    <3>1. \A s \in VideoIds : vidBooks[s] = "charged" => vidBooks'[s] = "charged"
      BY <2>1 DEF VideoTypeOK
    <3> QED
      BY <1>2, <3>1 DEF RecoverVideoReceipt, VideoActorOK, vidStore, vidSlots, Vid, VidCopy, VideoWorking
  <2> QED
    BY <2>2, <2>3
<1>3. ASSUME NEW t \in VideoIds, ExpireVideo(t) PROVE VideoInv'
  <2>1. vidRec'[t] = [vidRec[t] EXCEPT !.stage = "expired"] /\ vidRec[t].stage \in {"terminal", "deleted"}
        /\ \A s \in VideoIds : s # t => vidRec'[s] = vidRec[s]
    BY <1>3 DEF ExpireVideo, VideoTypeOK
  <2>2. VideoTypeOK'
    BY <1>3 DEF ExpireVideo, VideoTypeOK, VideoRecord, VideoStages, vidSlots
  <2>3. VideoQueueExact' /\ NoOrphanVideo' /\ \A s \in VideoIds : VideoTaskOK(s)'
    BY <1>3, <2>1 DEF ExpireVideo, VideoQueueExact, NoOrphanVideo, VideoTaskOK, NoVideoRecord, VideoTypeOK, VideoRecord
  <2>4. \A a \in VideoActors : VideoActorOK(a)'
    <3>1. \A a \in VideoActors : vidAct[a].pc \in VideoWorking => Vid(a) # t
      BY <1>3, VideoHeld, VideoAssumption DEF ExpireVideo
    <3>2. vidRec[t] # NoVideoRecord
      BY <2>1 DEF NoVideoRecord
    <3> QED
      BY <1>3, <2>1, <3>1, <3>2 DEF ExpireVideo, VideoActorOK, vidSlots, Vid, VidCopy, VideoWorking, VideoSubmitting
  <2> QED
    BY <2>2, <2>3, <2>4
<1>4. CASE VideoCrash
  <2>1. \A a \in VideoActors : vidAct'[a] = (IF a \in VideoIds /\ vidAct[a].pc # "idle" THEN [VideoIdle EXCEPT !.pc = "done"] ELSE VideoIdle)
    BY <1>4 DEF VideoCrash
  <2>2. VideoIdle \in VideoActorType /\ [VideoIdle EXCEPT !.pc = "done"] \in VideoActorType
    BY DEF VideoIdle, VideoActorType, VideoLabels, NoVideoRecord, VideoRecord, VideoStages, VideoEnds
  <2>3. VideoTypeOK'
    BY <1>4, <2>2, VideoFaultType DEF VideoCrash, VideoTypeOK, VideoActorType, vidStore
  <2>4. VideoQueueExact' /\ NoOrphanVideo' /\ \A s \in VideoIds : VideoTaskOK(s)'
    BY <1>4 DEF VideoCrash, VideoQueueExact, NoOrphanVideo, VideoTaskOK, vidStore
  <2>5. \A a \in VideoActors : VideoActorOK(a)'
    BY <1>4, <2>1 DEF VideoCrash, VideoActorOK, VideoIdle, VideoWorking, VideoSubmitting
  <2> QED
    BY <2>3, <2>4, <2>5
<1> QED
  BY <1>1, <1>2, <1>3, <1>4

\* Every step keeps the invariant.
LEMMA VideoNextInv == VideoInv /\ [VideoNext]_vidVars => VideoInv'
<1> SUFFICES ASSUME VideoInv, [VideoNext]_vidVars PROVE VideoInv'
  OBVIOUS
<1>1. ASSUME NEW a \in VideoActors, SubmitVideo(a) \/ VideoStep(a) PROVE VideoInv'
  BY <1>1, VideoSubmissionInv, PersistVideoInv, PollVideoInv, SettleVideoInv, PublishVideoInv, DeleteVideoInv, DropVideoInv
  DEF VideoStep
<1>2. ASSUME NEW a \in VideoClients, NEW t \in VideoIds, NEW goal \in {"read", "delete"}, LookUpVideo(a, goal, t) PROVE VideoInv'
  BY <1>2, EnterVideoInv, VideoAssumption DEF LookUpVideo, VideoActors
<1>3. ASSUME NEW t \in VideoIds, RunVideoTask(t) PROVE VideoInv'
  BY <1>3, EnterVideoInv, VideoAssumption DEF RunVideoTask, VideoActors
<1>4. CASE UNCHANGED vidVars
  BY <1>4 DEF vidVars, vidStore, vidSlots, VideoInv, VideoTypeOK, VideoQueueExact, NoOrphanVideo, VideoTaskOK, VideoActorOK, Vid, VidCopy
<1> QED
  BY <1>1, <1>2, <1>3, <1>4, VideoWorldInv DEF VideoNext

\* The invariant holds in every state.
LEMMA VideoInvariance == VideoSpec => []VideoInv
  BY VideoInitInv, VideoNextInv, PTL DEF VideoSpec

VideoOutcomes == [t \in VideoIds |-> VideoOutcome(t)]
VideoCharges == [t \in VideoIds |-> vidBooks[t] = "charged"]
VideoClosed == {"terminal", "deleted", "expired"}

\* An open record that stays open has no outcome yet, and a closed one that
\* stays closed with the same end keeps it.
LEMMA VideoOutcomesKept ==
  ASSUME \A t \in VideoIds : \/ vidRec'[t] = vidRec[t]
                             \/ vidRec[t].stage \notin VideoClosed /\ vidRec'[t].stage \notin VideoClosed
                             \/ vidRec[t].stage \in VideoClosed /\ vidRec'[t].stage \in VideoClosed /\ vidRec'[t].end = vidRec[t].end
  PROVE  VideoOutcomes' = VideoOutcomes
  BY DEF VideoOutcomes, VideoOutcome, VideoClosed

\* A receipt that is stored or charged is a charge of the task, or nothing.
LEMMA VideoBooked ==
  ASSUME VideoInv, NEW t \in VideoIds, NEW b, vidBooks' = [vidBooks EXCEPT ![t] = b],
         vidSent[t] = 1, vidBooks[t] = "charged" => b = "charged",
         UNCHANGED <<vidRec, vidSent>>
  PROVE  Video!Charge(t) \/ UNCHANGED Video!taskVars
<1>1. VideoOutcomes' = VideoOutcomes
  BY VideoOutcomesKept
<1>2. CASE b = "charged"
  <2>1. VideoCharges' = [VideoCharges EXCEPT ![t] = TRUE]
    BY <1>2 DEF VideoCharges, VideoInv, VideoTypeOK
  <2> QED
    BY <1>1, <2>1 DEF Video!Charge, VideoOutcomes, VideoCharges
<1>3. CASE b # "charged"
  <2>1. VideoCharges' = VideoCharges
    BY <1>3 DEF VideoCharges, VideoInv, VideoTypeOK
  <2> QED
    BY <1>1, <2>1 DEF Video!taskVars, VideoOutcomes, VideoCharges
<1> QED
  BY <1>2, <1>3

\* A save that closes an open record ends the task with its outcome.
LEMMA VideoSaveEnds ==
  ASSUME VideoInv, NEW t \in VideoIds, NEW rec \in VideoRecord, vidRec' = [vidRec EXCEPT ![t] = rec],
         vidRec[t].stage \notin VideoClosed, UNCHANGED <<vidBooks, vidSent>>,
         rec.stage \in VideoClosed /\ rec.end = "good" => vidSent[t] = 1 /\ vidBooks[t] = "charged"
  PROVE  UNCHANGED Video!taskVars \/ Video!End(t, "result") \/ Video!End(t, "failure")
<1>1. CASE rec.stage \notin VideoClosed
  <2>1. VideoOutcomes' = VideoOutcomes
    BY <1>1, VideoOutcomesKept DEF VideoInv, VideoTypeOK
  <2> QED
    BY <2>1 DEF VideoOutcomes, Video!taskVars
<1>2. CASE rec.stage \in VideoClosed
  <2>1. PICK o \in {"result", "failure"} : o = (IF rec.end = "good" THEN "result" ELSE "failure")
    OBVIOUS
  <2>2. VideoOutcomes' = [VideoOutcomes EXCEPT ![t] = o] /\ VideoOutcomes[t] = "open"
    BY <1>2, <2>1 DEF VideoOutcomes, VideoOutcome, VideoClosed, VideoInv, VideoTypeOK
  <2>3. o = "result" => vidSent[t] = 1 /\ vidBooks[t] = "charged"
    BY <1>2, <2>1
  <2>4. Video!End(t, o)
    BY <2>2, <2>3 DEF Video!End, VideoOutcomes
  <2> QED
    BY <2>4
<1> QED
  BY <1>1, <1>2

\* Every step of the gateway is a step of the paid task or changes nothing
\* that the paid task speaks of.
LEMMA VideoStepSimulation == VideoInv /\ [VideoNext]_vidVars => [Video!Next]_(Video!taskVars)
<1> SUFFICES ASSUME VideoInv, [VideoNext]_vidVars PROVE [Video!Next]_(Video!taskVars)
  OBVIOUS
<1> USE DEF VideoInv
<1>1. ASSUME UNCHANGED <<vidRec, vidSent, vidBooks>> PROVE UNCHANGED Video!taskVars
  BY <1>1, VideoOutcomesKept DEF Video!taskVars, VideoOutcomes
<1>2. ASSUME NEW a \in VideoActors, SubmitVideo(a) \/ CountVideos(a) \/ DeleteVideo(a) PROVE UNCHANGED Video!taskVars
  BY <1>1, <1>2 DEF SubmitVideo, CountVideos, DeleteVideo, vidStore
<1>3. ASSUME NEW a \in VideoActors, PostVideo(a) PROVE Video!Next
  <2>1. a \in VideoIds /\ vidSent[a] = 0 /\ vidSent' = [vidSent EXCEPT ![a] = 1] /\ vidRec[a] = NoVideoRecord /\ UNCHANGED <<vidRec, vidBooks>>
    <3>1. VideoActorOK(a) /\ vidAct[a].pc = "post" /\ vidSent' = [vidSent EXCEPT ![a] = @ + 1] /\ UNCHANGED <<vidRec, vidBooks>>
      BY <1>3 DEF PostVideo, vidStore
    <3>2. a \in VideoIds /\ vidSent[a] = 0 /\ vidRec[a] = NoVideoRecord
      BY <3>1 DEF VideoActorOK, VideoWorking, VideoSubmitting
    <3> QED
      BY <3>1, <3>2
  <2>2. VideoOutcomes' = VideoOutcomes /\ VideoOutcomes[a] = "open"
    BY <2>1, VideoOutcomesKept DEF VideoOutcomes, VideoOutcome, NoVideoRecord
  <2>3. Video!Send(a)
    BY <2>1, <2>2 DEF Video!Send, VideoOutcomes
  <2> QED
    BY <2>1, <2>3 DEF Video!Next
<1>4. ASSUME NEW a \in VideoActors, PersistVideo(a) \/ PollVideo(a) \/ PublishVideo(a) \/ DropVideo(a)
      PROVE  [Video!Next]_(Video!taskVars)
  <2>1. CASE UNCHANGED vidStore
    BY <1>1, <1>4, <2>1 DEF PersistVideo, PollVideo, PublishVideo, DropVideo, vidStore
  <2>2. CASE PersistVideo(a) /\ SaveVideoTask(a, VidCopy(a))
    <3>1. a \in VideoIds /\ vidRec[a] = NoVideoRecord /\ VidCopy(a) = [stage |-> "pending", end |-> "open"]
      BY <2>2 DEF PersistVideo, VideoActorOK, VideoWorking, VideoSubmitting
    <3>2. PICK rec \in VideoRecord : rec = VidCopy(a) /\ rec.stage = "pending"
      BY <3>1 DEF VideoRecord, VideoStages, VideoEnds
    <3>3. /\ vidRec' = [vidRec EXCEPT ![a] = rec] /\ UNCHANGED <<vidBooks, vidSent>>
          /\ vidRec[a].stage \notin VideoClosed /\ rec.stage \notin VideoClosed
      BY <2>2, <3>1, <3>2 DEF PersistVideo, SaveVideoTask, NoVideoRecord, VideoClosed
    <3> QED
      BY <3>1, <3>3, VideoSaveEnds DEF Video!Next
  <2>3. CASE PollVideo(a) /\ ~UNCHANGED vidStore
    <3>1. Vid(a) \in VideoIds /\ vidRec[Vid(a)].stage = "pending" /\ UNCHANGED <<vidBooks, vidSent>>
      BY <2>3, VideoHeld DEF PollVideo, VideoWorking
    <3>2. PICK t \in VideoIds, rec \in VideoRecord :
            /\ t = Vid(a) /\ (rec.stage \in VideoClosed => rec.end = "void")
            /\ rec = CASE vidUp[t] = "good" -> [stage |-> "settling", end |-> "good"]
                       [] vidUp[t] = "void" -> [stage |-> "terminal", end |-> "void"]
                       [] OTHER -> [stage |-> "pending", end |-> "open"]
      BY <3>1 DEF VideoRecord, VideoStages, VideoEnds, VideoClosed
    <3>3. vidRec' = [vidRec EXCEPT ![t] = rec]
      BY <2>3, <3>2 DEF PollVideo, SaveVideoTask, SaveVideoTaskFails
    <3> QED
      BY <3>1, <3>2, <3>3, VideoSaveEnds DEF VideoClosed, Video!Next
  <2>4. CASE PublishVideo(a) /\ ~UNCHANGED vidStore
    <3>1. /\ Vid(a) \in VideoIds /\ vidRec[Vid(a)].stage = "settling" /\ UNCHANGED <<vidBooks, vidSent>>
          /\ vidSent[Vid(a)] = 1 /\ vidBooks[Vid(a)] = "charged" /\ VidCopy(a) \in VideoRecord
      BY <2>4, VideoHeld DEF PublishVideo, VideoWorking
    <3>2. PICK t \in VideoIds, rec \in VideoRecord : t = Vid(a) /\ rec = [VidCopy(a) EXCEPT !.stage = "terminal"]
      BY <3>1 DEF VideoRecord, VideoStages
    <3>3. vidRec' = [vidRec EXCEPT ![t] = rec]
      BY <2>4, <3>2 DEF PublishVideo, SaveVideoTask, SaveVideoTaskFails
    <3> QED
      BY <3>1, <3>2, <3>3, VideoSaveEnds DEF VideoClosed, Video!Next
  <2>5. CASE DropVideo(a) /\ ~UNCHANGED vidStore
    <3>1. /\ Vid(a) \in VideoIds /\ vidRec[Vid(a)].stage = "terminal" /\ UNCHANGED <<vidBooks, vidSent>>
          /\ VidCopy(a) = vidRec[Vid(a)] /\ VidCopy(a) \in VideoRecord
      BY <2>5, VideoHeld DEF DropVideo, VideoWorking
    <3>2. vidRec' = [vidRec EXCEPT ![Vid(a)] = [VidCopy(a) EXCEPT !.stage = "deleted"]]
      BY <2>5 DEF DropVideo, SaveVideoTask, SaveVideoTaskFails
    <3>3. VideoOutcomes' = VideoOutcomes
      BY <3>1, <3>2, VideoOutcomesKept DEF VideoClosed, VideoTypeOK, VideoRecord
    <3> QED
      BY <3>1, <3>3 DEF Video!taskVars, VideoOutcomes
  <2> QED
    BY <1>4, <2>1, <2>2, <2>3, <2>4, <2>5 DEF PersistVideo, DropVideo, SaveVideoTaskFails
<1>5. ASSUME NEW a \in VideoActors, SettleVideo(a) PROVE [Video!Next]_(Video!taskVars)
  <2>1. Vid(a) \in VideoIds /\ vidSent[Vid(a)] = 1 /\ UNCHANGED <<vidRec, vidSent>>
    BY <1>5, VideoHeld DEF SettleVideo, VideoWorking, vidStore
  <2>2. PICK t, b : t \in VideoIds /\ t = Vid(a) /\ vidBooks' = [vidBooks EXCEPT ![t] = b] /\ (vidBooks[t] = "charged" => b = "charged")
    BY <1>5, <2>1 DEF SettleVideo, VideoTypeOK
  <2> QED
    BY <2>1, <2>2, VideoBooked DEF Video!Next
<1>6. ASSUME NEW t \in VideoIds, RecoverVideoReceipt(t) PROVE [Video!Next]_(Video!taskVars)
  <2>1. vidSent[t] = 1 /\ vidBooks' = [vidBooks EXCEPT ![t] = "charged"] /\ UNCHANGED <<vidRec, vidSent>>
    BY <1>6 DEF RecoverVideoReceipt, VideoTaskOK, vidStore
  <2> QED
    BY <2>1, VideoBooked DEF Video!Next
<1>7. ASSUME NEW t \in VideoIds, ExpireVideo(t) PROVE UNCHANGED Video!taskVars
  <2>1. VideoOutcomes' = VideoOutcomes
    BY <1>7, VideoOutcomesKept DEF ExpireVideo, VideoClosed, VideoTypeOK, VideoRecord
  <2> QED
    BY <1>7, <2>1 DEF ExpireVideo, Video!taskVars, VideoOutcomes
<1>8. ASSUME UNCHANGED vidVars \/ VideoCrash \/ (\E t \in VideoIds : RunVideoTask(t) \/ VideoProvider(t))
             \/ \E a \in VideoClients, t \in VideoIds, goal \in {"read", "delete"} : LookUpVideo(a, goal, t)
      PROVE  UNCHANGED Video!taskVars
  BY <1>1, <1>8 DEF vidVars, vidStore, VideoCrash, RunVideoTask, VideoProvider, LookUpVideo
<1> QED
  BY <1>2, <1>3, <1>4, <1>5, <1>6, <1>7, <1>8 DEF VideoNext, VideoStep

\* A video task is a paid task, for any submissions, clients and faults.
THEOREM VideoTaskIsPaid == VideoSpec => VideoImplementsPaidTask
<1>1. VideoInit => Video!Init
  <2>1. VideoInit => \A t \in VideoIds : VideoOutcome(t) = "open"
    BY DEF VideoInit, VideoOutcome, NoVideoRecord
  <2>2. VideoInit => \A t \in VideoIds : vidBooks[t] # "charged"
    BY DEF VideoInit
  <2> QED
    BY <2>1, <2>2 DEF VideoInit, Video!Init
<1> QED
  BY <1>1, VideoStepSimulation, VideoInvariance, PTL DEF VideoSpec, VideoImplementsPaidTask, Video!Spec

-----------------------------------------------------------------------------
(* Background responses                                                    *)

BgFresh == {"idle", "count", "save", "post", "refused"}
BgOnTask == {"observe", "settle", "bind", "publish", "poll", "cancel"}
BgDeleting == {"mark", "remove"}

NoLate(t) == \A w \in bgLate : w[1] # t

\* A record speaks of a response as soon as there is one, and a result of a
\* task that is charged.
BgRecordOK(t, rec) ==
    /\ rec.stage \in {"pending", "settling"} => rec.res # NoBg
    /\ rec.stage \in {"pending", "settling", "terminal"} => bgSent[t] = 1
    /\ rec.stage = "terminal" /\ rec.end = "good" => bgBooks[t] = "charged"

\* All records of a task that may still be written speak of one response.
BgMayWrite(t, rec) ==
    /\ rec.stage # "none" /\ BgRecordOK(t, rec)
    /\ bgRec[t].res \in {NoBg, rec.res}
    /\ \A w \in bgLate : w[1] = t => w[2].res = rec.res

BgLateOK(w) == BgMayWrite(w[1], w[2]) /\ bgAct[w[1]].pc \notin BgFresh

BgTaskOK(t) ==
    /\ bgSent[t] \in {0, 1}
    /\ bgSent[t] = 0 => bgBooks[t] = "none" /\ bgFirst[t] = "open"
    /\ BgRecordOK(t, bgRec[t])
    /\ bgAct[t].pc \in BgFresh \ {"refused"} => bgSent[t] = 0
    /\ bgAct[t].pc \in {"idle", "count"} => bgSlot[t] = NoBg

\* The provider gave out the id, and it is not one whose record has expired
\* and of which only the binding is left.
BgKnown(r) ==
    /\ bgUp[r] # "none"
    /\ ~(bgMark[r] = "none" /\ bgIndex[r] = NoBg /\ r \in bgBound)

\* An id that was not given out is nowhere, and one that only a binding
\* remembers will be written by nobody.
BgIdOK(r) ==
    /\ bgUp[r] = "none" => bgIndex[r] = NoBg /\ bgMark[r] = "none" /\ r \notin bgBound /\ \A a \in BgActors : bgAct[a].res # r
    /\ \A w \in bgLate : w[2].res = r => BgKnown(r)
    /\ \A a \in BgActors : bgAct[a].res = r /\ bgAct[a].pc \notin BgDeleting => BgKnown(r)

\* An actor that works on a task holds its slot, and its copy speaks of the
\* same response as the record, whatever late save changed the rest.
BgActorOK(a) ==
    /\ bgAct[a].pc \in {"idle", "done"} => bgAct[a].res = NoBg
    /\ a \notin BgTasks => bgAct[a].pc \notin {"done", "count", "save", "post", "refused"}
    /\ a \in BgTasks /\ bgAct[a].pc \in BgFresh => bgRec[a].res = NoBg /\ bgAct[a].res = NoBg
    /\ bgAct[a].pc \in {"count", "save", "post", "refused"} => TaskOf(a) = a
    /\ bgAct[a].pc \in {"save", "post", "refused", "accept"} \cup BgOnTask => TaskOf(a) \in BgTasks /\ bgSlot[TaskOf(a)] = a
    /\ bgAct[a].pc \in {"save", "post"} => Copy(a) = [NoRecord EXCEPT !.stage = "submitting"]
    /\ bgAct[a].pc = "refused" => Copy(a) = [NoRecord EXCEPT !.stage = "terminal", !.end = "void"]
    /\ bgAct[a].pc \in {"refused", "accept"} \cup BgOnTask => bgSent[TaskOf(a)] = 1
    /\ bgAct[a].pc \in {"accept"} \cup BgOnTask \cup BgDeleting => bgAct[a].res # NoBg
    /\ bgAct[a].pc = "accept" /\ Copy(a).res = NoBg => TaskOf(a) = a /\ bgRec[a].res = NoBg /\ NoLate(a)
    /\ bgAct[a].pc \in BgOnTask \/ (bgAct[a].pc = "accept" /\ Copy(a).res # NoBg) =>
            Copy(a).res = bgAct[a].res /\ bgRec[TaskOf(a)].res = bgAct[a].res
    /\ bgAct[a].pc \in {"bind", "publish"} /\ Copy(a).end = "good" => bgBooks[TaskOf(a)] = "charged"
    /\ bgAct[a].pc \in BgDeleting /\ TaskOf(a) = NoBg =>
            bgIndex[bgAct[a].res] = NoBg /\ (bgMark[bgAct[a].res] # "none" \/ bgAct[a].res \in bgBound)
    /\ bgAct[a].pc \in BgDeleting /\ TaskOf(a) # NoBg => bgSlot[TaskOf(a)] = a /\ bgRec[TaskOf(a)].res = bgAct[a].res

BgInv ==
    /\ BgTypeOK /\ OneOwner /\ DeletedStaysDeleted
    /\ \A w \in bgLate : BgLateOK(w)
    /\ \A t \in BgTasks : BgTaskOK(t)
    /\ \A a \in BgActors : BgActorOK(a)
    /\ \A r \in BgResponseIds : BgIdOK(r)

\* The types of the actors.
BgActorType == [pc : BgLabels, goal : {"submit", "read", "cancel", "delete"}, task : BgTasks \cup {NoBg},
                res : BgResponseIds \cup {NoBg}, copy : BgRecord, ans : BgAnswers]

\* The records an actor starts from.
LEMMA BgRecords ==
    /\ NoRecord \in BgRecord /\ NoRecord.stage = "none" /\ NoRecord.res = NoBg
    /\ BgIdle \in BgActorType /\ BgIdle.pc = "idle" /\ BgIdle.res = NoBg
    /\ [BgIdle EXCEPT !.pc = "done"] \in BgActorType
  BY DEF NoRecord, BgRecord, BgStages, BgAnswers, BgIdle, BgActorType, BgLabels

\* Before the first submission there is no record and nobody is busy.
LEMMA BgInitInv == BgInit => BgInv
<1> SUFFICES ASSUME BgInit PROVE BgInv
  OBVIOUS
<1> USE BgRecords DEF BgInit
<1>1. BgTypeOK
  BY BgAssumption DEF BgTypeOK, BgActorType
<1>2. OneOwner /\ DeletedStaysDeleted
  BY DEF OneOwner, DeletedStaysDeleted
<1>3. (\A w \in bgLate : BgLateOK(w)) /\ \A t \in BgTasks : BgTaskOK(t)
  BY DEF BgTaskOK, BgRecordOK
<1>4. \A a \in BgActors : BgActorOK(a)
  BY DEF BgActorOK, BgFresh, BgOnTask, BgDeleting
<1>5. \A r \in BgResponseIds : BgIdOK(r)
  BY BgAssumption DEF BgIdOK
<1> QED
  BY <1>1, <1>2, <1>3, <1>4, <1>5 DEF BgInv

\* Faults stay within their bound.
LEMMA BgFaultType == BgInv /\ (BgFine \/ BgFault) => bgFaults' \in 0..MaxBgFaults
  BY BgAssumption DEF BgInv, BgTypeOK, BgFine, BgFault

\* What every step of an actor keeps: types, and the state and slots of others.
BgMoved(a) ==
    /\ bgAct' \in [BgActors -> BgActorType]
    /\ bgSlot' \in [BgTasks -> BgActors \cup {NoBg}] /\ bgCreate' \in BgTasks \cup {NoBg}
    /\ \A b \in BgActors \ {a} : bgAct'[b] = bgAct[b] /\ \A t \in BgTasks : bgSlot[t] = b => bgSlot'[t] = b
    /\ \A t \in BgTasks : bgAct'[t].pc \in {"idle", "count"} => bgSlot'[t] = NoBg

\* A handler that returns keeps no slot; the others keep theirs.
LEMMA BgReturned ==
  ASSUME BgInv, NEW a \in BgActors, BgReturn(a)
  PROVE  /\ BgMoved(a) /\ BgActorOK(a)'
         /\ bgAct'[a].pc \notin BgFresh \/ a \notin BgTasks
         /\ bgAct'[a].res = NoBg /\ bgAct'[a].pc \notin BgDeleting
<1> DEFINE act == [BgIdle EXCEPT !.pc = IF a \in BgTasks THEN "done" ELSE "idle"]
<1>1. act \in BgActorType
  BY BgRecords DEF BgIdle, BgActorType, BgLabels
<1>2. act.pc = (IF a \in BgTasks THEN "done" ELSE "idle") /\ act.res = NoBg
  BY DEF BgIdle
<1>3. bgAct' \in [BgActors -> BgActorType] /\ bgAct'[a] = act /\ \A b \in BgActors \ {a} : bgAct'[b] = bgAct[b]
  BY <1>1 DEF BgActorType, BgInv, BgTypeOK, BgReturn
<1> HIDE DEF act
<1>4. BgMoved(a)
  <2>1. \A t \in BgTasks : bgAct[t].pc \in {"idle", "count"} => bgSlot[t] = NoBg
    BY DEF BgInv, BgTaskOK
  <2>2. BgTasks \subseteq BgActors
    BY DEF BgActors
  <2> QED
    BY <1>2, <1>3, <2>1, <2>2 DEF BgMoved, BgInv, BgTypeOK, BgReturn
<1>5. /\ bgAct'[a].pc \notin BgFresh \/ a \notin BgTasks
      /\ bgAct'[a].res = NoBg /\ bgAct'[a].pc \notin BgDeleting
  BY <1>2, <1>3 DEF BgFresh, BgDeleting
<1>6. BgActorOK(a)'
  BY <1>2, <1>3 DEF BgActorOK, BgFresh, BgOnTask, BgDeleting
<1> QED
  BY <1>4, <1>5, <1>6

\* What a step of a may do without disturbing b.  A record gains a response by
\* its own submission or by a late save, and otherwise changes it only under
\* the slot; a step of nobody takes a free slot for its own.
BgLeaves(a, b) ==
    /\ b # a /\ bgAct'[b] = bgAct[b]
    /\ \A t \in BgTasks : bgSlot[t] = b => bgSlot'[t] = b
    /\ \A t \in BgTasks : \/ bgRec'[t].res = bgRec[t].res
                          \/ bgRec[t].res = NoBg /\ (t = a \/ ~NoLate(t))
                          \/ bgSlot[t] = a /\ bgRec[t].res # NoBg
    /\ \A w \in bgLate' : w \in bgLate \/ bgSlot[w[1]] = a
    /\ \A r \in BgResponseIds : /\ bgIndex[r] = NoBg /\ bgIndex'[r] # NoBg => bgMark[r] = "none" /\ r \notin bgBound
                                /\ bgMark'[r] = "none" => bgMark[r] = "none"
                                /\ r \in bgBound => r \in bgBound' \/ bgMark'[r] # "none"
    /\ \A t \in BgTasks : /\ bgSent[t] = 1 => bgSent'[t] = 1
                          /\ bgBooks[t] = "charged" => bgBooks'[t] = "charged"

\* So b goes on with what it knows.
LEMMA BgOthersKeep == ASSUME BgInv, NEW a, NEW b \in BgActors, BgLeaves(a, b) PROVE BgActorOK(b)'
<1> USE DEF BgLeaves
<1>1. BgActorOK(b) /\ bgAct[b] \in BgActorType
  BY DEF BgInv, BgTypeOK, BgActorType
<1>2. ASSUME b \in BgTasks, bgAct[b].pc \in BgFresh PROVE bgRec'[b].res = NoBg
  <2>1. bgRec[b].res = NoBg
    BY <1>1, <1>2 DEF BgActorOK
  <2>2. NoLate(b)
    BY <1>2 DEF BgInv, BgLateOK, NoLate
  <2> QED
    BY <1>2, <2>1, <2>2
<1>3. ASSUME TaskOf(b) \in BgTasks, bgSlot[TaskOf(b)] = b, bgRec[TaskOf(b)].res # NoBg
      PROVE  bgRec'[TaskOf(b)].res = bgRec[TaskOf(b)].res
  BY <1>3
<1>4. ASSUME bgAct[b].pc = "accept", Copy(b).res = NoBg
      PROVE  bgRec'[b].res = NoBg /\ NoLate(b)'
  <2>1. TaskOf(b) = b /\ bgRec[b].res = NoBg /\ NoLate(b) /\ b \in BgTasks /\ bgSlot[b] = b
    BY <1>1, <1>4 DEF BgActorOK
  <2>2. bgRec'[b].res = NoBg
    BY <2>1
  <2>3. \A w \in bgLate' : w[1] # b
    BY <2>1 DEF NoLate
  <2> QED
    BY <2>2, <2>3 DEF NoLate
<1>5. ASSUME bgAct[b].pc \in BgDeleting, TaskOf(b) = NoBg
      PROVE  bgIndex'[bgAct[b].res] = NoBg /\ (bgMark'[bgAct[b].res] # "none" \/ bgAct[b].res \in bgBound')
  <2>1. bgAct[b].res # NoBg /\ bgIndex[bgAct[b].res] = NoBg /\ (bgMark[bgAct[b].res] # "none" \/ bgAct[b].res \in bgBound)
    BY <1>1, <1>5 DEF BgActorOK
  <2>2. bgAct[b].res \in BgResponseIds
    BY <1>1, <2>1 DEF BgActorType
  <2> QED
    BY <2>1, <2>2
<1>6. bgAct'[b] = bgAct[b] /\ TaskOf(b)' = TaskOf(b) /\ Copy(b)' = Copy(b)
  BY DEF TaskOf, Copy
<1>7. bgAct[b].pc \in BgDeleting /\ TaskOf(b) # NoBg => TaskOf(b) \in BgTasks
  BY <1>1 DEF TaskOf, BgActorType
<1> HIDE DEF TaskOf, Copy
<1>8. CASE bgAct[b].pc \in {"idle", "done", "count", "save", "post", "refused"}
  BY <1>1, <1>2, <1>6, <1>8 DEF BgActorOK, BgFresh, BgOnTask, BgDeleting
<1>9. CASE bgAct[b].pc = "accept"
  BY <1>1, <1>3, <1>4, <1>6, <1>9 DEF BgActorOK, BgFresh, BgOnTask, BgDeleting
<1>10. CASE bgAct[b].pc \in BgOnTask
  BY <1>1, <1>3, <1>6, <1>10 DEF BgActorOK, BgFresh, BgOnTask, BgDeleting
<1>11. CASE bgAct[b].pc \in BgDeleting
  BY <1>1, <1>3, <1>5, <1>6, <1>7, <1>11 DEF BgActorOK, BgFresh, BgOnTask, BgDeleting
<1>12. bgAct[b].pc \in BgLabels
  BY <1>1 DEF BgActorType
<1> QED
  BY <1>8, <1>9, <1>10, <1>11, <1>12 DEF BgLabels, BgOnTask, BgDeleting

\* How an id stays accounted for.
LEMMA BgIdsKeep ==
  ASSUME BgInv, NEW r \in BgResponseIds,
         bgUp'[r] = "none" => bgUp[r] = "none",
         \/ bgIndex'[r] = bgIndex[r]
         \/ BgKnown(r) /\ bgIndex'[r] # NoBg
         \/ bgUp[r] # "none" /\ bgMark'[r] # "none",
         \/ bgMark'[r] = bgMark[r]
         \/ bgUp[r] # "none" /\ bgMark'[r] # "none",
         r \in bgBound' => r \in bgBound \/ (bgUp[r] # "none" /\ bgIndex'[r] # NoBg),
         \A w \in bgLate' : w[2].res = r => w \in bgLate \/ BgKnown(r),
         \A b \in BgActors : bgAct'[b].res = r =>
            \/ bgAct[b].res = r /\ (bgAct'[b].pc \notin BgDeleting => bgAct[b].pc \notin BgDeleting)
            \/ BgKnown(r)
            \/ bgUp'[r] # "none" /\ bgAct'[b].pc \in BgDeleting
            \/ BgKnown(r)'
  PROVE  BgIdOK(r)'
<1>1. BgIdOK(r)
  BY DEF BgInv
<1>2. BgKnown(r) => BgKnown(r)'
  BY DEF BgKnown
<1>3. \A w \in bgLate' : w[2].res = r => BgKnown(r)'
  BY <1>1, <1>2 DEF BgIdOK
<1>4. \A b \in BgActors : bgAct'[b].res = r /\ bgAct'[b].pc \notin BgDeleting => BgKnown(r)'
  BY <1>1, <1>2 DEF BgIdOK
<1>5. ASSUME bgUp'[r] = "none"
      PROVE  bgIndex'[r] = NoBg /\ bgMark'[r] = "none" /\ r \notin bgBound' /\ \A b \in BgActors : bgAct'[b].res # r
  BY <1>1, <1>5 DEF BgIdOK, BgKnown
<1> QED
  BY <1>3, <1>4, <1>5 DEF BgIdOK

\* A save that the script admits keeps the index and the records in agreement.
LEMMA BgSaved ==
  ASSUME BgInv, NEW t \in BgTasks, NEW rec \in BgRecord, SaveBackgroundResponse(t, rec), BgMayWrite(t, rec),
         UNCHANGED <<bgMark, bgBound, bgBooks, bgSent>>
  PROVE  /\ bgRec' \in [BgTasks -> BgRecord] /\ bgPending' \subseteq BgTasks
         /\ bgIndex' \in [BgResponseIds -> BgTasks \cup {NoBg}]
         /\ bgFirst' \in [BgTasks -> {"open", "result", "failure"}]
         /\ bgRec' = [bgRec EXCEPT ![t] = rec]
         /\ \A r \in BgResponseIds : \/ bgIndex'[r] = bgIndex[r]
                                     \/ r = rec.res /\ bgIndex'[r] = t /\ bgMark[r] = "none"
         /\ OneOwner' /\ DeletedStaysDeleted'
         /\ \A s \in BgTasks : BgRecordOK(s, bgRec[s])' /\ (bgSent[s] = 0 => bgFirst'[s] = bgFirst[s])
<1>1. t # NoBg /\ rec.res \in BgResponseIds \cup {NoBg} /\ NoBg \notin BgResponseIds /\ NoBg \notin BgTasks
  BY BgAssumption DEF BgRecord, BgActors
<1>2. /\ bgRec \in [BgTasks -> BgRecord] /\ bgPending \subseteq BgTasks
      /\ bgIndex \in [BgResponseIds -> BgTasks \cup {NoBg}] /\ bgMark \in [BgResponseIds -> {"none", "intent", "done"}]
      /\ bgFirst \in [BgTasks -> {"open", "result", "failure"}]
  BY DEF BgInv, BgTypeOK
<1>3. /\ MaySave(t, rec)
      /\ bgRec' = [bgRec EXCEPT ![t] = rec]
      /\ bgIndex' = IF rec.res = NoBg THEN bgIndex ELSE [bgIndex EXCEPT ![rec.res] = t]
      /\ bgPending' = IF rec.stage = "terminal" THEN bgPending \ {t} ELSE bgPending \cup {t}
      /\ bgFirst' = IF rec.stage = "terminal" /\ bgFirst[t] = "open"
                    THEN [bgFirst EXCEPT ![t] = BgOutcome(rec)] ELSE bgFirst
  BY DEF SaveBackgroundResponse
<1>4. /\ bgRec' \in [BgTasks -> BgRecord] /\ bgPending' \subseteq BgTasks
      /\ bgIndex' \in [BgResponseIds -> BgTasks \cup {NoBg}]
  BY <1>1, <1>2, <1>3
<1>5. bgFirst' \in [BgTasks -> {"open", "result", "failure"}]
  BY <1>2, <1>3 DEF BgOutcome
<1>6. \A r \in BgResponseIds : \/ bgIndex'[r] = bgIndex[r] /\ r # rec.res
                               \/ r = rec.res /\ bgIndex'[r] = t /\ bgMark[r] = "none" /\ bgIndex[r] \in {NoBg, t}
  BY <1>1, <1>2, <1>3 DEF MaySave
<1>7. \A s \in BgTasks : bgRec'[s] = IF s = t THEN rec ELSE bgRec[s]
  BY <1>2, <1>3
<1>8. bgRec[t].res \in {NoBg, rec.res}
  BY DEF BgMayWrite
<1>9. /\ \A s \in BgTasks : bgRec[s].res # NoBg => bgIndex[bgRec[s].res] = s /\ bgRec[s].res \in BgResponseIds
      /\ \A r \in BgResponseIds : bgIndex[r] # NoBg => bgIndex[r] \in BgTasks /\ bgRec[bgIndex[r]].res = r
      /\ bgPending = {s \in BgTasks : bgRec[s].stage \in {"submitting", "pending", "settling"}}
  BY <1>2 DEF BgInv, OneOwner, BgRecord
<1>10. \A s \in BgTasks : bgRec'[s].res # NoBg => bgIndex'[bgRec'[s].res] = s
  BY <1>1, <1>6, <1>7, <1>9
<1>11. \A r \in BgResponseIds : bgIndex'[r] # NoBg => bgRec'[bgIndex'[r]].res = r
  BY <1>1, <1>6, <1>7, <1>8, <1>9
<1>12. bgPending' = {s \in BgTasks : bgRec'[s].stage \in {"submitting", "pending", "settling"}}
  <2>1. rec.stage \in {"submitting", "pending", "settling", "terminal"}
    BY DEF BgMayWrite, BgRecord, BgStages
  <2> QED
    BY <1>3, <1>7, <1>9, <2>1
<1>13. OneOwner'
  BY <1>10, <1>11, <1>12 DEF OneOwner
<1>14. DeletedStaysDeleted'
  <2> SUFFICES ASSUME NEW r \in BgResponseIds, bgMark[r] = "done"
               PROVE  bgIndex'[r] = NoBg /\ r \notin bgBound /\ \A s \in BgTasks : bgRec'[s].res # r
    BY DEF DeletedStaysDeleted
  <2>1. bgIndex'[r] = NoBg /\ r \notin bgBound
    BY <1>6 DEF BgInv, DeletedStaysDeleted
  <2> QED
    BY <1>1, <1>10, <2>1
<1>15. \A s \in BgTasks : BgRecordOK(s, bgRec[s])' /\ (bgSent[s] = 0 => bgFirst'[s] = bgFirst[s])
  <2>1. BgRecordOK(t, rec) /\ \A s \in BgTasks : BgRecordOK(s, bgRec[s])
    BY DEF BgInv, BgMayWrite, BgTaskOK
  <2> QED
    BY <1>2, <1>3, <1>7, <2>1 DEF BgRecordOK
<1> QED
  BY <1>3, <1>4, <1>5, <1>6, <1>13, <1>14, <1>15

\* A save by an actor, and one that fails and may arrive later.
LEMMA BgWriteInv ==
  ASSUME BgInv, NEW a \in BgActors, NEW t \in BgTasks, NEW rec \in BgRecord, bgSlot[t] = a, BgMayWrite(t, rec),
         rec.res # NoBg => BgKnown(rec.res), t = a \/ bgRec[t].res # NoBg, bgAct[a].pc \notin BgDeleting,
         \/ SaveBackgroundResponse(t, rec) /\ UNCHANGED bgLate
         \/ UNCHANGED bgStore /\ UNCHANGED bgLate
         \/ UNCHANGED bgStore /\ bgLate' = bgLate \cup {<<t, rec>>} /\ (t = a => bgAct'[a].pc \notin BgFresh),
         UNCHANGED <<bgMark, bgBound, bgBooks, bgSent, bgUp>>, BgFine \/ BgFault,
         BgMoved(a), BgActorOK(a)', bgAct'[a].res \in {NoBg, bgAct[a].res},
         a \in BgTasks /\ bgAct'[a].pc \in BgFresh => bgAct[a].pc \in BgFresh \ {"refused"} /\ bgAct'[a].pc # "refused"
  PROVE  BgInv'
<1>0. /\ bgAct \in [BgActors -> BgActorType] /\ bgRec \in [BgTasks -> BgRecord] /\ bgLate \subseteq BgTasks \X BgRecord
      /\ NoBg \notin BgTasks /\ NoBg \notin BgResponseIds /\ BgTasks \subseteq BgActors
  BY BgAssumption DEF BgInv, BgTypeOK, BgActorType, BgActors
<1>1. /\ bgRec' \in [BgTasks -> BgRecord] /\ bgPending' \subseteq BgTasks
      /\ bgIndex' \in [BgResponseIds -> BgTasks \cup {NoBg}]
      /\ bgFirst' \in [BgTasks -> {"open", "result", "failure"}]
      /\ OneOwner' /\ DeletedStaysDeleted'
      /\ \A s \in BgTasks : BgRecordOK(s, bgRec[s])' /\ (bgSent[s] = 0 => bgFirst'[s] = bgFirst[s])
      /\ \A r \in BgResponseIds : \/ bgIndex'[r] = bgIndex[r]
                                  \/ r = rec.res /\ bgIndex'[r] = t /\ bgMark[r] = "none"
      /\ bgRec' = bgRec \/ bgRec' = [bgRec EXCEPT ![t] = rec]
  <2>1. CASE SaveBackgroundResponse(t, rec)
    BY <2>1, BgSaved
  <2>2. CASE UNCHANGED bgStore
    BY <2>2 DEF bgStore, BgInv, BgTypeOK, OneOwner, DeletedStaysDeleted, BgTaskOK, BgRecordOK
  <2> QED
    BY <2>1, <2>2
<1>2. bgLate' \subseteq bgLate \cup {<<t, rec>>}
  OBVIOUS
<1>3. BgTypeOK'
  BY <1>0, <1>1, <1>2, BgFaultType DEF BgInv, BgTypeOK, BgMoved, BgActorType
<1>4. \A s \in BgTasks : s # t => bgRec'[s] = bgRec[s]
  BY <1>0, <1>1
<1>5. bgRec'[t].res \in {bgRec[t].res, rec.res} /\ bgRec[t].res \in {NoBg, rec.res}
  BY <1>0, <1>1 DEF BgMayWrite
<1>6. \A s \in BgTasks : bgAct'[s].pc \in BgFresh => bgAct[s].pc \in BgFresh
  BY <1>0 DEF BgMoved
<1>7. t = a \/ bgAct[t].pc \notin BgFresh
  BY <1>0 DEF BgInv, BgActorOK
<1>8. \A w \in bgLate' : BgLateOK(w)'
  <2> SUFFICES ASSUME NEW w \in bgLate' PROVE BgLateOK(w)'
    OBVIOUS
  <2>1. w \in bgLate \/ w = <<t, rec>>
    BY <1>2
  <2>2. w[1] \in BgTasks /\ w[2].stage # "none" /\ BgRecordOK(w[1], w[2])' /\ (w[1] = t => w[2].res = rec.res)
    BY <1>0, <2>1 DEF BgInv, BgLateOK, BgMayWrite, BgRecordOK
  <2>3. bgRec'[w[1]].res \in {NoBg, w[2].res}
    <3>1. w \in bgLate => bgRec[w[1]].res \in {NoBg, w[2].res}
      BY DEF BgInv, BgLateOK, BgMayWrite
    <3> QED
      BY <1>4, <1>5, <2>1, <2>2, <3>1
  <2>4. \A v \in bgLate' : v[1] = w[1] => v[2].res = w[2].res
    <3> SUFFICES ASSUME NEW v \in bgLate', v[1] = w[1] PROVE v[2].res = w[2].res
      OBVIOUS
    <3>1. CASE w[1] = t
      <4>1. v \in bgLate \/ v = <<t, rec>>
        BY <1>2
      <4> QED
        BY <2>2, <3>1, <4>1 DEF BgMayWrite
    <3>2. CASE w[1] # t
      BY <1>2, <2>1, <3>2 DEF BgInv, BgLateOK, BgMayWrite
    <3> QED
      BY <3>1, <3>2
  <2>5. bgAct'[w[1]].pc \notin BgFresh
    <3>1. CASE w \in bgLate
      BY <1>6, <2>2, <3>1 DEF BgInv, BgLateOK
    <3>2. CASE w \notin bgLate
      BY <1>6, <1>7, <2>1, <3>2
    <3> QED
      BY <3>1, <3>2
  <2> QED
    BY <2>2, <2>3, <2>4, <2>5 DEF BgLateOK, BgMayWrite
<1>9. \A s \in BgTasks : BgTaskOK(s)'
  <2> SUFFICES ASSUME NEW s \in BgTasks PROVE BgTaskOK(s)'
    OBVIOUS
  <2>1. BgTaskOK(s) /\ BgRecordOK(s, bgRec[s])' /\ (bgSent[s] = 0 => bgFirst'[s] = bgFirst[s])
    BY <1>1 DEF BgInv
  <2>2. bgAct'[s].pc \in BgFresh \ {"refused"} => bgAct[s].pc \in BgFresh \ {"refused"}
    BY <1>0 DEF BgMoved
  <2>3. bgAct'[s].pc \in {"idle", "count"} => bgSlot'[s] = NoBg
    BY DEF BgMoved
  <2> QED
    BY <2>1, <2>2, <2>3 DEF BgTaskOK
<1>10. \A b \in BgActors \ {a} : BgActorOK(b)'
  <2> SUFFICES ASSUME NEW b \in BgActors, b # a PROVE BgActorOK(b)'
    OBVIOUS
  <2>1. \A s \in BgTasks : \/ bgRec'[s].res = bgRec[s].res
                           \/ bgRec[s].res = NoBg /\ (s = a \/ ~NoLate(s))
                           \/ bgSlot[s] = a /\ bgRec[s].res # NoBg
    BY <1>4, <1>5
  <2>2. \A w \in bgLate' : w \in bgLate \/ bgSlot[w[1]] = a
    BY <1>2
  <2>3. \A r \in BgResponseIds : bgIndex[r] = NoBg /\ bgIndex'[r] # NoBg => bgMark[r] = "none" /\ r \notin bgBound
    BY <1>0, <1>1 DEF BgKnown
  <2>4. bgAct'[b] = bgAct[b] /\ \A s \in BgTasks : bgSlot[s] = b => bgSlot'[s] = b
    BY DEF BgMoved
  <2>5. BgLeaves(a, b)
    BY <2>1, <2>2, <2>3, <2>4 DEF BgLeaves
  <2> QED
    BY <2>5, BgOthersKeep
<1>11. \A r \in BgResponseIds : BgIdOK(r)'
  <2> SUFFICES ASSUME NEW r \in BgResponseIds PROVE BgIdOK(r)'
    OBVIOUS
  <2>1. bgIndex'[r] = bgIndex[r] \/ (BgKnown(r) /\ bgIndex'[r] # NoBg)
    BY <1>0, <1>1
  <2>2. \A w \in bgLate' : w[2].res = r => w \in bgLate \/ BgKnown(r)
    BY <1>0, <1>2
  <2>3. \A b \in BgActors : bgAct'[b].res = r =>
            bgAct[b].res = r /\ (bgAct'[b].pc \notin BgDeleting => bgAct[b].pc \notin BgDeleting)
    BY <1>0 DEF BgMoved
  <2> QED
    BY <2>1, <2>2, <2>3, BgIdsKeep
<1> QED
  BY <1>1, <1>3, <1>8, <1>9, <1>10, <1>11 DEF BgInv

\* What a step that saves nothing may change: a deletion may be intended, a
\* response of an open task bound, a task sent, its receipt move on, and the
\* provider's response change.
BgQuiet(a) ==
    /\ bgMark' \in [BgResponseIds -> {"none", "intent", "done"}] /\ bgBound' \subseteq BgResponseIds
    /\ bgBooks' \in [BgTasks -> {"none", "stored", "charged"}]
    /\ bgSent' \in [BgTasks -> Nat] /\ bgUp' \in [BgResponseIds -> BgAnswers \cup {"none", "gone"}]
    /\ \A t \in BgTasks : /\ bgBooks[t] = "charged" => bgBooks'[t] = "charged"
                          /\ bgSent'[t] = 0 => bgBooks'[t] = "none"
                          /\ bgSent'[t] \in {0, 1} /\ (bgSent[t] = 1 => bgSent'[t] = 1)
                          /\ t # a => bgSent'[t] = bgSent[t]
    /\ \A r \in BgResponseIds : /\ bgMark'[r] = bgMark[r] \/ (bgUp[r] # "none" /\ bgMark'[r] = "intent")
                                /\ r \in bgBound => r \in bgBound'
                                /\ r \in bgBound' => r \in bgBound \/ (bgIndex[r] # NoBg /\ bgMark[r] = "none" /\ bgMark'[r] = "none")
                                /\ bgUp'[r] = "none" => bgUp[r] = "none"

\* A step of an actor that saves nothing.
LEMMA BgQuietInv ==
  ASSUME BgInv, NEW a \in BgActors, UNCHANGED <<bgStore, bgLate>>, BgFine \/ BgFault, BgMoved(a), BgActorOK(a)', BgQuiet(a),
         a \in BgTasks /\ bgAct'[a].pc \in BgFresh => bgAct[a].pc \in BgFresh /\ (bgAct'[a].pc # "refused" => bgSent'[a] = 0),
         \A r \in BgResponseIds : bgAct'[a].res = r =>
            \/ bgAct[a].res = r /\ (bgAct'[a].pc \notin BgDeleting => bgAct[a].pc \notin BgDeleting)
            \/ BgKnown(r)
            \/ bgUp'[r] # "none" /\ bgAct'[a].pc \in BgDeleting
            \/ BgKnown(r)'
  PROVE  BgInv'
<1> USE DEF BgQuiet
<1>0. /\ bgAct \in [BgActors -> BgActorType] /\ bgRec \in [BgTasks -> BgRecord] /\ bgLate \subseteq BgTasks \X BgRecord
      /\ NoBg \notin BgTasks /\ NoBg \notin BgResponseIds /\ BgTasks \subseteq BgActors
      /\ bgIndex \in [BgResponseIds -> BgTasks \cup {NoBg}]
      /\ bgRec' = bgRec /\ bgPending' = bgPending /\ bgIndex' = bgIndex /\ bgFirst' = bgFirst /\ bgLate' = bgLate
  BY BgAssumption DEF BgInv, BgTypeOK, BgActorType, BgActors, bgStore
<1>1. BgTypeOK'
  BY <1>0, BgFaultType DEF BgInv, BgTypeOK, BgMoved, BgActorType
<1>2. OneOwner'
  BY <1>0 DEF BgInv, OneOwner
<1>3. DeletedStaysDeleted'
  BY <1>0 DEF BgInv, DeletedStaysDeleted
<1>4. \A t \in BgTasks : BgTaskOK(t)'
  <2> SUFFICES ASSUME NEW t \in BgTasks PROVE BgTaskOK(t)'
    OBVIOUS
  <2>1. BgTaskOK(t)
    BY DEF BgInv
  <2>2. bgAct'[t].pc \in BgFresh \ {"refused"} => bgSent'[t] = 0
    BY <1>0, <2>1 DEF BgMoved, BgTaskOK
  <2>3. bgAct'[t].pc \in {"idle", "count"} => bgSlot'[t] = NoBg
    BY DEF BgMoved
  <2> QED
    BY <1>0, <2>1, <2>2, <2>3 DEF BgTaskOK, BgRecordOK
<1>5. \A w \in bgLate' : BgLateOK(w)'
  <2> SUFFICES ASSUME NEW w \in bgLate PROVE BgLateOK(w)'
    BY <1>0
  <2>1. BgLateOK(w) /\ w[1] \in BgTasks
    BY <1>0 DEF BgInv
  <2>2. bgAct'[w[1]].pc \notin BgFresh
    BY <1>0, <2>1 DEF BgLateOK, BgMoved
  <2> QED
    BY <1>0, <2>1, <2>2 DEF BgLateOK, BgMayWrite, BgRecordOK
<1>6. \A b \in BgActors \ {a} : BgActorOK(b)'
  <2> SUFFICES ASSUME NEW b \in BgActors, b # a PROVE BgActorOK(b)'
    OBVIOUS
  <2>1. bgAct'[b] = bgAct[b] /\ \A s \in BgTasks : bgSlot[s] = b => bgSlot'[s] = b
    BY DEF BgMoved
  <2>2. \A t \in BgTasks : \/ bgRec'[t].res = bgRec[t].res
                           \/ bgRec[t].res = NoBg /\ (t = a \/ ~NoLate(t))
                           \/ bgSlot[t] = a /\ bgRec[t].res # NoBg
    BY <1>0
  <2>3. \A w \in bgLate' : w \in bgLate \/ bgSlot[w[1]] = a
    BY <1>0
  <2>4. \A r \in BgResponseIds : /\ bgIndex[r] = NoBg /\ bgIndex'[r] # NoBg => bgMark[r] = "none" /\ r \notin bgBound
                                 /\ bgMark'[r] = "none" => bgMark[r] = "none"
                                 /\ r \in bgBound => r \in bgBound' \/ bgMark'[r] # "none"
    BY <1>0
  <2>5. \A t \in BgTasks : /\ bgSent[t] = 1 => bgSent'[t] = 1
                           /\ bgBooks[t] = "charged" => bgBooks'[t] = "charged"
    OBVIOUS
  <2>6. BgLeaves(a, b)
    BY <2>1, <2>2, <2>3, <2>4, <2>5 DEF BgLeaves
  <2> QED
    BY <2>6, BgOthersKeep
<1>7. \A r \in BgResponseIds : BgIdOK(r)'
  <2> SUFFICES ASSUME NEW r \in BgResponseIds PROVE BgIdOK(r)'
    OBVIOUS
  <2>1. bgIndex[r] # NoBg => bgUp[r] # "none"
    BY DEF BgInv, BgIdOK
  <2>2. r \in bgBound' => r \in bgBound \/ (bgUp[r] # "none" /\ bgIndex'[r] # NoBg)
    BY <1>0, <2>1
  <2>3. bgMark'[r] = bgMark[r] \/ (bgUp[r] # "none" /\ bgMark'[r] # "none")
    OBVIOUS
  <2>4. \A b \in BgActors : bgAct'[b].res = r =>
            \/ bgAct[b].res = r /\ (bgAct'[b].pc \notin BgDeleting => bgAct[b].pc \notin BgDeleting)
            \/ BgKnown(r)
            \/ bgUp'[r] # "none" /\ bgAct'[b].pc \in BgDeleting
            \/ BgKnown(r)'
    <3> SUFFICES ASSUME NEW b \in BgActors, bgAct'[b].res = r
                 PROVE  \/ bgAct[b].res = r /\ (bgAct'[b].pc \notin BgDeleting => bgAct[b].pc \notin BgDeleting)
                        \/ BgKnown(r)
                        \/ bgUp'[r] # "none" /\ bgAct'[b].pc \in BgDeleting
                        \/ BgKnown(r)'
      OBVIOUS
    <3>1. CASE b # a
      BY <3>1 DEF BgMoved
    <3>2. CASE b = a
      BY <1>0, <3>2
    <3> QED
      BY <3>1, <3>2
  <2> QED
    BY <1>0, <2>2, <2>3, <2>4, BgIdsKeep
<1> QED
  BY <1>1, <1>2, <1>3, <1>4, <1>5, <1>6, <1>7 DEF BgInv

\* Most steps leave the deletion markers, bindings, receipts and responses.
LEMMA BgAllQuiet == ASSUME BgInv, NEW a, UNCHANGED <<bgMark, bgBound, bgBooks, bgSent, bgUp>> PROVE BgQuiet(a)
  BY DEF BgQuiet, BgInv, BgTypeOK, BgTaskOK

\* A handler that returns without saving.
LEMMA BgQuietReturn ==
  ASSUME BgInv, NEW a \in BgActors, BgReturn(a), UNCHANGED <<bgStore, bgLate>>, BgFine \/ BgFault, BgQuiet(a)
  PROVE  BgInv'
<1>1. /\ BgMoved(a) /\ BgActorOK(a)' /\ (bgAct'[a].pc \notin BgFresh \/ a \notin BgTasks)
      /\ bgAct'[a].res = NoBg
  BY BgReturned
<1>2. \A r \in BgResponseIds : bgAct'[a].res # r
  BY <1>1, BgAssumption
<1> QED
  BY <1>1, <1>2, BgReturned, BgQuietInv

\* A handler that goes on keeps the types and the slots of others.
LEMMA BgWent ==
  ASSUME BgInv, NEW a \in BgActors, NEW act \in BgActorType, bgAct' = [bgAct EXCEPT ![a] = act],
         bgSlot' \in [BgTasks -> BgActors \cup {NoBg}], bgCreate' \in BgTasks \cup {NoBg},
         \A t \in BgTasks : \/ bgSlot'[t] = bgSlot[t]
                            \/ bgSlot[t] \in {a, NoBg} /\ (t = a \/ bgAct[t].pc \notin {"idle", "count"}),
         act.pc \in {"idle", "count"} /\ a \in BgTasks => bgSlot'[a] = NoBg
  PROVE  BgMoved(a) /\ bgAct'[a] = act
<1>1. bgAct \in [BgActors -> BgActorType] /\ NoBg \notin BgActors /\ BgTasks \subseteq BgActors
  BY BgAssumption DEF BgInv, BgTypeOK, BgActorType, BgActors
<1>2. \A t \in BgTasks : bgAct[t].pc \in {"idle", "count"} => bgSlot[t] = NoBg
  BY DEF BgInv, BgTaskOK
<1> QED
  BY <1>1, <1>2 DEF BgMoved

\* A submission takes background-create and counts the pending set under it.
LEMMA SubmitBgInv ==
  ASSUME BgInv, NEW a \in BgActors, SubmitBackground(a)
  PROVE  BgInv'
<1>1. /\ a \in BgTasks /\ bgAct[a].pc = "idle" /\ BgActorOK(a) /\ bgAct[a] \in BgActorType
      /\ UNCHANGED <<bgStore, bgLate, bgMark, bgBound, bgBooks, bgSent, bgUp, bgFaults>>
  BY DEF SubmitBackground, BgInv, BgTypeOK, BgActorType
<1>2. BgQuiet(a) /\ BgFine
  BY <1>1, BgAllQuiet DEF BgFine
<1>3. CASE BgReturn(a)
  BY <1>1, <1>2, <1>3, BgQuietReturn
<1>4. CASE /\ bgCreate = NoBg /\ bgCreate' = a /\ UNCHANGED bgSlot
           /\ bgAct' = [bgAct EXCEPT ![a].pc = "count", ![a].goal = "submit", ![a].task = a]
  <2> DEFINE act == [bgAct[a] EXCEPT !.pc = "count", !.goal = "submit", !.task = a]
  <2>1. act \in BgActorType /\ act.pc = "count" /\ act.task = a /\ act.res = bgAct[a].res
    BY <1>1 DEF BgActorType, BgLabels
  <2>2. bgAct' = [bgAct EXCEPT ![a] = act]
    BY <1>4 DEF BgInv, BgTypeOK
  <2> HIDE DEF act
  <2>3. bgSlot[a] = NoBg /\ bgAct[a].res = NoBg /\ bgRec[a].res = NoBg /\ bgSent[a] = 0
    BY <1>1 DEF BgInv, BgTaskOK, BgActorOK, BgFresh
  <2>4. BgMoved(a) /\ bgAct'[a] = act
    BY <1>1, <1>4, <2>1, <2>2, <2>3, BgWent DEF BgInv, BgTypeOK
  <2>5. BgActorOK(a)'
    BY <1>1, <2>1, <2>3, <2>4 DEF BgActorOK, BgFresh, BgOnTask, BgDeleting, TaskOf, bgStore
  <2>6. \A r \in BgResponseIds : bgAct'[a].res # r
    BY <2>1, <2>3, <2>4, BgAssumption
  <2> QED
    BY <1>1, <1>2, <2>1, <2>3, <2>4, <2>5, <2>6, BgQuietInv DEF BgFresh
<1> QED
  BY <1>3, <1>4 DEF SubmitBackground

\* With room, it takes the slot of its task and is about to be recorded.
LEMMA CountBgInv ==
  ASSUME BgInv, NEW a \in BgActors, CountBackground(a)
  PROVE  BgInv'
<1>1. /\ bgAct[a].pc = "count" /\ BgActorOK(a) /\ bgAct[a] \in BgActorType /\ a \in BgTasks
      /\ UNCHANGED <<bgStore, bgLate, bgMark, bgBound, bgBooks, bgSent, bgUp, bgFaults>>
  BY DEF CountBackground, BgInv, BgTypeOK, BgActorType, BgActorOK
<1>2. BgQuiet(a) /\ BgFine
  BY <1>1, BgAllQuiet DEF BgFine
<1>3. CASE BgReturn(a)
  BY <1>1, <1>2, <1>3, BgQuietReturn
<1>4. CASE bgSlot' = [bgSlot EXCEPT ![a] = a] /\ UNCHANGED bgCreate /\ BgKeep(a, "save", [NoRecord EXCEPT !.stage = "submitting"])
  <2> DEFINE rec == [NoRecord EXCEPT !.stage = "submitting"]
             act == [bgAct[a] EXCEPT !.pc = "save", !.copy = rec]
  <2>1. rec \in BgRecord
    BY DEF NoRecord, BgRecord, BgStages, BgAnswers
  <2>2. /\ act \in BgActorType /\ act.pc = "save" /\ act.task = bgAct[a].task /\ act.res = bgAct[a].res /\ act.copy = rec
        /\ bgAct' = [bgAct EXCEPT ![a] = act]
    BY <1>1, <1>4, <2>1 DEF BgActorType, BgLabels, BgKeep, BgInv, BgTypeOK
  <2> HIDE DEF act
  <2>3. bgSlot[a] = NoBg /\ bgAct[a].res = NoBg /\ bgRec[a].res = NoBg /\ bgSent[a] = 0 /\ TaskOf(a) = a
    BY <1>1 DEF BgInv, BgTaskOK, BgActorOK, BgFresh
  <2>4. /\ bgSlot' \in [BgTasks -> BgActors \cup {NoBg}] /\ bgCreate' \in BgTasks \cup {NoBg} /\ bgSlot'[a] = a
        /\ \A t \in BgTasks : bgSlot'[t] = bgSlot[t] \/ (bgSlot[t] \in {a, NoBg} /\ (t = a \/ bgAct[t].pc \notin {"idle", "count"}))
        /\ ~(act.pc \in {"idle", "count"} /\ a \in BgTasks)
    BY <1>1, <1>4, <2>2, <2>3 DEF BgInv, BgTypeOK
  <2>5. BgMoved(a) /\ bgAct'[a] = act
    BY <2>2, <2>4, BgWent
  <2>6. BgActorOK(a)'
    BY <1>1, <2>2, <2>3, <2>4, <2>5 DEF BgActorOK, BgFresh, BgOnTask, BgDeleting, TaskOf, Copy, bgStore
  <2>7. \A r \in BgResponseIds : bgAct'[a].res # r
    BY <2>2, <2>3, <2>5, BgAssumption
  <2> QED
    BY <1>1, <1>2, <2>2, <2>3, <2>5, <2>6, <2>7, BgQuietInv DEF BgFresh
<1> QED
  BY <1>3, <1>4 DEF CountBackground

\* A handler that saves, or tries to, and returns.
LEMMA BgWriteReturn ==
  ASSUME BgInv, NEW a \in BgActors, NEW t \in BgTasks, NEW rec \in BgRecord, bgSlot[t] = a, BgMayWrite(t, rec),
         rec.res # NoBg => BgKnown(rec.res), t = a \/ bgRec[t].res # NoBg, bgAct[a].pc \notin BgDeleting,
         (SaveBackgroundResponse(t, rec) /\ BgFine /\ UNCHANGED bgLate) \/ SaveBackgroundFails(t, rec), BgReturn(a),
         UNCHANGED <<bgMark, bgBound, bgBooks, bgSent, bgUp>>
  PROVE  BgInv'
<1>1. /\ BgMoved(a) /\ BgActorOK(a)' /\ (bgAct'[a].pc \notin BgFresh \/ a \notin BgTasks) /\ bgAct'[a].res = NoBg
  BY BgReturned
<1>2. /\ \/ SaveBackgroundResponse(t, rec) /\ UNCHANGED bgLate
         \/ UNCHANGED bgStore /\ UNCHANGED bgLate
         \/ UNCHANGED bgStore /\ bgLate' = bgLate \cup {<<t, rec>>}
      /\ BgFine \/ BgFault
  BY DEF SaveBackgroundFails
<1> QED
  BY <1>1, <1>2, BgWriteInv

\* The record of a submission is the first thing that exists of it.
LEMMA RecordBgInv ==
  ASSUME BgInv, NEW a \in BgActors, RecordBackground(a)
  PROVE  BgInv'
<1>1. /\ bgAct[a].pc = "save" /\ BgActorOK(a) /\ bgAct[a] \in BgActorType /\ a \in BgTasks
      /\ UNCHANGED <<bgMark, bgBound, bgBooks, bgSent, bgUp>>
  BY DEF RecordBackground, BgInv, BgTypeOK, BgActorType, BgActorOK
<1>2. PICK rec \in BgRecord : rec = Copy(a) /\ rec.stage = "submitting" /\ rec.res = NoBg
  BY <1>1 DEF BgActorOK, BgActorType, NoRecord, Copy
<1>3. bgSlot[a] = a /\ TaskOf(a) = a /\ bgAct[a].res = NoBg /\ bgRec[a].res = NoBg /\ bgSent[a] = 0
  BY <1>1 DEF BgInv, BgTaskOK, BgActorOK, BgFresh
<1>4. NoLate(a)
  BY <1>1 DEF BgInv, BgLateOK, BgFresh, NoLate
<1>5. BgMayWrite(a, rec)
  BY <1>2, <1>3, <1>4 DEF BgMayWrite, BgRecordOK, NoLate
<1>6. CASE SaveBackgroundResponse(a, Copy(a)) /\ BgFine /\ BgGoto(a, "post") /\ bgCreate' = NoBg /\ UNCHANGED <<bgSlot, bgLate>>
  <2> DEFINE act == [bgAct[a] EXCEPT !.pc = "post"]
  <2>1. /\ act \in BgActorType /\ act.pc = "post" /\ act.task = bgAct[a].task /\ act.res = bgAct[a].res /\ act.copy = bgAct[a].copy
        /\ bgAct' = [bgAct EXCEPT ![a] = act]
    BY <1>1, <1>6 DEF BgActorType, BgLabels, BgGoto, BgInv, BgTypeOK
  <2> HIDE DEF act
  <2>2. BgMoved(a) /\ bgAct'[a] = act
    BY <1>6, <2>1, BgWent DEF BgInv, BgTypeOK
  <2>3. bgRec'[a].res = NoBg
    BY <1>1, <1>2, <1>6 DEF SaveBackgroundResponse, BgInv, BgTypeOK
  <2>4. BgActorOK(a)'
    BY <1>1, <1>3, <1>6, <2>1, <2>2, <2>3 DEF BgActorOK, BgFresh, BgOnTask, BgDeleting, TaskOf, Copy
  <2>5. bgAct'[a].res \in {NoBg, bgAct[a].res} /\ bgAct'[a].pc \in BgFresh \ {"refused"} /\ bgAct[a].pc \in BgFresh \ {"refused"}
    BY <1>1, <2>1, <2>2 DEF BgFresh
  <2>6. bgAct[a].pc \notin BgDeleting /\ SaveBackgroundResponse(a, rec) /\ UNCHANGED bgLate
    BY <1>1, <1>2, <1>6 DEF BgDeleting
  <2> QED
    BY <1>1, <1>2, <1>3, <1>5, <1>6, <2>2, <2>4, <2>5, <2>6, BgWriteInv
<1>7. CASE SaveBackgroundFails(a, Copy(a)) /\ BgReturn(a)
  BY <1>1, <1>2, <1>3, <1>5, <1>7, BgWriteReturn DEF BgDeleting
<1> QED
  BY <1>6, <1>7 DEF RecordBackground

\* A refused submission ends without a response.
LEMMA RefuseBgInv ==
  ASSUME BgInv, NEW a \in BgActors, RefuseBackground(a)
  PROVE  BgInv'
<1>1. /\ bgAct[a].pc = "refused" /\ BgActorOK(a) /\ bgAct[a] \in BgActorType /\ a \in BgTasks
      /\ UNCHANGED <<bgMark, bgBound, bgBooks, bgSent, bgUp>> /\ BgReturn(a)
  BY DEF RefuseBackground, BgInv, BgTypeOK, BgActorType, BgActorOK
<1>2. PICK rec \in BgRecord : rec = Copy(a) /\ rec.stage = "terminal" /\ rec.end = "void" /\ rec.res = NoBg
  BY <1>1 DEF BgActorOK, BgActorType, NoRecord, Copy
<1>3. bgSlot[a] = a /\ TaskOf(a) = a /\ bgRec[a].res = NoBg /\ bgSent[a] = 1
  BY <1>1 DEF BgActorOK, BgFresh
<1>4. NoLate(a)
  BY <1>1 DEF BgInv, BgLateOK, BgFresh, NoLate
<1>5. BgMayWrite(a, rec)
  BY <1>2, <1>3, <1>4 DEF BgMayWrite, BgRecordOK, NoLate
<1>6. (SaveBackgroundResponse(a, rec) /\ BgFine /\ UNCHANGED bgLate) \/ SaveBackgroundFails(a, rec)
  BY <1>2 DEF RefuseBackground
<1> QED
  BY <1>1, <1>2, <1>3, <1>5, <1>6, BgWriteReturn DEF BgDeleting

\* A submission is sent once; the provider gives it an id, refuses it or says
\* nothing.
LEMMA PostBgInv ==
  ASSUME BgInv, NEW a \in BgActors, PostBackground(a)
  PROVE  BgInv'
<1>1. /\ bgAct[a].pc = "post" /\ BgActorOK(a) /\ bgAct[a] \in BgActorType /\ a \in BgTasks
      /\ UNCHANGED <<bgStore, bgMark, bgBound, bgLate, bgBooks>>
  BY DEF PostBackground, BgInv, BgTypeOK, BgActorType, BgActorOK
<1>2. bgSlot[a] = a /\ TaskOf(a) = a /\ bgAct[a].res = NoBg /\ bgRec[a].res = NoBg /\ bgSent[a] = 0 /\ bgBooks[a] = "none" /\ Copy(a).res = NoBg
  BY <1>1 DEF BgInv, BgTaskOK, BgActorOK, BgFresh, NoRecord
<1>3. NoLate(a)
  BY <1>1 DEF BgInv, BgLateOK, BgFresh, NoLate
<1>4. /\ bgSent' \in [BgTasks -> Nat] /\ bgSent'[a] = 1 /\ \A t \in BgTasks : t # a => bgSent'[t] = bgSent[t]
      /\ \A t \in BgTasks : bgSent[t] \in {0, 1} /\ (bgSent[t] = 0 => bgBooks[t] = "none")
  <2>1. bgSent' = [bgSent EXCEPT ![a] = @ + 1] /\ bgSent \in [BgTasks -> Nat]
    BY DEF PostBackground, BgInv, BgTypeOK
  <2>2. \A t \in BgTasks : bgSent[t] \in {0, 1} /\ (bgSent[t] = 0 => bgBooks[t] = "none")
    BY DEF BgInv, BgTaskOK
  <2> QED
    BY <1>1, <1>2, <2>1, <2>2
<1>5. ASSUME bgUp' \in [BgResponseIds -> BgAnswers \cup {"none", "gone"}], \A r \in BgResponseIds : bgUp'[r] = "none" => bgUp[r] = "none"
      PROVE  BgQuiet(a)
  BY <1>1, <1>4, <1>5 DEF BgQuiet, BgInv, BgTypeOK
<1>6. CASE BgReturn(a) /\ UNCHANGED bgUp /\ BgFault
  <2>1. BgQuiet(a)
    BY <1>5, <1>6 DEF BgInv, BgTypeOK
  <2> QED
    BY <1>1, <1>6, <2>1, BgQuietReturn
<1>7. CASE BgFine /\ UNCHANGED <<bgUp, bgSlots>> /\ BgKeep(a, "refused", [NoRecord EXCEPT !.stage = "terminal", !.end = "void"])
  <2> DEFINE rec == [NoRecord EXCEPT !.stage = "terminal", !.end = "void"]
             act == [bgAct[a] EXCEPT !.pc = "refused", !.copy = rec]
  <2>1. rec \in BgRecord
    BY DEF NoRecord, BgRecord, BgStages, BgAnswers
  <2>2. /\ act \in BgActorType /\ act.pc = "refused" /\ act.task = bgAct[a].task /\ act.res = bgAct[a].res /\ act.copy = rec
        /\ bgAct' = [bgAct EXCEPT ![a] = act]
    BY <1>1, <1>7, <2>1 DEF BgActorType, BgLabels, BgKeep, BgInv, BgTypeOK
  <2> HIDE DEF act
  <2>3. BgMoved(a) /\ bgAct'[a] = act
    BY <1>7, <2>2, BgWent DEF BgInv, BgTypeOK, bgSlots
  <2>4. BgActorOK(a)'
    BY <1>1, <1>2, <1>4, <1>7, <2>2, <2>3 DEF BgActorOK, BgFresh, BgOnTask, BgDeleting, TaskOf, Copy, bgStore, bgSlots
  <2>5. \A r \in BgResponseIds : bgAct'[a].res # r
    BY <1>2, <2>2, <2>3, BgAssumption
  <2>6. BgQuiet(a)
    BY <1>5, <1>7 DEF BgInv, BgTypeOK
  <2> QED
    BY <1>1, <1>7, <2>2, <2>3, <2>4, <2>5, <2>6, BgQuietInv DEF BgFresh
<1>8. ASSUME NEW r \in BgResponseIds, PossibleId(r), bgUp' = [bgUp EXCEPT ![r] = IF @ \in {"none", "gone"} THEN "working" ELSE @],
             bgAct' = [bgAct EXCEPT ![a].pc = "accept", ![a].res = r, ![a].ans = bgUp'[r]], BgFine, UNCHANGED bgSlots
      PROVE  BgInv'
  <2> DEFINE act == [bgAct[a] EXCEPT !.pc = "accept", !.res = r, !.ans = bgUp'[r]]
  <2>1. bgUp' \in [BgResponseIds -> BgAnswers \cup {"none", "gone"}] /\ bgUp'[r] \in BgAnswers /\ \A s \in BgResponseIds \ {r} : bgUp'[s] = bgUp[s]
    BY <1>8 DEF BgInv, BgTypeOK, BgAnswers
  <2>2. act \in BgActorType /\ act.pc = "accept" /\ act.task = bgAct[a].task /\ act.res = r /\ act.copy = bgAct[a].copy
    BY <1>1, <2>1 DEF BgActorType, BgLabels
  <2>3. bgAct' = [bgAct EXCEPT ![a] = act]
    BY <1>8 DEF BgInv, BgTypeOK
  <2> HIDE DEF act
  <2>4. BgMoved(a) /\ bgAct'[a] = act
    BY <1>8, <2>2, <2>3, BgWent DEF BgInv, BgTypeOK, bgSlots
  <2>5. BgActorOK(a)'
    BY <1>1, <1>2, <1>3, <1>4, <1>8, <2>2, <2>4, BgAssumption DEF BgActorOK, BgFresh, BgOnTask, BgDeleting, TaskOf, Copy, bgStore, bgSlots, NoLate
  <2>6. BgQuiet(a)
    BY <1>5, <2>1 DEF BgAnswers
  <2>7. BgKnown(r)'
    BY <1>1, <1>8, <2>1 DEF BgKnown, PossibleId, BgInv, BgIdOK, BgAnswers, bgStore
  <2>8. bgAct'[a].res = r /\ bgAct'[a].pc \notin BgFresh
    BY <2>2, <2>4 DEF BgFresh
  <2> QED
    BY <1>1, <1>8, <2>4, <2>5, <2>6, <2>7, <2>8, BgQuietInv
<1> QED
  BY <1>6, <1>7, <1>8 DEF PostBackground

\* What an actor knows of the task whose slot it has.
LEMMA BgHeld ==
  ASSUME BgInv, NEW a \in BgActors, bgAct[a].pc \in {"accept"} \cup BgOnTask
  PROVE  /\ TaskOf(a) \in BgTasks /\ bgSlot[TaskOf(a)] = a /\ bgSent[TaskOf(a)] = 1
         /\ bgAct[a] \in BgActorType /\ Copy(a) \in BgRecord
         /\ bgAct[a].res \in BgResponseIds /\ bgAct[a].res # NoBg /\ BgKnown(bgAct[a].res)
         /\ bgAct[a].pc \notin BgFresh \cup BgDeleting /\ BgActorOK(a)
         /\ Copy(a).res # NoBg \/ bgAct[a].pc # "accept" => Copy(a).res = bgAct[a].res /\ bgRec[TaskOf(a)].res = bgAct[a].res
<1>1. BgActorOK(a) /\ bgAct[a] \in BgActorType
  BY DEF BgInv, BgTypeOK, BgActorType
<1>2. bgAct[a].pc \notin BgFresh \cup BgDeleting
  BY DEF BgFresh, BgDeleting, BgOnTask
<1>3. TaskOf(a) \in BgTasks /\ bgSlot[TaskOf(a)] = a /\ bgSent[TaskOf(a)] = 1 /\ bgAct[a].res # NoBg
  BY <1>1 DEF BgActorOK
<1>4. bgAct[a].res \in BgResponseIds /\ Copy(a) \in BgRecord
  BY <1>1, <1>3 DEF BgActorType, Copy
<1>5. BgKnown(bgAct[a].res)
  BY <1>2, <1>4 DEF BgInv, BgIdOK
<1>6. Copy(a).res # NoBg \/ bgAct[a].pc # "accept" => Copy(a).res = bgAct[a].res /\ bgRec[TaskOf(a)].res = bgAct[a].res
  BY <1>1 DEF BgActorOK
<1> QED
  BY <1>1, <1>2, <1>3, <1>4, <1>5, <1>6

\* An actor that goes on with its task and response.
LEMMA BgGoesOn ==
  ASSUME BgInv, NEW a \in BgActors, bgAct[a].pc \in {"accept"} \cup BgOnTask, NEW act \in BgActorType,
         bgAct' = [bgAct EXCEPT ![a] = act], UNCHANGED bgSlots,
         act.pc \in {"accept"} \cup BgOnTask, act.task = TaskOf(a), act.res = bgAct[a].res,
         act.copy.res = act.res, bgRec'[TaskOf(a)].res = act.res, bgSent' = bgSent,
         act.pc \in {"bind", "publish"} /\ act.copy.end = "good" => bgBooks'[TaskOf(a)] = "charged"
  PROVE  BgMoved(a) /\ BgActorOK(a)' /\ bgAct'[a] = act /\ bgAct'[a].pc \notin BgFresh \cup BgDeleting
<1>1. act.pc \notin BgFresh \cup BgDeleting \cup {"done"}
  BY DEF BgFresh, BgDeleting, BgOnTask
<1>2. BgMoved(a) /\ bgAct'[a] = act
  BY <1>1, BgWent DEF BgInv, BgTypeOK, bgSlots, BgFresh
<1>3. /\ TaskOf(a) \in BgTasks /\ bgSlot[TaskOf(a)] = a /\ bgSent[TaskOf(a)] = 1 /\ bgAct[a].res # NoBg
  BY BgHeld
<1>4. TaskOf(a)' = TaskOf(a) /\ Copy(a)' = act.copy
  BY <1>2 DEF TaskOf, Copy
<1>5. BgActorOK(a)'
  BY <1>1, <1>2, <1>3, <1>4 DEF BgActorOK, BgFresh, BgOnTask, BgDeleting, bgSlots
<1> QED
  BY <1>1, <1>2, <1>5

\* A save of an actor that goes on with what it saved.
LEMMA BgWriteGoesOn ==
  ASSUME BgInv, NEW a \in BgActors, bgAct[a].pc \in {"accept"} \cup BgOnTask, NEW t \in BgTasks, t = TaskOf(a),
         NEW rec \in BgRecord, rec.res = bgAct[a].res, BgMayWrite(t, rec), t = a \/ bgRec[t].res # NoBg,
         SaveBackgroundResponse(t, rec), UNCHANGED bgLate, BgFine,
         NEW label \in BgOnTask \ {"bind", "publish"}, BgKeep(a, label, rec), UNCHANGED bgSlots,
         UNCHANGED <<bgMark, bgBound, bgBooks, bgSent, bgUp>>
  PROVE  BgInv'
<1>1. /\ bgSlot[t] = a /\ bgAct[a] \in BgActorType /\ BgKnown(rec.res) /\ rec.res # NoBg
      /\ bgAct[a].pc \notin BgFresh \cup BgDeleting
  BY BgHeld
<1> DEFINE act == [bgAct[a] EXCEPT !.pc = label, !.copy = rec]
<1>2. act \in BgActorType /\ act.pc = label /\ act.task = TaskOf(a) /\ act.res = bgAct[a].res /\ act.copy = rec
  BY <1>1 DEF BgActorType, BgLabels, BgOnTask, TaskOf
<1>3. bgAct' = [bgAct EXCEPT ![a] = act]
  BY DEF BgKeep, BgInv, BgTypeOK
<1> HIDE DEF act
<1>4. bgRec'[t].res = rec.res
  BY DEF SaveBackgroundResponse, BgInv, BgTypeOK
<1>5. BgMoved(a) /\ BgActorOK(a)' /\ bgAct'[a] = act /\ bgAct'[a].pc \notin BgFresh \cup BgDeleting
  BY <1>2, <1>3, <1>4, BgGoesOn
<1> QED
  BY <1>1, <1>2, <1>5, BgWriteInv

\* The identity of a response is saved once; another one is refused.
LEMMA AcceptBgInv ==
  ASSUME BgInv, NEW a \in BgActors, AcceptBackground(a)
  PROVE  BgInv'
<1>1. bgAct[a].pc = "accept" /\ UNCHANGED <<bgMark, bgBound, bgBooks, bgSent, bgUp>>
  BY DEF AcceptBackground
<1>2. /\ TaskOf(a) \in BgTasks /\ bgSlot[TaskOf(a)] = a /\ bgSent[TaskOf(a)] = 1
      /\ bgAct[a] \in BgActorType /\ Copy(a) \in BgRecord
      /\ bgAct[a].res \in BgResponseIds /\ bgAct[a].res # NoBg /\ BgKnown(bgAct[a].res)
      /\ bgAct[a].pc \notin BgFresh \cup BgDeleting /\ BgActorOK(a)
      /\ Copy(a).res # NoBg => Copy(a).res = bgAct[a].res /\ bgRec[TaskOf(a)].res = bgAct[a].res
  BY <1>1, BgHeld
<1>3. PICK r \in BgResponseIds, rec \in BgRecord : r = bgAct[a].res /\ rec = [Copy(a) EXCEPT !.stage = "pending", !.res = r]
  BY <1>2 DEF BgRecord, BgStages
<1>4. rec.res = r /\ rec.stage = "pending"
  BY <1>2, <1>3 DEF BgRecord
<1>5. CASE Copy(a).res = r /\ BgGoto(a, "observe") /\ BgFine /\ UNCHANGED <<bgStore, bgLate, bgSlots>>
  <2> DEFINE act == [bgAct[a] EXCEPT !.pc = "observe"]
  <2>1. act \in BgActorType /\ act.pc = "observe" /\ act.task = TaskOf(a) /\ act.res = r /\ act.copy = Copy(a)
    BY <1>2, <1>3 DEF BgActorType, BgLabels, TaskOf, Copy
  <2>2. bgAct' = [bgAct EXCEPT ![a] = act]
    BY <1>5 DEF BgGoto, BgInv, BgTypeOK
  <2> HIDE DEF act
  <2>3. bgRec'[TaskOf(a)].res = r
    BY <1>2, <1>3, <1>5 DEF bgStore
  <2>4. BgMoved(a) /\ BgActorOK(a)' /\ bgAct'[a] = act /\ bgAct'[a].pc \notin BgFresh \cup BgDeleting
    BY <1>1, <1>3, <1>5, <2>1, <2>2, <2>3, BgGoesOn DEF BgOnTask
  <2>5. BgQuiet(a)
    BY <1>1, BgAllQuiet
  <2> QED
    BY <1>2, <1>3, <1>5, <2>1, <2>4, <2>5, BgQuietInv
<1>6. CASE BgReturn(a) /\ BgFine /\ UNCHANGED <<bgStore, bgLate>>
  BY <1>1, <1>6, BgAllQuiet, BgQuietReturn
<1>7. CASE Copy(a).res = NoBg
  <2>1. TaskOf(a) = a /\ bgRec[a].res = NoBg /\ NoLate(a)
    BY <1>1, <1>2, <1>7 DEF BgActorOK
  <2>2. BgMayWrite(a, rec)
    BY <1>2, <1>3, <1>4, <2>1 DEF BgMayWrite, BgRecordOK, NoLate
  <2>3. CASE SaveBackgroundResponse(a, rec) /\ BgKeep(a, "observe", rec) /\ BgFine /\ UNCHANGED <<bgLate, bgSlots>>
    BY <1>1, <1>2, <1>3, <1>4, <2>1, <2>2, <2>3, BgWriteGoesOn DEF BgOnTask
  <2>4. CASE SaveBackgroundFails(a, rec) /\ BgReturn(a)
    BY <1>1, <1>2, <1>3, <1>4, <2>1, <2>2, <2>4, BgWriteReturn
  <2>5. \/ Copy(a).res = r
        \/ Copy(a).res # NoBg
        \/ SaveBackgroundResponse(a, rec) /\ BgKeep(a, "observe", rec) /\ BgFine /\ UNCHANGED <<bgLate, bgSlots>>
        \/ SaveBackgroundFails(a, rec) /\ BgReturn(a)
    BY <1>3, <2>1 DEF AcceptBackground
  <2> QED
    BY <1>2, <1>3, <1>7, <2>3, <2>4, <2>5
<1> QED
  BY <1>3, <1>5, <1>6, <1>7 DEF AcceptBackground

\* An answer is saved with the stage it leads to.
LEMMA ObserveBgInv ==
  ASSUME BgInv, NEW a \in BgActors, ObserveBackground(a)
  PROVE  BgInv'
<1>1. bgAct[a].pc = "observe" /\ UNCHANGED <<bgMark, bgBound, bgBooks, bgSent, bgUp>>
  BY DEF ObserveBackground
<1>2. /\ TaskOf(a) \in BgTasks /\ bgSlot[TaskOf(a)] = a /\ bgSent[TaskOf(a)] = 1
      /\ bgAct[a] \in BgActorType /\ Copy(a) \in BgRecord
      /\ bgAct[a].res # NoBg /\ BgKnown(bgAct[a].res) /\ bgAct[a].pc \notin BgFresh \cup BgDeleting
      /\ Copy(a).res = bgAct[a].res /\ bgRec[TaskOf(a)].res = bgAct[a].res
  BY <1>1, BgHeld DEF BgOnTask
<1>3. PICK t \in BgTasks, rec \in BgRecord :
        /\ t = TaskOf(a)
        /\ rec = [Copy(a) EXCEPT !.stage = IF bgAct[a].ans = "working" THEN "pending" ELSE "settling", !.end = bgAct[a].ans]
  BY <1>2 DEF BgRecord, BgStages, BgActorType
<1>4. rec.res = bgAct[a].res /\ rec.stage \in {"pending", "settling"}
  BY <1>2, <1>3 DEF BgRecord
<1>5. BgMayWrite(t, rec)
  <2>1. \A w \in bgLate : w[1] = t => w[2].res = rec.res
    BY <1>2, <1>3, <1>4 DEF BgInv, BgLateOK, BgMayWrite
  <2> QED
    BY <1>2, <1>3, <1>4, <2>1 DEF BgMayWrite, BgRecordOK
<1>6. CASE ((SaveBackgroundResponse(t, rec) /\ BgFine /\ UNCHANGED bgLate) \/ SaveBackgroundFails(t, rec)) /\ BgReturn(a)
  BY <1>1, <1>2, <1>3, <1>4, <1>5, <1>6, BgWriteReturn
<1>7. CASE /\ SaveBackgroundResponse(t, rec) /\ BgFine /\ UNCHANGED <<bgLate, bgSlots>>
           /\ BgKeep(a, "poll", rec) \/ BgKeep(a, "settle", rec)
  BY <1>1, <1>2, <1>3, <1>4, <1>5, <1>7, BgWriteGoesOn DEF BgOnTask
<1>8. CASE BgFault /\ BgReturn(a) /\ UNCHANGED <<bgStore, bgLate>>
  BY <1>1, <1>8, BgAllQuiet, BgQuietReturn
<1> QED
  BY <1>3, <1>6, <1>7, <1>8 DEF ObserveBackground

\* A step of an actor that goes on and saves nothing.
LEMMA BgQuietlyGoesOn ==
  ASSUME BgInv, NEW a \in BgActors, bgAct[a].pc \in {"accept"} \cup BgOnTask, NEW act \in BgActorType,
         bgAct' = [bgAct EXCEPT ![a] = act], UNCHANGED <<bgStore, bgLate, bgSlots, bgSent>>, BgFine \/ BgFault, BgQuiet(a),
         act.pc \in {"accept"} \cup BgOnTask, act.task = TaskOf(a), act.res = bgAct[a].res,
         act.copy.res = act.res, bgRec[TaskOf(a)].res = act.res,
         act.pc \in {"bind", "publish"} /\ act.copy.end = "good" => bgBooks'[TaskOf(a)] = "charged"
  PROVE  BgInv'
<1>1. BgMoved(a) /\ BgActorOK(a)' /\ bgAct'[a] = act /\ bgAct'[a].pc \notin BgFresh \cup BgDeleting
  BY BgGoesOn DEF bgStore
<1>2. bgAct[a].pc \notin BgDeleting
  BY BgHeld
<1> QED
  BY <1>1, <1>2, BgQuietInv

\* saveReceipt charges the task, or leaves what it left.
LEMMA SettleBgInv ==
  ASSUME BgInv, NEW a \in BgActors, SettleBackground(a)
  PROVE  BgInv'
<1>1. bgAct[a].pc = "settle" /\ UNCHANGED <<bgStore, bgMark, bgBound, bgLate, bgSent, bgUp>>
  BY DEF SettleBackground
<1>2. /\ TaskOf(a) \in BgTasks /\ bgSent[TaskOf(a)] = 1 /\ bgAct[a] \in BgActorType
      /\ Copy(a).res = bgAct[a].res /\ bgRec[TaskOf(a)].res = bgAct[a].res
  BY <1>1, BgHeld DEF BgOnTask
<1>3. PICK b \in {"none", "stored", "charged"} :
        /\ bgBooks' = [bgBooks EXCEPT ![TaskOf(a)] = b] /\ (bgBooks[TaskOf(a)] = "charged" => b = "charged")
        /\ \/ BgFault /\ BgReturn(a)
           \/ BgFine /\ BgGoto(a, "bind") /\ UNCHANGED bgSlots /\ (Copy(a).end # "void" => b = "charged")
  BY <1>2 DEF SettleBackground, BgInv, BgTypeOK
<1>4. BgQuiet(a)
  <2>1. \A t \in BgTasks : bgSent[t] \in {0, 1} /\ (bgSent[t] = 0 => bgBooks[t] = "none")
    BY DEF BgInv, BgTaskOK
  <2>2. /\ bgBooks' \in [BgTasks -> {"none", "stored", "charged"}]
        /\ \A t \in BgTasks : (bgBooks[t] = "charged" => bgBooks'[t] = "charged") /\ (bgSent[t] = 0 => bgBooks'[t] = "none")
    BY <1>2, <1>3, <2>1 DEF BgInv, BgTypeOK
  <2> QED
    BY <1>1, <2>1, <2>2 DEF BgQuiet, BgInv, BgTypeOK
<1>5. CASE BgFault /\ BgReturn(a)
  BY <1>1, <1>4, <1>5, BgQuietReturn
<1>6. CASE BgFine /\ BgGoto(a, "bind") /\ UNCHANGED bgSlots /\ (Copy(a).end # "void" => b = "charged")
  <2> DEFINE act == [bgAct[a] EXCEPT !.pc = "bind"]
  <2>1. act \in BgActorType /\ act.pc = "bind" /\ act.task = TaskOf(a) /\ act.res = bgAct[a].res /\ act.copy = Copy(a)
    BY <1>2 DEF BgActorType, BgLabels, TaskOf, Copy
  <2>2. bgAct' = [bgAct EXCEPT ![a] = act]
    BY <1>6 DEF BgGoto, BgInv, BgTypeOK
  <2> HIDE DEF act
  <2>3. act.copy.end = "good" => bgBooks'[TaskOf(a)] = "charged"
    BY <1>2, <1>3, <1>6, <2>1 DEF BgInv, BgTypeOK
  <2> QED
    BY <1>1, <1>2, <1>4, <1>6, <2>1, <2>2, <2>3, BgQuietlyGoesOn DEF BgOnTask
<1> QED
  BY <1>3, <1>5, <1>6

\* A binding is stored only of a response that is not being deleted.
LEMMA BindBgInv ==
  ASSUME BgInv, NEW a \in BgActors, BindBackground(a)
  PROVE  BgInv'
<1>1. bgAct[a].pc = "bind" /\ UNCHANGED <<bgStore, bgMark, bgLate, bgBooks, bgSent, bgUp>> /\ BgActorOK(a)
  BY DEF BindBackground, BgInv
<1>2. /\ TaskOf(a) \in BgTasks /\ bgAct[a] \in BgActorType /\ bgAct[a].res \in BgResponseIds
      /\ Copy(a).res = bgAct[a].res /\ bgRec[TaskOf(a)].res = bgAct[a].res /\ bgAct[a].res # NoBg
  BY <1>1, BgHeld DEF BgOnTask
<1>3. Copy(a).end = "good" => bgBooks[TaskOf(a)] = "charged"
  BY <1>1 DEF BgActorOK
<1>4. /\ bgBound' = bgBound \/ (bgBound' = bgBound \cup {bgAct[a].res} /\ bgMark[bgAct[a].res] = "none")
      /\ \/ (BgFault \/ BgFine) /\ BgReturn(a)
         \/ BgFine /\ BgGoto(a, "publish") /\ UNCHANGED bgSlots
  BY <1>2 DEF BindBackground
<1>5. BgQuiet(a)
  <2>1. \A t \in BgTasks : bgSent[t] \in {0, 1} /\ (bgSent[t] = 0 => bgBooks[t] = "none")
    BY DEF BgInv, BgTaskOK
  <2>2. bgIndex[bgAct[a].res] # NoBg
    BY <1>2, BgAssumption DEF BgInv, OneOwner, BgActors
  <2> QED
    BY <1>1, <1>2, <1>4, <2>1, <2>2 DEF BgQuiet, BgInv, BgTypeOK
<1>6. CASE (BgFault \/ BgFine) /\ BgReturn(a)
  BY <1>1, <1>5, <1>6, BgQuietReturn
<1>7. CASE BgFine /\ BgGoto(a, "publish") /\ UNCHANGED bgSlots
  <2> DEFINE act == [bgAct[a] EXCEPT !.pc = "publish"]
  <2>1. act \in BgActorType /\ act.pc = "publish" /\ act.task = TaskOf(a) /\ act.res = bgAct[a].res /\ act.copy = Copy(a)
    BY <1>2 DEF BgActorType, BgLabels, TaskOf, Copy
  <2>2. bgAct' = [bgAct EXCEPT ![a] = act]
    BY <1>7 DEF BgGoto, BgInv, BgTypeOK
  <2> HIDE DEF act
  <2> QED
    BY <1>1, <1>2, <1>3, <1>5, <1>7, <2>1, <2>2, BgQuietlyGoesOn DEF BgOnTask
<1> QED
  BY <1>4, <1>6, <1>7

\* The provider answers a query.
LEMMA PollBgInv ==
  ASSUME BgInv, NEW a \in BgActors, PollBackground(a)
  PROVE  BgInv'
<1>1. bgAct[a].pc = "poll" /\ UNCHANGED <<bgStore, bgMark, bgBound, bgLate, bgBooks, bgSent, bgUp>>
  BY DEF PollBackground
<1>2. /\ TaskOf(a) \in BgTasks /\ bgAct[a] \in BgActorType /\ bgAct[a].res \in BgResponseIds
      /\ Copy(a).res = bgAct[a].res /\ bgRec[TaskOf(a)].res = bgAct[a].res
  BY <1>1, BgHeld DEF BgOnTask
<1>3. BgQuiet(a)
  BY <1>1, BgAllQuiet
<1>4. CASE (BgFine \/ BgFault) /\ BgReturn(a)
  BY <1>1, <1>3, <1>4, BgQuietReturn
<1>5. ASSUME NEW up \in BgAnswers, BgFine, UNCHANGED bgSlots,
             bgAct' = [bgAct EXCEPT ![a].pc = "accept", ![a].ans = up, ![a].res = Copy(a).res]
      PROVE  BgInv'
  <2> DEFINE act == [bgAct[a] EXCEPT !.pc = "accept", !.ans = up, !.res = Copy(a).res]
  <2>1. act \in BgActorType /\ act.pc = "accept" /\ act.task = TaskOf(a) /\ act.res = bgAct[a].res /\ act.copy = Copy(a)
    BY <1>2 DEF BgActorType, BgLabels, TaskOf, Copy
  <2>2. bgAct' = [bgAct EXCEPT ![a] = act]
    BY <1>5 DEF BgInv, BgTypeOK
  <2> HIDE DEF act
  <2> QED
    BY <1>1, <1>2, <1>3, <1>5, <2>1, <2>2, BgQuietlyGoesOn DEF BgOnTask
<1> QED
  BY <1>4, <1>5 DEF PollBackground

\* The provider cancels a response.
LEMMA CancelBgInv ==
  ASSUME BgInv, NEW a \in BgActors, CancelBackground(a)
  PROVE  BgInv'
<1>1. bgAct[a].pc = "cancel" /\ UNCHANGED <<bgStore, bgMark, bgBound, bgLate, bgBooks, bgSent>>
  BY DEF CancelBackground
<1>2. /\ TaskOf(a) \in BgTasks /\ bgAct[a] \in BgActorType /\ bgAct[a].res \in BgResponseIds
      /\ Copy(a).res = bgAct[a].res /\ bgRec[TaskOf(a)].res = bgAct[a].res
  BY <1>1, BgHeld DEF BgOnTask
<1>3. CASE (BgFine \/ BgFault) /\ BgReturn(a) /\ UNCHANGED bgUp
  BY <1>1, <1>3, BgAllQuiet, BgQuietReturn
<1>4. ASSUME NEW up \in BgAnswers, BgFine, UNCHANGED bgSlots, bgUp' = [bgUp EXCEPT ![Copy(a).res] = up],
             bgAct' = [bgAct EXCEPT ![a].pc = "accept", ![a].ans = up, ![a].res = Copy(a).res]
      PROVE  BgInv'
  <2> DEFINE act == [bgAct[a] EXCEPT !.pc = "accept", !.ans = up, !.res = Copy(a).res]
  <2>1. act \in BgActorType /\ act.pc = "accept" /\ act.task = TaskOf(a) /\ act.res = bgAct[a].res /\ act.copy = Copy(a)
    BY <1>2 DEF BgActorType, BgLabels, TaskOf, Copy
  <2>2. bgAct' = [bgAct EXCEPT ![a] = act]
    BY <1>4 DEF BgInv, BgTypeOK
  <2> HIDE DEF act
  <2>3. BgQuiet(a)
    <3>1. \A t \in BgTasks : bgSent[t] \in {0, 1} /\ (bgSent[t] = 0 => bgBooks[t] = "none")
      BY DEF BgInv, BgTaskOK
    <3>2. /\ bgUp' \in [BgResponseIds -> BgAnswers \cup {"none", "gone"}]
          /\ \A r \in BgResponseIds : bgUp'[r] = "none" => bgUp[r] = "none"
      BY <1>2, <1>4 DEF BgInv, BgTypeOK, BgAnswers
    <3> QED
      BY <1>1, <3>1, <3>2 DEF BgQuiet, BgInv, BgTypeOK
  <2> QED
    BY <1>1, <1>2, <1>4, <2>1, <2>2, <2>3, BgQuietlyGoesOn DEF BgOnTask
<1>5. {"costly", "void"} \subseteq BgAnswers
  BY DEF BgAnswers
<1> QED
  BY <1>3, <1>4, <1>5 DEF CancelBackground

\* The terminal save, after which a deletion goes on and all others answer.
LEMMA PublishBgInv ==
  ASSUME BgInv, NEW a \in BgActors, PublishBackground(a)
  PROVE  BgInv'
<1>1. bgAct[a].pc = "publish" /\ UNCHANGED <<bgMark, bgBound, bgBooks, bgSent, bgUp>>
  BY DEF PublishBackground
<1>2. /\ TaskOf(a) \in BgTasks /\ bgSlot[TaskOf(a)] = a /\ bgSent[TaskOf(a)] = 1
      /\ bgAct[a] \in BgActorType /\ Copy(a) \in BgRecord /\ BgActorOK(a)
      /\ bgAct[a].res # NoBg /\ BgKnown(bgAct[a].res) /\ bgAct[a].pc \notin BgFresh \cup BgDeleting
      /\ Copy(a).res = bgAct[a].res /\ bgRec[TaskOf(a)].res = bgAct[a].res
  BY <1>1, BgHeld DEF BgOnTask
<1>3. PICK t \in BgTasks, rec \in BgRecord : t = TaskOf(a) /\ rec = [Copy(a) EXCEPT !.stage = "terminal"]
  BY <1>2 DEF BgRecord, BgStages
<1>4. rec.res = bgAct[a].res /\ rec.stage = "terminal" /\ rec.end = Copy(a).end
  BY <1>2, <1>3 DEF BgRecord
<1>5. BgMayWrite(t, rec)
  <2>1. \A w \in bgLate : w[1] = t => w[2].res = rec.res
    BY <1>2, <1>3, <1>4 DEF BgInv, BgLateOK, BgMayWrite
  <2>2. rec.end = "good" => bgBooks[t] = "charged"
    BY <1>1, <1>2, <1>3, <1>4 DEF BgActorOK
  <2> QED
    BY <1>2, <1>3, <1>4, <2>1, <2>2 DEF BgMayWrite, BgRecordOK
<1>6. CASE ((SaveBackgroundResponse(t, rec) /\ BgFine /\ UNCHANGED bgLate) \/ SaveBackgroundFails(t, rec)) /\ BgReturn(a)
  BY <1>1, <1>2, <1>3, <1>4, <1>5, <1>6, BgWriteReturn
<1>7. CASE SaveBackgroundResponse(t, rec) /\ BgFine /\ UNCHANGED bgLate /\ BgGoto(a, "mark") /\ UNCHANGED bgSlots
  <2> DEFINE act == [bgAct[a] EXCEPT !.pc = "mark"]
  <2>1. act \in BgActorType /\ act.pc = "mark" /\ act.task = TaskOf(a) /\ act.res = bgAct[a].res /\ act.copy = Copy(a)
    BY <1>2 DEF BgActorType, BgLabels, TaskOf, Copy
  <2>2. bgAct' = [bgAct EXCEPT ![a] = act]
    BY <1>7 DEF BgGoto, BgInv, BgTypeOK
  <2> HIDE DEF act
  <2>3. bgRec'[t].res = rec.res
    BY <1>7 DEF SaveBackgroundResponse, BgInv, BgTypeOK
  <2>4. BgMoved(a) /\ bgAct'[a] = act
    BY <1>7, <2>1, <2>2, BgWent DEF BgInv, BgTypeOK, bgSlots
  <2>5. t # NoBg
    BY BgAssumption DEF BgActors
  <2>6. BgActorOK(a)'
    BY <1>2, <1>3, <1>4, <1>7, <2>1, <2>3, <2>4, <2>5 DEF BgActorOK, BgFresh, BgOnTask, BgDeleting, TaskOf, bgSlots
  <2>7. bgAct'[a].pc \notin BgFresh
    BY <2>1, <2>4 DEF BgFresh
  <2> QED
    BY <1>1, <1>2, <1>3, <1>4, <1>5, <1>7, <2>1, <2>4, <2>6, <2>7, BgWriteInv
<1> QED
  BY <1>3, <1>6, <1>7 DEF PublishBackground, BgSettled

\* A handler or the worker takes the slot of a task and loads its record.
LEMMA EnterBgInv ==
  ASSUME BgInv, NEW a \in BgActors \ BgTasks, NEW goal \in {"read", "cancel", "delete"}, NEW t \in BgTasks, NEW r,
         bgAct[a].pc = "idle", bgSlot[t] = NoBg, r = bgRec[t].res, bgRec[t].stage = "terminal" => r # NoBg, Enter(a, goal, t, r),
         UNCHANGED <<bgStore, bgMark, bgBound, bgLate, bgBooks, bgSent, bgUp, bgFaults>>
  PROVE  BgInv'
<1>1. BgQuiet(a) /\ BgFine
  BY BgAllQuiet DEF BgFine
<1>2. CASE RefreshEntry(a, goal, bgRec[t]) = "return"
  <2>1. UNCHANGED bgVars
    BY <1>2 DEF Enter, bgVars
  <2> QED
    BY <2>1 DEF bgVars, bgStore, bgSlots, BgInv, BgTypeOK, OneOwner, DeletedStaysDeleted, BgLateOK, BgMayWrite, BgRecordOK, BgTaskOK,
                BgActorOK, BgIdOK, BgKnown, NoLate, TaskOf, Copy
<1>3. CASE RefreshEntry(a, goal, bgRec[t]) # "return"
  <2>1. PICK label \in {"mark", "settle", "cancel", "poll"} :
          /\ bgRec[t].stage \in {"pending", "settling", "terminal"}
          /\ bgAct' = [bgAct EXCEPT ![a] = [pc |-> label, goal |-> goal, task |-> t, res |-> r, copy |-> bgRec[t], ans |-> "working"]]
          /\ bgSlot' = [bgSlot EXCEPT ![t] = a] /\ bgCreate' = bgCreate
    BY <1>3 DEF Enter, RefreshEntry
  <2>2. bgRec[t] \in BgRecord /\ bgSent[t] = 1 /\ r # NoBg /\ r \in BgResponseIds /\ t # NoBg
    <3>1. BgRecordOK(t, bgRec[t]) /\ bgRec[t] \in BgRecord
      BY DEF BgInv, BgTaskOK, BgTypeOK
    <3> QED
      BY <2>1, <3>1, BgAssumption DEF BgRecordOK, BgRecord, BgActors
  <2>3. bgAct[t].pc \notin BgFresh
    BY <2>2 DEF BgInv, BgActorOK, BgActors
  <2> DEFINE act == [pc |-> label, goal |-> goal, task |-> t, res |-> r, copy |-> bgRec[t], ans |-> "working"]
  <2>4. act \in BgActorType
    BY <2>2 DEF BgActorType, BgLabels, BgAnswers
  <2>5. act.pc = label /\ act.task = t /\ act.res = r /\ act.copy = bgRec[t] /\ bgAct' = [bgAct EXCEPT ![a] = act]
    BY <2>1
  <2> HIDE DEF act
  <2>6. /\ bgSlot' \in [BgTasks -> BgActors \cup {NoBg}] /\ bgCreate' \in BgTasks \cup {NoBg} /\ bgSlot'[t] = a
        /\ \A s \in BgTasks : bgSlot'[s] = bgSlot[s] \/ (bgSlot[s] \in {a, NoBg} /\ (s = a \/ bgAct[s].pc \notin {"idle", "count"}))
    BY <2>1, <2>3 DEF BgInv, BgTypeOK, BgFresh
  <2>7. BgMoved(a) /\ bgAct'[a] = act
    BY <2>4, <2>5, <2>6, BgWent, ZenonT(40)
  <2>8. BgKnown(r)
    <3>1. bgIndex[r] # NoBg
      BY <2>2 DEF BgInv, OneOwner
    <3> QED
      BY <2>2, <3>1 DEF BgKnown, BgInv, BgIdOK
  <2>9. BgActorOK(a)'
    BY <2>1, <2>2, <2>5, <2>6, <2>7 DEF BgActorOK, BgFresh, BgOnTask, BgDeleting, TaskOf, Copy, bgStore
  <2> QED
    BY <1>1, <2>5, <2>7, <2>8, <2>9, BgQuietInv
<1> QED
  BY <1>2, <1>3

\* The three ways to a task: its index, the pending set and a deletion.
LEMMA LookUpBgInv ==
  ASSUME BgInv, NEW a \in BgClients, NEW goal \in {"read", "cancel", "delete"}, NEW r \in BgResponseIds, bgAct[a].pc = "idle",
         bgIndex[r] # NoBg, bgSlot[bgIndex[r]] = NoBg, Enter(a, goal, bgIndex[r], r),
         UNCHANGED <<bgStore, bgMark, bgBound, bgLate, bgBooks, bgSent, bgUp, bgFaults>>
  PROVE  BgInv'
<1>1. PICK t \in BgTasks : t = bgIndex[r]
  BY DEF BgInv, BgTypeOK
<1>2. bgRec[t].res = r /\ r # NoBg
  BY <1>1, BgAssumption DEF BgInv, OneOwner
<1>3. a \in BgActors \ BgTasks
  BY BgAssumption DEF BgActors
<1> QED
  BY <1>1, <1>2, <1>3, EnterBgInv

\* The worker's pass.
LEMMA WorkBgInv ==
  ASSUME BgInv, NEW t \in BgTasks, WorkBackground(t)
  PROVE  BgInv'
<1>1. BgWorker \in BgActors \ BgTasks /\ bgRec[t].stage # "terminal"
  BY BgAssumption DEF BgActors, WorkBackground, BgInv, OneOwner
<1>2. PICK r : r = bgRec[t].res
  OBVIOUS
<1> QED
  BY <1>1, <1>2, EnterBgInv DEF WorkBackground

\* The intent to delete a response is stored before the provider is asked.
LEMMA MarkBgInv ==
  ASSUME BgInv, NEW a \in BgActors, MarkDeletion(a)
  PROVE  BgInv'
<1>1. bgAct[a].pc = "mark" /\ UNCHANGED <<bgStore, bgBound, bgLate, bgBooks, bgSent, bgUp>> /\ BgActorOK(a) /\ bgAct[a] \in BgActorType
  BY DEF MarkDeletion, BgInv, BgTypeOK, BgActorType
<1>2. PICK r \in BgResponseIds : r = bgAct[a].res
  BY <1>1 DEF BgActorOK, BgActorType, BgDeleting
<1>3. bgUp[r] # "none"
  BY <1>2 DEF BgInv, BgIdOK
<1>4. ASSUME bgMark' = bgMark \/ bgMark' = [bgMark EXCEPT ![r] = "intent"] PROVE BgQuiet(a)
  <2>1. \A t \in BgTasks : bgSent[t] \in {0, 1} /\ (bgSent[t] = 0 => bgBooks[t] = "none")
    BY DEF BgInv, BgTaskOK
  <2>2. /\ bgMark' \in [BgResponseIds -> {"none", "intent", "done"}]
        /\ \A s \in BgResponseIds : bgMark'[s] = bgMark[s] \/ (bgUp[s] # "none" /\ bgMark'[s] = "intent")
    BY <1>3, <1>4 DEF BgInv, BgTypeOK
  <2> QED
    BY <1>1, <2>1, <2>2 DEF BgQuiet, BgInv, BgTypeOK
<1>5. CASE BgFault /\ BgReturn(a) /\ bgMark' \in {bgMark, [bgMark EXCEPT ![r] = "intent"]}
  BY <1>1, <1>4, <1>5, BgQuietReturn
<1>6. CASE bgMark' = [bgMark EXCEPT ![r] = "intent"] /\ BgGoto(a, "remove") /\ BgFine /\ UNCHANGED bgSlots
  <2> DEFINE act == [bgAct[a] EXCEPT !.pc = "remove"]
  <2>1. act \in BgActorType /\ act.pc = "remove" /\ act.task = TaskOf(a) /\ act.res = r /\ act.copy = Copy(a)
    BY <1>1, <1>2 DEF BgActorType, BgLabels, TaskOf, Copy
  <2>2. bgAct' = [bgAct EXCEPT ![a] = act]
    BY <1>6 DEF BgGoto, BgInv, BgTypeOK
  <2> HIDE DEF act
  <2>3. BgMoved(a) /\ bgAct'[a] = act
    BY <1>6, <2>1, <2>2, BgWent DEF BgInv, BgTypeOK, bgSlots
  <2>4. bgMark'[r] = "intent"
    BY <1>6 DEF BgInv, BgTypeOK
  <2>5. BgActorOK(a)'
    BY <1>1, <1>2, <1>6, <2>1, <2>3, <2>4 DEF BgActorOK, BgFresh, BgOnTask, BgDeleting, TaskOf, bgSlots, bgStore
  <2>6. bgAct'[a].pc \notin BgFresh /\ bgAct'[a].pc \in BgDeleting
    BY <2>1, <2>3 DEF BgFresh, BgDeleting
  <2> QED
    BY <1>1, <1>2, <1>4, <1>6, <2>1, <2>3, <2>5, <2>6, BgQuietInv
<1> QED
  BY <1>2, <1>5, <1>6 DEF MarkDeletion

\* A deletion of a settled response, or again of one that is marked.
LEMMA DeleteBgInv ==
  ASSUME BgInv, NEW a \in BgClients, NEW r \in BgResponseIds, DeleteResponse(a, r)
  PROVE  BgInv'
<1>1. /\ bgAct[a].pc = "idle" /\ a \in BgActors \ BgTasks /\ UNCHANGED <<bgStore, bgMark, bgBound, bgLate, bgBooks, bgSent, bgUp, bgFaults>>
  BY BgAssumption DEF DeleteResponse, BgActors
<1>2. CASE bgIndex[r] # NoBg /\ bgSlot[bgIndex[r]] = NoBg /\ Enter(a, "delete", bgIndex[r], r)
  BY <1>1, <1>2, LookUpBgInv
<1>3. ASSUME NEW t \in BgTasks \cup {NoBg}, t = bgIndex[r], bgMark[r] = "intent" \/ (bgMark[r] = "none" /\ t = NoBg /\ r \in bgBound),
             t # NoBg => bgSlot[t] = NoBg,
             bgAct' = [bgAct EXCEPT ![a] = [BgIdle EXCEPT !.pc = "mark", !.goal = "delete", !.res = r, !.task = t]],
             bgSlot' = IF t = NoBg THEN bgSlot ELSE [bgSlot EXCEPT ![t] = a], UNCHANGED bgCreate
      PROVE  BgInv'
  <2>1. r # NoBg /\ NoBg \notin BgTasks /\ BgQuiet(a) /\ BgFine
    BY <1>1, BgAllQuiet, BgAssumption DEF BgActors, BgFine
  <2>2. t # NoBg => bgRec[t].res = r /\ bgAct[t].pc \notin BgFresh
    BY <1>3, <2>1 DEF BgInv, OneOwner, BgActorOK, BgActors
  <2>3. bgUp[r] # "none"
    BY <1>3 DEF BgInv, BgIdOK
  <2> DEFINE act == [BgIdle EXCEPT !.pc = "mark", !.goal = "delete", !.res = r, !.task = t]
  <2>4. act \in BgActorType /\ act.pc = "mark" /\ act.task = t /\ act.res = r
    BY BgRecords DEF BgIdle, BgActorType, BgLabels, NoRecord
  <2>5. bgAct' = [bgAct EXCEPT ![a] = act]
    BY <1>3
  <2> HIDE DEF act
  <2>6. /\ bgSlot' \in [BgTasks -> BgActors \cup {NoBg}] /\ bgCreate' \in BgTasks \cup {NoBg} /\ (t # NoBg => bgSlot'[t] = a)
        /\ \A s \in BgTasks : bgSlot'[s] = bgSlot[s] \/ (bgSlot[s] \in {a, NoBg} /\ (s = a \/ bgAct[s].pc \notin {"idle", "count"}))
    BY <1>1, <1>3, <2>2 DEF BgInv, BgTypeOK, BgFresh
  <2>7. BgMoved(a) /\ bgAct'[a] = act
    BY <1>1, <2>4, <2>5, <2>6, BgWent
  <2>8. BgActorOK(a)'
    BY <1>1, <1>3, <2>1, <2>2, <2>4, <2>6, <2>7 DEF BgActorOK, BgFresh, BgOnTask, BgDeleting, TaskOf, bgStore
  <2>9. bgAct'[a].res = r /\ bgAct'[a].pc \in BgDeleting
    BY <2>4, <2>7 DEF BgDeleting
  <2> QED
    BY <1>1, <2>1, <2>3, <2>7, <2>8, <2>9, BgQuietInv
<1> QED
  BY <1>2, <1>3 DEF DeleteResponse, BgInv, BgTypeOK

\* The script that removes everything that leads to a response.
LEMMA RemoveBgInv ==
  ASSUME BgInv, NEW a \in BgActors, RemoveResponse(a)
  PROVE  BgInv'
<1>0. bgAct[a].pc = "remove" /\ BgReturn(a) /\ BgActorOK(a) /\ bgAct[a] \in BgActorType /\ UNCHANGED <<bgLate, bgBooks, bgSent>>
  BY DEF RemoveResponse, BgInv, BgTypeOK, BgActorType
<1>1. PICK r \in BgResponseIds, t \in BgTasks \cup {NoBg} : r = bgAct[a].res /\ t = TaskOf(a)
  BY <1>0 DEF BgActorOK, BgActorType, BgDeleting, TaskOf
<1>2. /\ t = NoBg => bgIndex[r] = NoBg
      /\ t # NoBg => bgSlot[t] = a /\ bgRec[t].res = r
      /\ r # NoBg /\ NoBg \notin BgTasks /\ bgUp[r] # "none"
  BY <1>0, <1>1, BgAssumption DEF BgActorOK, BgDeleting, BgInv, BgIdOK, BgActors
<1>3. /\ BgMoved(a) /\ BgActorOK(a)' /\ (bgAct'[a].pc \notin BgFresh \/ a \notin BgTasks) /\ bgAct'[a].res = NoBg
  BY <1>0, BgReturned
<1>4. \A s \in BgTasks : bgSent[s] \in {0, 1} /\ (bgSent[s] = 0 => bgBooks[s] = "none")
  BY DEF BgInv, BgTaskOK
<1>5. CASE /\ BgFault /\ bgUp' \in {bgUp, [bgUp EXCEPT ![r] = "gone"]}
           /\ UNCHANGED <<bgStore, bgMark, bgBound>>
  <2>1. BgQuiet(a)
    BY <1>0, <1>4, <1>5 DEF BgQuiet, BgInv, BgTypeOK, BgAnswers
  <2> QED
    BY <1>0, <1>5, <2>1, BgQuietReturn
<1>6. CASE /\ bgUp' = [bgUp EXCEPT ![r] = "gone"] /\ BgFine
           /\ bgMark' = [bgMark EXCEPT ![r] = "done"]
           /\ bgBound' = bgBound \ {r} /\ bgIndex' = [bgIndex EXCEPT ![r] = NoBg]
           /\ bgRec' = IF t = NoBg THEN bgRec ELSE [bgRec EXCEPT ![t] = NoRecord]
           /\ bgPending' = bgPending \ {t} /\ UNCHANGED bgFirst
  <2>1. BgTypeOK'
    BY <1>0, <1>3, <1>6, BgFaultType, BgRecords DEF BgInv, BgTypeOK, BgMoved, BgActorType
  <2>2. /\ \A s \in BgTasks : IF s = t THEN bgRec'[s] = NoRecord ELSE bgRec'[s] = bgRec[s] /\ bgRec[s].res # r
        /\ \A x \in BgResponseIds \ {r} : bgIndex'[x] = bgIndex[x] /\ bgMark'[x] = bgMark[x] /\ bgUp'[x] = bgUp[x]
        /\ bgIndex'[r] = NoBg /\ bgMark'[r] = "done" /\ bgUp'[r] = "gone"
    <3>1. \A s \in BgTasks : s # t => bgRec[s].res # r
      BY <1>2 DEF BgInv, OneOwner
    <3> QED
      BY <1>2, <1>6, <3>1 DEF BgInv, BgTypeOK
  <2>3. OneOwner'
    <3>1. \A s \in BgTasks : bgRec'[s].res # NoBg => bgIndex'[bgRec'[s].res] = s
      BY <2>2, BgRecords DEF BgInv, OneOwner, BgTypeOK, BgRecord
    <3>2. \A x \in BgResponseIds : bgIndex'[x] # NoBg => bgRec'[bgIndex'[x]].res = x
      BY <1>2, <2>2, BgRecords DEF BgInv, OneOwner, BgTypeOK
    <3>3. bgPending' = {s \in BgTasks : bgRec'[s].stage \in {"submitting", "pending", "settling"}}
      BY <1>6, <2>2, BgRecords DEF BgInv, OneOwner
    <3> QED
      BY <3>1, <3>2, <3>3 DEF OneOwner
  <2>4. DeletedStaysDeleted'
    BY <1>2, <1>6, <2>2, BgRecords, BgAssumption DEF BgInv, DeletedStaysDeleted
  <2>5. \A w \in bgLate' : BgLateOK(w)'
    <3> SUFFICES ASSUME NEW w \in bgLate PROVE BgLateOK(w)'
      BY <1>0
    <3>1. BgLateOK(w) /\ w[1] \in BgTasks /\ w[1] \in BgActors
      BY DEF BgInv, BgTypeOK, BgActors
    <3>2. bgAct'[w[1]].pc \notin BgFresh
      BY <1>3, <3>1 DEF BgLateOK, BgMoved
    <3> QED
      BY <1>0, <2>2, <3>1, <3>2, BgRecords DEF BgLateOK, BgMayWrite, BgRecordOK
  <2>6. \A s \in BgTasks : BgTaskOK(s)'
    <3> SUFFICES ASSUME NEW s \in BgTasks PROVE BgTaskOK(s)'
      OBVIOUS
    <3>1. BgTaskOK(s) /\ s \in BgActors
      BY DEF BgInv, BgActors
    <3>2. bgAct'[s].pc \in BgFresh => bgAct'[s] = bgAct[s]
      BY <1>3, <3>1 DEF BgMoved
    <3>3. bgAct'[s].pc \in {"idle", "count"} => bgSlot'[s] = NoBg
      BY <1>3 DEF BgMoved
    <3> QED
      BY <1>0, <1>6, <2>2, <3>1, <3>2, <3>3, BgRecords DEF BgTaskOK, BgRecordOK
  <2>7. \A b \in BgActors \ {a} : BgActorOK(b)'
    <3> SUFFICES ASSUME NEW b \in BgActors, b # a PROVE BgActorOK(b)'
      OBVIOUS
    <3>1. bgAct'[b] = bgAct[b] /\ \A s \in BgTasks : bgSlot[s] = b => bgSlot'[s] = b
      BY <1>3 DEF BgMoved
    <3>2. \A s \in BgTasks : bgRec'[s].res = bgRec[s].res \/ (bgSlot[s] = a /\ bgRec[s].res # NoBg)
      BY <1>2, <2>2
    <3>3. \A x \in BgResponseIds : /\ bgIndex[x] = NoBg => bgIndex'[x] = NoBg
                                   /\ bgMark'[x] = "none" => bgMark[x] = "none"
                                   /\ x \in bgBound => x \in bgBound' \/ bgMark'[x] # "none"
      BY <1>6, <2>2
    <3>4. BgLeaves(a, b)
      BY <1>0, <3>1, <3>2, <3>3 DEF BgLeaves
    <3> QED
      BY <3>4, BgOthersKeep
  <2>8. \A x \in BgResponseIds : BgIdOK(x)'
    <3> SUFFICES ASSUME NEW x \in BgResponseIds PROVE BgIdOK(x)'
      OBVIOUS
    <3>1. \A b \in BgActors : bgAct'[b].res = x =>
              bgAct[b].res = x /\ (bgAct'[b].pc \notin BgDeleting => bgAct[b].pc \notin BgDeleting)
      BY <1>3, BgAssumption DEF BgMoved
    <3>2. /\ bgUp'[x] = "none" => bgUp[x] = "none"
          /\ bgIndex'[x] = bgIndex[x] \/ (bgUp[x] # "none" /\ bgMark'[x] # "none")
          /\ bgMark'[x] = bgMark[x] \/ (bgUp[x] # "none" /\ bgMark'[x] # "none")
      BY <1>2, <2>2
    <3>3. (x \in bgBound' => x \in bgBound) /\ \A w \in bgLate' : w \in bgLate
      BY <1>0, <1>6
    <3> QED
      BY <3>1, <3>2, <3>3, BgIdsKeep
  <2> QED
    BY <1>3, <2>1, <2>3, <2>4, <2>5, <2>6, <2>7, <2>8 DEF BgInv
<1> QED
  BY <1>1, <1>5, <1>6 DEF RemoveResponse

\* A settled record expires when nobody speaks of its response any more.
LEMMA ExpireBgInv ==
  ASSUME BgInv, NEW t \in BgTasks, ExpireBackground(t)
  PROVE  BgInv'
<1>1. /\ UNCHANGED <<bgPending, bgFirst, bgMark, bgBound, bgLate, bgBooks, bgSent, bgUp, bgSlots, bgAct, bgFaults>>
      /\ bgRec[t].stage = "terminal" /\ \A w \in bgLate : w[1] # t /\ (w[2].res = NoBg \/ w[2].res # bgRec[t].res)
      /\ \A a \in BgActors : bgAct[a].res = NoBg \/ bgAct[a].res # bgRec[t].res
      /\ NoBg \notin BgTasks /\ NoBg \notin BgResponseIds /\ NoBg \notin BgActors
  BY BgAssumption DEF ExpireBackground, BgActors
<1>2. /\ \A s \in BgTasks : bgRec'[s] = IF s = t THEN NoRecord ELSE bgRec[s]
      /\ \A r \in BgResponseIds : bgIndex'[r] = IF bgIndex[r] = t THEN NoBg ELSE bgIndex[r]
      /\ bgRec' \in [BgTasks -> BgRecord] /\ bgIndex' \in [BgResponseIds -> BgTasks \cup {NoBg}]
  BY BgRecords DEF ExpireBackground, BgInv, BgTypeOK
<1>3. BgTypeOK'
  BY <1>1, <1>2 DEF BgInv, BgTypeOK, bgSlots
<1>4. OneOwner'
  <2>1. \A s \in BgTasks : bgRec'[s].res # NoBg => bgIndex'[bgRec'[s].res] = s
    BY <1>2, BgRecords DEF BgInv, OneOwner, BgTypeOK, BgRecord
  <2>2. \A r \in BgResponseIds : bgIndex'[r] # NoBg => bgRec'[bgIndex'[r]].res = r
    BY <1>1, <1>2 DEF BgInv, OneOwner, BgTypeOK
  <2>3. bgPending' = {s \in BgTasks : bgRec'[s].stage \in {"submitting", "pending", "settling"}}
    BY <1>1, <1>2, BgRecords DEF BgInv, OneOwner
  <2> QED
    BY <2>1, <2>2, <2>3 DEF OneOwner
<1>5. DeletedStaysDeleted'
  BY <1>1, <1>2, BgRecords DEF BgInv, DeletedStaysDeleted
<1>6. \A w \in bgLate' : BgLateOK(w)'
  <2> SUFFICES ASSUME NEW w \in bgLate PROVE BgLateOK(w)'
    BY <1>1
  <2>1. BgLateOK(w) /\ w[1] \in BgTasks
    BY DEF BgInv, BgTypeOK
  <2> QED
    BY <1>1, <1>2, <2>1 DEF BgLateOK, BgMayWrite, BgRecordOK
<1>7. \A s \in BgTasks : BgTaskOK(s)'
  BY <1>1, <1>2, BgRecords DEF BgInv, BgTaskOK, BgRecordOK, bgSlots
<1>8. \A b \in BgActors : BgActorOK(b)'
  <2> SUFFICES ASSUME NEW b \in BgActors PROVE BgActorOK(b)'
    OBVIOUS
  <2>1. \A s \in BgTasks : bgRec'[s].res = bgRec[s].res \/ (bgSlot[s] = NoBg /\ bgRec[s].res # NoBg)
    BY <1>2, BgRecords DEF ExpireBackground
  <2>2. BgLeaves(NoBg, b)
    BY <1>1, <1>2, <2>1 DEF BgLeaves, bgSlots
  <2> QED
    BY <2>2, BgOthersKeep
<1>9. \A r \in BgResponseIds : BgIdOK(r)'
  <2> SUFFICES ASSUME NEW r \in BgResponseIds PROVE BgIdOK(r)'
    OBVIOUS
  <2>1. CASE bgIndex[r] = t
    <3>1. bgRec[t].res = r /\ BgIdOK(r) /\ bgUp[r] # "none"
      BY <1>1, <2>1 DEF BgInv, OneOwner, BgIdOK
    <3> QED
      BY <1>1, <3>1 DEF BgIdOK
  <2>2. CASE bgIndex[r] # t
    BY <1>1, <1>2, <2>2 DEF BgIdOK, BgInv, BgKnown
  <2> QED
    BY <2>1, <2>2
<1> QED
  BY <1>3, <1>4, <1>5, <1>6, <1>7, <1>8, <1>9 DEF BgInv

\* A save that comes late is admitted by the script or refused by it.
LEMMA LateSaveInv ==
  ASSUME BgInv, NEW w \in bgLate, LateSave(w[1], w[2])
  PROVE  BgInv'
<1>1. PICK t \in BgTasks, rec \in BgRecord : t = w[1] /\ rec = w[2] /\ w = <<t, rec>>
  BY DEF BgInv, BgTypeOK
<1>2. /\ bgLate' = bgLate \ {w} /\ UNCHANGED <<bgMark, bgBound, bgBooks, bgSent, bgUp, bgSlots, bgAct, bgFaults>>
      /\ SaveBackgroundResponse(t, rec) \/ UNCHANGED bgStore
      /\ BgMayWrite(t, rec) /\ NoBg \notin BgTasks /\ NoBg \notin BgResponseIds /\ NoBg \notin BgActors
  BY <1>1, BgAssumption DEF LateSave, BgInv, BgLateOK, BgActors
<1>3. /\ bgRec' \in [BgTasks -> BgRecord] /\ bgPending' \subseteq BgTasks
      /\ bgIndex' \in [BgResponseIds -> BgTasks \cup {NoBg}]
      /\ bgFirst' \in [BgTasks -> {"open", "result", "failure"}]
      /\ OneOwner' /\ DeletedStaysDeleted'
      /\ \A s \in BgTasks : BgRecordOK(s, bgRec[s])' /\ (bgSent[s] = 0 => bgFirst'[s] = bgFirst[s])
      /\ \A r \in BgResponseIds : \/ bgIndex'[r] = bgIndex[r]
                                  \/ r = rec.res /\ bgIndex'[r] = t /\ bgMark[r] = "none"
      /\ bgRec' = bgRec \/ bgRec' = [bgRec EXCEPT ![t] = rec]
  <2>1. CASE SaveBackgroundResponse(t, rec)
    BY <1>2, <2>1, BgSaved
  <2>2. CASE UNCHANGED bgStore
    BY <1>2, <2>2 DEF bgStore, BgInv, BgTypeOK, OneOwner, DeletedStaysDeleted, BgTaskOK, BgRecordOK
  <2> QED
    BY <1>2, <2>1, <2>2
<1>4. BgTypeOK'
  BY <1>2, <1>3 DEF BgInv, BgTypeOK, bgSlots
<1>5. \A s \in BgTasks : bgRec'[s] = bgRec[s] \/ (s = t /\ bgRec'[s] = rec)
  BY <1>3 DEF BgInv, BgTypeOK
<1>6. \A v \in bgLate' : BgLateOK(v)'
  <2> SUFFICES ASSUME NEW v \in bgLate' PROVE BgLateOK(v)'
    OBVIOUS
  <2>1. v \in bgLate /\ BgLateOK(v) /\ v[1] \in BgTasks
    BY <1>2 DEF BgInv, BgTypeOK
  <2>2. v[1] = t => v[2].res = rec.res
    BY <1>1, <2>1 DEF BgLateOK, BgMayWrite
  <2>3. bgRec'[v[1]].res \in {NoBg, v[2].res}
    BY <1>5, <2>1, <2>2 DEF BgLateOK, BgMayWrite
  <2> QED
    BY <1>2, <2>1, <2>3 DEF BgLateOK, BgMayWrite, BgRecordOK
<1>7. \A s \in BgTasks : BgTaskOK(s)'
  BY <1>2, <1>3 DEF BgInv, BgTaskOK, bgSlots
<1>8. rec.res # NoBg => BgKnown(rec.res)
  BY <1>1 DEF BgInv, BgIdOK, BgRecord
<1>9. \A b \in BgActors : BgActorOK(b)'
  <2> SUFFICES ASSUME NEW b \in BgActors PROVE BgActorOK(b)'
    OBVIOUS
  <2>1. \A s \in BgTasks : bgRec'[s].res = bgRec[s].res \/ (bgRec[s].res = NoBg /\ ~NoLate(s))
    BY <1>1, <1>2, <1>5 DEF BgMayWrite, NoLate
  <2>2. \A r \in BgResponseIds : bgIndex[r] = NoBg /\ bgIndex'[r] # NoBg => bgMark[r] = "none" /\ r \notin bgBound
    BY <1>2, <1>3, <1>8 DEF BgKnown
  <2>3. BgLeaves(NoBg, b)
    BY <1>2, <2>1, <2>2 DEF BgLeaves, bgSlots
  <2> QED
    BY <2>3, BgOthersKeep
<1>10. \A r \in BgResponseIds : BgIdOK(r)'
  <2> SUFFICES ASSUME NEW r \in BgResponseIds PROVE BgIdOK(r)'
    OBVIOUS
  <2>1. bgIndex'[r] = bgIndex[r] \/ (BgKnown(r) /\ bgIndex'[r] # NoBg)
    BY <1>2, <1>3, <1>8
  <2> QED
    BY <1>2, <2>1, BgIdsKeep
<1> QED
  BY <1>3, <1>4, <1>6, <1>7, <1>9, <1>10 DEF BgInv

\* The provider, the recovery of receipts and a restart.
LEMMA BgWorldInv ==
  ASSUME BgInv,
         BgCrash \/ UNCHANGED bgVars \/ (\E r \in BgResponseIds : BgProvider(r)) \/ \E t \in BgTasks : RecoverBgReceipt(t)
  PROVE  BgInv'
<1>1. CASE UNCHANGED bgVars
  BY <1>1 DEF bgVars, bgStore, bgSlots, BgInv, BgTypeOK, OneOwner, DeletedStaysDeleted, BgLateOK, BgMayWrite, BgRecordOK, BgTaskOK,
              BgActorOK, BgIdOK, BgKnown, NoLate, TaskOf, Copy
<1>2. ASSUME NEW r \in BgResponseIds, BgProvider(r) PROVE BgInv'
  <2>1. /\ UNCHANGED <<bgRec, bgPending, bgIndex, bgFirst, bgMark, bgBound, bgLate, bgBooks, bgSent, bgSlot, bgCreate, bgAct, bgFaults>>
        /\ bgUp' \in [BgResponseIds -> BgAnswers \cup {"none", "gone"}]
        /\ \A x \in BgResponseIds : bgUp'[x] = "none" <=> bgUp[x] = "none"
    BY <1>2 DEF BgProvider, bgStore, bgSlots, BgInv, BgTypeOK, BgAnswers
  <2>2. BgTypeOK' /\ OneOwner' /\ DeletedStaysDeleted'
    BY <2>1 DEF BgInv, BgTypeOK, OneOwner, DeletedStaysDeleted
  <2>3. (\A w \in bgLate' : BgLateOK(w)') /\ \A t \in BgTasks : BgTaskOK(t)'
    BY <2>1 DEF BgInv, BgLateOK, BgMayWrite, BgRecordOK, BgTaskOK
  <2>4. \A a \in BgActors : BgActorOK(a)'
    BY <2>1 DEF BgInv, BgActorOK, NoLate, TaskOf, Copy
  <2>5. \A x \in BgResponseIds : BgIdOK(x)'
    BY <2>1 DEF BgInv, BgIdOK, BgKnown
  <2> QED
    BY <2>2, <2>3, <2>4, <2>5 DEF BgInv
<1>3. ASSUME NEW t \in BgTasks, RecoverBgReceipt(t) PROVE BgInv'
  <2>1. /\ UNCHANGED <<bgRec, bgPending, bgIndex, bgFirst, bgMark, bgBound, bgLate, bgUp, bgSent, bgSlot, bgCreate, bgAct, bgFaults>>
        /\ bgBooks' \in [BgTasks -> {"none", "stored", "charged"}]
        /\ \A x \in BgTasks : (bgBooks[x] = "charged" => bgBooks'[x] = "charged") /\ (bgBooks[x] = "none" <=> bgBooks'[x] = "none")
    BY <1>3 DEF RecoverBgReceipt, bgStore, bgSlots, BgInv, BgTypeOK
  <2>2. BgTypeOK' /\ OneOwner' /\ DeletedStaysDeleted'
    BY <2>1 DEF BgInv, BgTypeOK, OneOwner, DeletedStaysDeleted
  <2>3. (\A w \in bgLate' : BgLateOK(w)') /\ \A x \in BgTasks : BgTaskOK(x)'
    BY <2>1 DEF BgInv, BgTypeOK, BgLateOK, BgMayWrite, BgRecordOK, BgTaskOK
  <2>4. \A a \in BgActors : BgActorOK(a)'
    BY <2>1 DEF BgInv, BgActorOK, NoLate, TaskOf, Copy, BgOnTask
  <2>5. \A x \in BgResponseIds : BgIdOK(x)'
    BY <2>1 DEF BgInv, BgIdOK, BgKnown
  <2> QED
    BY <2>2, <2>3, <2>4, <2>5 DEF BgInv
<1>4. CASE BgCrash
  <2>1. /\ UNCHANGED <<bgRec, bgPending, bgIndex, bgFirst, bgMark, bgBound, bgLate, bgUp, bgBooks, bgSent>>
        /\ bgSlot' = [t \in BgTasks |-> NoBg] /\ bgCreate' = NoBg /\ BgFault
        /\ \A a \in BgActors : bgAct'[a] = IF a \in BgTasks /\ bgAct[a].pc # "idle" THEN [BgIdle EXCEPT !.pc = "done"] ELSE BgIdle
    BY <1>4 DEF BgCrash, bgStore
  <2>2. bgAct' \in [BgActors -> BgActorType]
    BY <1>4, BgRecords DEF BgCrash
  <2>3. \A a \in BgActors : /\ bgAct'[a].res = NoBg /\ bgAct'[a].pc \in {"idle", "done"}
                            /\ bgAct'[a].pc = "done" => a \in BgTasks
                            /\ a \in BgTasks /\ bgAct'[a].pc = "idle" => bgAct[a].pc = "idle"
    BY <2>1 DEF BgIdle
  <2>4. BgTypeOK' /\ OneOwner' /\ DeletedStaysDeleted'
    BY <2>1, <2>2, BgFaultType DEF BgInv, BgTypeOK, OneOwner, DeletedStaysDeleted, BgActorType
  <2>5. BgTasks \subseteq BgActors
    BY DEF BgActors
  <2>6. \A w \in bgLate' : BgLateOK(w)'
    <3> SUFFICES ASSUME NEW w \in bgLate PROVE BgLateOK(w)'
      BY <2>1
    <3>1. BgLateOK(w) /\ w[1] \in BgTasks /\ w[1] \in BgActors
      BY <2>5 DEF BgInv, BgTypeOK
    <3>2. bgAct'[w[1]].pc \notin BgFresh
      BY <2>3, <3>1 DEF BgLateOK, BgFresh
    <3> QED
      BY <2>1, <3>1, <3>2 DEF BgLateOK, BgMayWrite, BgRecordOK
  <2>7. \A t \in BgTasks : BgTaskOK(t)'
    <3> SUFFICES ASSUME NEW t \in BgTasks PROVE BgTaskOK(t)'
      OBVIOUS
    <3>1. BgTaskOK(t) /\ t \in BgActors
      BY <2>5 DEF BgInv
    <3>2. bgAct'[t].pc \in BgFresh \ {"refused"} => bgSent[t] = 0
      BY <2>3, <3>1 DEF BgTaskOK, BgFresh
    <3> QED
      BY <2>1, <3>1, <3>2 DEF BgTaskOK, BgRecordOK
  <2>8. \A a \in BgActors : BgActorOK(a)'
    <3> SUFFICES ASSUME NEW a \in BgActors PROVE BgActorOK(a)'
      OBVIOUS
    <3>1. a \in BgTasks /\ bgAct'[a].pc \in BgFresh => bgRec[a].res = NoBg
      BY <2>3 DEF BgInv, BgActorOK, BgFresh
    <3>2. bgAct'[a].pc \notin {"count", "save", "post", "refused", "accept"} \cup BgOnTask \cup BgDeleting
      BY <2>3 DEF BgOnTask, BgDeleting
    <3> QED
      BY <2>1, <2>3, <3>1, <3>2 DEF BgActorOK
  <2>9. \A x \in BgResponseIds : BgIdOK(x)'
    <3> SUFFICES ASSUME NEW x \in BgResponseIds PROVE BgIdOK(x)'
      OBVIOUS
    <3>1. BgIdOK(x) /\ x # NoBg
      BY BgAssumption DEF BgInv
    <3>2. \A a \in BgActors : bgAct'[a].res # x
      BY <2>3, <3>1
    <3> QED
      BY <2>1, <3>1, <3>2 DEF BgIdOK, BgKnown
  <2> QED
    BY <2>4, <2>6, <2>7, <2>8, <2>9 DEF BgInv
<1> QED
  BY <1>1, <1>2, <1>3, <1>4

\* The invariant is inductive.
LEMMA BgNextInv == BgInv /\ [BgNext]_bgVars => BgInv'
<1> SUFFICES ASSUME BgInv, [BgNext]_bgVars PROVE BgInv'
  OBVIOUS
<1>1. ASSUME NEW a \in BgActors, SubmitBackground(a) \/ BgStep(a) PROVE BgInv'
  BY <1>1, SubmitBgInv, CountBgInv, RecordBgInv, PostBgInv, RefuseBgInv, AcceptBgInv, ObserveBgInv, SettleBgInv, BindBgInv,
     PublishBgInv, PollBgInv, CancelBgInv, MarkBgInv, RemoveBgInv DEF BgStep
<1>2. ASSUME NEW a \in BgClients, NEW r \in BgResponseIds, NEW goal \in {"read", "cancel"}, LookUpBackground(a, goal, r) PROVE BgInv'
  BY <1>2, LookUpBgInv DEF LookUpBackground
<1>3. ASSUME NEW a \in BgClients, NEW r \in BgResponseIds, DeleteResponse(a, r) PROVE BgInv'
  BY <1>3, DeleteBgInv
<1>4. ASSUME NEW t \in BgTasks, WorkBackground(t) \/ ExpireBackground(t) PROVE BgInv'
  BY <1>4, WorkBgInv, ExpireBgInv
<1>5. ASSUME NEW w \in bgLate, LateSave(w[1], w[2]) PROVE BgInv'
  BY <1>5, LateSaveInv
<1> QED
  BY <1>1, <1>2, <1>3, <1>4, <1>5, BgWorldInv DEF BgNext

\* It holds in every behaviour.
LEMMA BgInvariance == BgSpec => []BgInv
  BY BgInitInv, BgNextInv, PTL DEF BgSpec

\* A save that comes late changes neither whether a response exists nor whose
\* it is, for any tasks, clients, ids and faults.
THEOREM ResponsesStay == BgSpec => []ResponsesStayPut
<1>1. BgInv => ResponsesStayPut
  BY DEF BgInv, ResponsesStayPut
<1> QED
  BY <1>1, BgInvariance, PTL

BgCharges == [t \in BgTasks |-> bgBooks[t] = "charged"]

\* A save publishes the first outcome of an open task, or none.
LEMMA BgSaveEnds ==
  ASSUME BgInv, BgInv', NEW t \in BgTasks, NEW rec, SaveBackgroundResponse(t, rec), UNCHANGED <<bgBooks, bgSent>>
  PROVE  [Bg!Next]_(Bg!taskVars)
<1>1. BgCharges' = BgCharges
  BY DEF BgCharges
<1>2. CASE ~(rec.stage = "terminal" /\ bgFirst[t] = "open")
  BY <1>1, <1>2 DEF SaveBackgroundResponse, Bg!taskVars, BgCharges
<1>3. CASE rec.stage = "terminal" /\ bgFirst[t] = "open"
  <2>1. PICK o \in {"result", "failure"} : o = BgOutcome(rec) /\ bgFirst' = [bgFirst EXCEPT ![t] = o]
    BY <1>3 DEF SaveBackgroundResponse, BgOutcome
  <2>2. bgRec'[t] = rec
    BY DEF SaveBackgroundResponse, BgInv, BgTypeOK
  <2>3. BgTaskOK(t)'
    BY DEF BgInv
  <2>4. o = "result" => bgSent[t] = 1 /\ BgCharges[t]
    BY <1>3, <2>1, <2>2, <2>3 DEF BgTaskOK, BgRecordOK, BgOutcome, BgCharges
  <2>5. Bg!End(t, o)
    BY <1>1, <1>3, <2>1, <2>4 DEF Bg!End, BgCharges
  <2> QED
    BY <2>1, <2>5 DEF Bg!Next
<1> QED
  BY <1>2, <1>3

\* A receipt that is stored or charged is a charge of the task, or nothing.
LEMMA BgBooked ==
  ASSUME BgInv, NEW t \in BgTasks, NEW b, bgBooks' = [bgBooks EXCEPT ![t] = b],
         bgSent[t] = 1, bgBooks[t] = "charged" => b = "charged", UNCHANGED <<bgFirst, bgSent>>
  PROVE  [Bg!Next]_(Bg!taskVars)
<1>1. CASE b = "charged"
  <2>1. BgCharges' = [BgCharges EXCEPT ![t] = TRUE]
    BY <1>1 DEF BgCharges, BgInv, BgTypeOK
  <2>2. Bg!Charge(t)
    BY <2>1 DEF Bg!Charge, BgCharges
  <2> QED
    BY <2>2 DEF Bg!Next
<1>2. CASE b # "charged"
  <2>1. BgCharges' = BgCharges
    BY <1>2 DEF BgCharges, BgInv, BgTypeOK
  <2> QED
    BY <2>1 DEF Bg!taskVars, BgCharges
<1> QED
  BY <1>1, <1>2

\* Every step is a step of the paid task or changes nothing it speaks of.
LEMMA BgStepSimulation == BgInv /\ BgInv' /\ [BgNext]_bgVars => [Bg!Next]_(Bg!taskVars)
<1> SUFFICES ASSUME BgInv, BgInv', [BgNext]_bgVars PROVE [Bg!Next]_(Bg!taskVars)
  OBVIOUS
<1>1. ASSUME UNCHANGED <<bgFirst, bgSent, bgBooks>> PROVE UNCHANGED Bg!taskVars
  BY <1>1 DEF Bg!taskVars
<1>2. ASSUME NEW a \in BgActors,
             RecordBackground(a) \/ RefuseBackground(a) \/ AcceptBackground(a) \/ ObserveBackground(a) \/ PublishBackground(a)
      PROVE  [Bg!Next]_(Bg!taskVars)
  <2>1. TaskOf(a) \in BgTasks /\ (bgAct[a].pc \in {"save", "refused"} => TaskOf(a) = a) /\ UNCHANGED <<bgSent, bgBooks>>
    <3>1. bgAct[a].pc \in {"save", "refused", "accept"} \cup BgOnTask
      BY <1>2 DEF RecordBackground, RefuseBackground, AcceptBackground, ObserveBackground, PublishBackground, BgOnTask
    <3>2. BgActorOK(a)
      BY DEF BgInv
    <3> QED
      BY <1>2, <3>1, <3>2 DEF BgActorOK, RecordBackground, RefuseBackground, AcceptBackground, ObserveBackground, PublishBackground
  <2>2. UNCHANGED bgStore \/ \E rec : SaveBackgroundResponse(TaskOf(a), rec)
    <3>1. CASE RecordBackground(a) \/ RefuseBackground(a)
      BY <2>1, <3>1 DEF RecordBackground, RefuseBackground, SaveBackgroundFails
    <3>2. CASE AcceptBackground(a)
      BY <3>2 DEF AcceptBackground, SaveBackgroundFails
    <3>3. CASE ObserveBackground(a)
      BY <3>3 DEF ObserveBackground, SaveBackgroundFails
    <3>4. CASE PublishBackground(a)
      BY <3>4 DEF PublishBackground, SaveBackgroundFails
    <3> QED
      BY <1>2, <3>1, <3>2, <3>3, <3>4
  <2>3. CASE UNCHANGED bgStore
    BY <1>1, <2>1, <2>3 DEF bgStore
  <2>4. CASE \E rec : SaveBackgroundResponse(TaskOf(a), rec)
    <3>1. PICK t, rec : t \in BgTasks /\ t = TaskOf(a) /\ SaveBackgroundResponse(t, rec)
      BY <2>1, <2>4
    <3> QED
      BY <2>1, <3>1, BgSaveEnds
  <2> QED
    BY <2>2, <2>3, <2>4
<1>3. ASSUME NEW w \in bgLate, LateSave(w[1], w[2]) PROVE [Bg!Next]_(Bg!taskVars)
  <2>1. PICK t, rec : t \in BgTasks /\ t = w[1] /\ rec = w[2]
    BY DEF BgInv, BgTypeOK
  <2>2. CASE UNCHANGED bgStore
    BY <1>1, <1>3, <2>2 DEF LateSave, bgStore
  <2>3. CASE SaveBackgroundResponse(t, rec)
    BY <1>3, <2>1, <2>3, BgSaveEnds DEF LateSave
  <2> QED
    BY <1>3, <2>1, <2>2, <2>3 DEF LateSave
<1>4. ASSUME NEW a \in BgActors, PostBackground(a) PROVE Bg!Next
  <2>1. a \in BgTasks /\ bgSent[a] = 0 /\ bgFirst[a] = "open"
    <3>1. bgAct[a].pc = "post" /\ BgActorOK(a)
      BY <1>4 DEF PostBackground, BgInv
    <3>2. a \in BgTasks
      BY <3>1 DEF BgActorOK
    <3> QED
      BY <3>1, <3>2 DEF BgInv, BgTaskOK, BgFresh
  <2>2. bgSent' = [bgSent EXCEPT ![a] = 1] /\ UNCHANGED <<bgFirst, bgBooks>>
    <3>1. bgSent' = [bgSent EXCEPT ![a] = bgSent[a] + 1]
      BY <1>4 DEF PostBackground
    <3>2. bgSent[a] + 1 = 1
      BY <2>1
    <3> QED
      BY <1>4, <3>1, <3>2 DEF PostBackground, bgStore
  <2>3. Bg!Send(a)
    BY <2>1, <2>2 DEF Bg!Send
  <2> QED
    BY <2>1, <2>3 DEF Bg!Next
<1>5. ASSUME NEW a \in BgActors, SettleBackground(a) PROVE [Bg!Next]_(Bg!taskVars)
  <2>1. TaskOf(a) \in BgTasks /\ bgSent[TaskOf(a)] = 1 /\ UNCHANGED <<bgFirst, bgSent>>
    BY <1>5, BgHeld DEF SettleBackground, BgOnTask, bgStore
  <2>2. PICK b \in {"none", "stored", "charged"} :
          bgBooks' = [bgBooks EXCEPT ![TaskOf(a)] = b] /\ (bgBooks[TaskOf(a)] = "charged" => b = "charged")
    BY <1>5, <2>1 DEF SettleBackground, BgInv, BgTypeOK
  <2>3. PICK t \in BgTasks : t = TaskOf(a)
    BY <2>1
  <2> QED
    BY <2>1, <2>2, <2>3, BgBooked
<1>6. ASSUME NEW t \in BgTasks, RecoverBgReceipt(t) PROVE [Bg!Next]_(Bg!taskVars)
  <2>1. bgSent[t] = 1 /\ bgBooks' = [bgBooks EXCEPT ![t] = "charged"] /\ UNCHANGED <<bgFirst, bgSent>>
    BY <1>6 DEF RecoverBgReceipt, BgInv, BgTaskOK, bgStore
  <2> QED
    BY <2>1, BgBooked
<1>7. ASSUME UNCHANGED bgVars \/ BgCrash \/ (\E r \in BgResponseIds : BgProvider(r)) \/ (\E t \in BgTasks : WorkBackground(t) \/ ExpireBackground(t))
             \/ (\E a \in BgClients, r \in BgResponseIds : DeleteResponse(a, r) \/ \E goal \in {"read", "cancel"} : LookUpBackground(a, goal, r))
      PROVE  UNCHANGED Bg!taskVars
  BY <1>1, <1>7 DEF bgVars, bgStore, BgCrash, BgProvider, WorkBackground, ExpireBackground, DeleteResponse, LookUpBackground
<1>8. ASSUME NEW a \in BgActors,
             SubmitBackground(a) \/ CountBackground(a) \/ BindBackground(a) \/ PollBackground(a) \/ CancelBackground(a)
             \/ MarkDeletion(a) \/ RemoveResponse(a)
      PROVE  UNCHANGED Bg!taskVars
  BY <1>1, <1>8 DEF bgStore, SubmitBackground, CountBackground, BindBackground, PollBackground, CancelBackground, MarkDeletion, RemoveResponse
<1> QED
  BY <1>2, <1>3, <1>4, <1>5, <1>6, <1>7, <1>8 DEF BgNext, BgStep

\* A background response is a paid task, for any tasks, clients, ids and faults.
THEOREM BackgroundIsPaid == BgSpec => BgImplementsPaidTask
<1>1. BgInit => Bg!Init
  BY DEF BgInit, Bg!Init
<1> QED
  BY <1>1, BgStepSimulation, BgInvariance, PTL DEF BgSpec, BgImplementsPaidTask, Bg!Spec

-----------------------------------------------------------------------------
(* The three kinds together                                                *)

\* A behaviour of the composition is one of each kind.
LEMMA TasksCompose == TasksSpec => ImageSpec /\ BgSpec /\ VideoSpec
<1>1. TasksInit => ImageInit /\ BgInit /\ VideoInit
  BY DEF TasksInit
<1>2. [TasksNext]_<<focus, imgVars, bgVars, vidVars>> => [ImageNext]_imgVars /\ [BgNext]_bgVars /\ [VideoNext]_vidVars
  BY DEF TasksNext
<1> QED
  BY <1>1, <1>2, PTL DEF TasksSpec, ImageSpec, BgSpec, VideoSpec

\* Image tasks, background responses and video tasks are paid tasks: sent
\* once, and a result is published only when it is charged, and stands.
THEOREM TasksArePaid == TasksSpec => ImplementPaidTask
  BY TasksCompose, ImageTaskIsPaid, BackgroundIsPaid, VideoTaskIsPaid DEF ImplementPaidTask

\* The pending sets are the tasks in progress, within their caps, and no video
\* that may be billed is without its record.
THEOREM TasksAreAccounted == TasksSpec => []TasksAccounted
<1>1. ImageInv /\ BgInv /\ VideoInv => TasksAccounted
  BY DEF ImageInv, BgInv, VideoInv, TasksAccounted
<1> QED
  BY <1>1, TasksCompose, ImageInvariance, BgInvariance, VideoInvariance, PTL

\* Among the other tasks too, a late save brings no deleted response back and
\* gives none to another task.
THEOREM TasksStayPut == TasksSpec => []ResponsesStayPut
  BY TasksCompose, ResponsesStay
=============================================================================
