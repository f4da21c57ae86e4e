------------------------ MODULE BackgroundResponses ------------------------
(***************************************************************************)
(* Background responses (internal/app/responses_background.go and          *)
(* responses_delete.go): a submission is recorded before it is sent; the   *)
(* worker and clients poll, cancel and stream it until its usage is        *)
(* settled; a client may delete the provider's response.                   *)
(*                                                                         *)
(* An actor is a submitting handler, a client's handler or the worker.     *)
(* Its copy of the task is what it loaded under the slot background:<id>,  *)
(* which it holds until it returns.  A save that timed out may reach Redis *)
(* at any later time.                                                      *)
(***************************************************************************)
EXTENDS Naturals, FiniteSets

CONSTANTS
    BgTasks,        \* submissions; each is also the actor that makes it
    BgClients,      \* handlers of look-ups, cancellations and deletions
    BgWorker,
    BgResponseIds,  \* ids the provider gives to responses
    BgCap,          \* 32 in the code
    MaxBgFaults,
    NoBg

BgActors == BgTasks \cup BgClients \cup {BgWorker}

ASSUME BgAssumption ==
    /\ IsFiniteSet(BgTasks) /\ BgCap \in Nat \ {0} /\ MaxBgFaults \in Nat
    /\ BgTasks \cap BgClients = {} /\ BgWorker \notin BgTasks \cup BgClients
    /\ NoBg \notin BgActors \cup BgResponseIds

VARIABLES
    bgRec,      \* the task records
    bgPending,  \* the set gateway:background:pending
    bgIndex,    \* owner index: response to task
    bgMark,     \* deletion marker of a response
    bgBound,    \* responses with a binding
    bgLate,     \* saves that timed out and may still arrive
    bgBooks,    \* where the receipt of a task is
    bgSent,     \* how often a task was sent
    bgUp,       \* the provider's responses
    bgFirst,    \* history: the outcome that was published first
    bgSlot,     \* holder of the slot of a task
    bgCreate,   \* holder of the slot background-create
    bgAct,      \* the actors: control, purpose, task, copy and answer
    bgFaults

bgStore == <<bgRec, bgPending, bgIndex, bgFirst>>
bgSlots == <<bgSlot, bgCreate>>
bgVars == <<bgStore, bgMark, bgBound, bgLate, bgBooks, bgSent, bgUp, bgSlots, bgAct, bgFaults>>

BgStages == {"none", "submitting", "pending", "settling", "terminal"}
BgAnswers == {"working", "good", "costly", "void"}
BgRecord == [stage : BgStages, res : BgResponseIds \cup {NoBg}, end : BgAnswers]
NoRecord == [stage |-> "none", res |-> NoBg, end |-> "working"]
BgLabels == {"idle", "done", "count", "save", "post", "refused", "accept", "observe", "settle", "bind", "publish",
             "poll", "cancel", "mark", "remove"}
BgIdle == [pc |-> "idle", goal |-> "read", task |-> NoBg, res |-> NoBg, copy |-> NoRecord, ans |-> "working"]

BgTypeOK ==
    /\ bgRec \in [BgTasks -> BgRecord]
    /\ bgPending \subseteq BgTasks
    /\ bgIndex \in [BgResponseIds -> BgTasks \cup {NoBg}]
    /\ bgMark \in [BgResponseIds -> {"none", "intent", "done"}]
    /\ bgBound \subseteq BgResponseIds
    /\ bgLate \subseteq BgTasks \X BgRecord
    /\ bgBooks \in [BgTasks -> {"none", "stored", "charged"}]
    /\ bgSent \in [BgTasks -> Nat]
    /\ bgUp \in [BgResponseIds -> BgAnswers \cup {"none", "gone"}]
    /\ bgFirst \in [BgTasks -> {"open", "result", "failure"}]
    /\ bgSlot \in [BgTasks -> BgActors \cup {NoBg}]
    /\ bgCreate \in BgTasks \cup {NoBg}
    /\ bgAct \in [BgActors -> [pc : BgLabels, goal : {"submit", "read", "cancel", "delete"}, task : BgTasks \cup {NoBg},
                               res : BgResponseIds \cup {NoBg}, copy : BgRecord, ans : BgAnswers]]
    /\ bgFaults \in 0..MaxBgFaults

BgInit ==
    /\ bgRec = [t \in BgTasks |-> NoRecord]
    /\ bgPending = {} /\ bgBound = {} /\ bgLate = {}
    /\ bgIndex = [r \in BgResponseIds |-> NoBg]
    /\ bgMark = [r \in BgResponseIds |-> "none"]
    /\ bgBooks = [t \in BgTasks |-> "none"]
    /\ bgSent = [t \in BgTasks |-> 0]
    /\ bgUp = [r \in BgResponseIds |-> "none"]
    /\ bgFirst = [t \in BgTasks |-> "open"]
    /\ bgSlot = [t \in BgTasks |-> NoBg] /\ bgCreate = NoBg
    /\ bgAct = [a \in BgActors |-> BgIdle]
    /\ bgFaults = 0

BgFault == bgFaults < MaxBgFaults /\ bgFaults' = bgFaults + 1
BgFine == UNCHANGED bgFaults

-----------------------------------------------------------------------------
(* Redis                                                                   *)

\* Mutant: the deletion marker is not looked at.
MaySaveDeleted(t, rec) == rec.res # NoBg => bgIndex[rec.res] \in {NoBg, t}

\* The conditions of the script of saveBackgroundResponse.
MaySave(t, rec) == rec.res # NoBg => bgMark[rec.res] = "none" /\ bgIndex[rec.res] \in {NoBg, t}

BgOutcome(rec) == IF rec.end = "good" THEN "result" ELSE "failure"

\* One script writes the record, the owner index and the pending set.
SaveBackgroundResponse(t, rec) ==
    /\ MaySave(t, rec)
    /\ bgRec' = [bgRec EXCEPT ![t] = rec]
    /\ bgIndex' = IF rec.res = NoBg THEN bgIndex ELSE [bgIndex EXCEPT ![rec.res] = t]
    /\ bgPending' = IF rec.stage = "terminal" THEN bgPending \ {t} ELSE bgPending \cup {t}
    /\ bgFirst' = IF rec.stage = "terminal" /\ bgFirst[t] = "open"
                  THEN [bgFirst EXCEPT ![t] = BgOutcome(rec)] ELSE bgFirst

\* A save that reports an error was refused, is lost, or happens now or later.
SaveBackgroundFails(t, rec) ==
    \/ ~MaySave(t, rec) /\ BgFine /\ UNCHANGED <<bgStore, bgLate>>
    \/ BgFault /\ SaveBackgroundResponse(t, rec) /\ UNCHANGED bgLate
    \/ BgFault /\ UNCHANGED bgStore /\ bgLate' \in {bgLate, bgLate \cup {<<t, rec>>}}

LateSave(t, rec) ==
    /\ <<t, rec>> \in bgLate /\ bgLate' = bgLate \ {<<t, rec>>}
    /\ SaveBackgroundResponse(t, rec) \/ (~MaySave(t, rec) /\ UNCHANGED bgStore)
    /\ UNCHANGED <<bgMark, bgBound, bgBooks, bgSent, bgUp, bgSlots, bgAct, bgFaults>>

-----------------------------------------------------------------------------
(* Control of an actor                                                     *)

Copy(a) == bgAct[a].copy
TaskOf(a) == bgAct[a].task

BgGoto(a, label) == bgAct' = [bgAct EXCEPT ![a].pc = label]
BgKeep(a, label, rec) == bgAct' = [bgAct EXCEPT ![a].pc = label, ![a].copy = rec]

\* The handler returns; its deferred calls release its slots.
BgReturn(a) ==
    /\ bgAct' = [bgAct EXCEPT ![a] = [BgIdle EXCEPT !.pc = IF a \in BgTasks THEN "done" ELSE "idle"]]
    /\ bgSlot' = [t \in BgTasks |-> IF bgSlot[t] = a THEN NoBg ELSE bgSlot[t]]
    /\ bgCreate' = IF bgCreate = a THEN NoBg ELSE bgCreate

\* Where a settled task leads: deletion goes on, all others answer.
BgSettled(a) ==
    IF bgAct[a].goal = "delete" THEN BgGoto(a, "mark") /\ UNCHANGED bgSlots ELSE BgReturn(a)

-----------------------------------------------------------------------------
(* Submission                                                              *)

SubmitBackground(a) ==
    /\ a \in BgTasks /\ bgAct[a].pc = "idle"
    /\ IF bgCreate = NoBg
       THEN /\ bgCreate' = a /\ UNCHANGED bgSlot
            /\ bgAct' = [bgAct EXCEPT ![a].pc = "count", ![a].goal = "submit", ![a].task = a]
       ELSE BgReturn(a)
    /\ UNCHANGED <<bgStore, bgMark, bgBound, bgLate, bgBooks, bgSent, bgUp, bgFaults>>

CountBackground(a) ==
    /\ bgAct[a].pc = "count"
    /\ IF Cardinality(bgPending) < BgCap
       THEN /\ bgSlot' = [bgSlot EXCEPT ![a] = a] /\ UNCHANGED bgCreate
            /\ BgKeep(a, "save", [NoRecord EXCEPT !.stage = "submitting"])
       ELSE BgReturn(a)
    /\ UNCHANGED <<bgStore, bgMark, bgBound, bgLate, bgBooks, bgSent, bgUp, bgFaults>>

RecordBackground(a) ==
    /\ bgAct[a].pc = "save"
    /\ \/ SaveBackgroundResponse(a, Copy(a)) /\ BgFine /\ BgGoto(a, "post")
          /\ bgCreate' = NoBg /\ UNCHANGED <<bgSlot, bgLate>>
       \/ SaveBackgroundFails(a, Copy(a)) /\ BgReturn(a)
    /\ UNCHANGED <<bgMark, bgBound, bgBooks, bgSent, bgUp>>

\* Ids of the provider: an id it uses twice is still indexed or marked here,
\* as it does not reuse one after the record of ten minutes has expired.
PossibleId(r) == bgUp[r] = "none" \/ bgIndex[r] # NoBg \/ bgMark[r] # "none"

\* The provider accepts the task under some id, refuses it for sure, or
\* leaves the outcome unknown; then the record stays in stage submitting.
PostBackground(a) ==
    /\ bgAct[a].pc = "post" /\ bgSent' = [bgSent EXCEPT ![a] = @ + 1]
    /\ \/ \E r \in BgResponseIds :
            /\ PossibleId(r) /\ bgUp' = [bgUp EXCEPT ![r] = IF @ \in {"none", "gone"} THEN "working" ELSE @]
            /\ bgAct' = [bgAct EXCEPT ![a].pc = "accept", ![a].res = r, ![a].ans = bgUp'[r]]
            /\ BgFine /\ UNCHANGED bgSlots
       \/ BgFine /\ BgKeep(a, "refused", [NoRecord EXCEPT !.stage = "terminal", !.end = "void"])
          /\ UNCHANGED <<bgUp, bgSlots>>
       \/ BgFault /\ BgReturn(a) /\ UNCHANGED bgUp
    /\ UNCHANGED <<bgStore, bgMark, bgBound, bgLate, bgBooks>>

RefuseBackground(a) ==
    /\ bgAct[a].pc = "refused"
    /\ \/ SaveBackgroundResponse(a, Copy(a)) /\ BgFine /\ UNCHANGED bgLate
       \/ SaveBackgroundFails(a, Copy(a))
    /\ BgReturn(a)
    /\ UNCHANGED <<bgMark, bgBound, bgBooks, bgSent, bgUp>>

-----------------------------------------------------------------------------
(* observeBackgroundResponse and settleBackgroundResponse                  *)

\* The identity is recorded before the answer is interpreted; a response with
\* another id than the task's is refused.
AcceptBackground(a) ==
    /\ bgAct[a].pc = "accept"
    /\ LET r == bgAct[a].res
           rec == [Copy(a) EXCEPT !.stage = "pending", !.res = r] IN
       \/ Copy(a).res = r /\ BgGoto(a, "observe") /\ BgFine /\ UNCHANGED <<bgStore, bgLate, bgSlots>>
       \/ Copy(a).res \notin {r, NoBg} /\ BgReturn(a) /\ BgFine /\ UNCHANGED <<bgStore, bgLate>>
       \/ /\ Copy(a).res = NoBg
          /\ \/ SaveBackgroundResponse(TaskOf(a), rec) /\ BgKeep(a, "observe", rec)
                /\ BgFine /\ UNCHANGED <<bgLate, bgSlots>>
             \/ SaveBackgroundFails(TaskOf(a), rec) /\ BgReturn(a)
    /\ UNCHANGED <<bgMark, bgBound, bgBooks, bgSent, bgUp>>

\* Unfinished: save what is public and answer, or read on if the client
\* streams.  Finished: checkpoint the receipt.  An answer that cannot be read
\* or has no usage leaves the task pending.
ObserveBackground(a) ==
    /\ bgAct[a].pc = "observe"
    /\ LET ans == bgAct[a].ans
           rec == [Copy(a) EXCEPT !.stage = IF ans = "working" THEN "pending" ELSE "settling", !.end = ans] IN
       \/ /\ SaveBackgroundResponse(TaskOf(a), rec) /\ BgFine /\ UNCHANGED bgLate
          /\ \/ ans = "working" /\ BgReturn(a)
             \/ ans = "working" /\ bgAct[a].goal # "delete" /\ BgKeep(a, "poll", rec) /\ UNCHANGED bgSlots
             \/ ans # "working" /\ BgKeep(a, "settle", rec) /\ UNCHANGED bgSlots
       \/ SaveBackgroundFails(TaskOf(a), rec) /\ BgReturn(a)
       \/ BgFault /\ BgReturn(a) /\ UNCHANGED <<bgStore, bgLate>>
    /\ UNCHANGED <<bgMark, bgBound, bgBooks, bgSent, bgUp>>

\* saveReceipt, for a task that consumed anything.
SettleBackground(a) ==
    /\ bgAct[a].pc = "settle"
    /\ LET t == TaskOf(a) IN
       \/ Copy(a).end = "void" /\ BgGoto(a, "bind") /\ BgFine /\ UNCHANGED <<bgBooks, bgSlots>>
       \/ /\ Copy(a).end # "void" /\ BgFine
          /\ bgBooks' = [bgBooks EXCEPT ![t] = "charged"] /\ BgGoto(a, "bind") /\ UNCHANGED bgSlots
       \/ /\ Copy(a).end # "void" /\ BgFault /\ BgReturn(a)
          /\ \E b \in {bgBooks[t], "charged"} \cup (IF bgBooks[t] = "none" THEN {"stored"} ELSE {}) :
                bgBooks' = [bgBooks EXCEPT ![t] = b]
    /\ UNCHANGED <<bgStore, bgMark, bgBound, bgLate, bgSent, bgUp>>

\* storeResponseBinding refuses a response with a deletion marker.
BindBackground(a) ==
    /\ bgAct[a].pc = "bind"
    /\ \/ Copy(a).end # "good" /\ BgGoto(a, "publish") /\ BgFine /\ UNCHANGED <<bgBound, bgSlots>>
       \/ /\ Copy(a).end = "good" /\ bgMark[Copy(a).res] = "none"
          /\ bgBound' = bgBound \cup {Copy(a).res} /\ BgGoto(a, "publish") /\ BgFine /\ UNCHANGED bgSlots
       \/ Copy(a).end = "good" /\ bgMark[Copy(a).res] # "none" /\ BgReturn(a) /\ BgFine /\ UNCHANGED bgBound
       \/ Copy(a).end = "good" /\ BgFault /\ BgReturn(a) /\ UNCHANGED bgBound
    /\ UNCHANGED <<bgStore, bgMark, bgLate, bgBooks, bgSent, bgUp>>

PublishBackground(a) ==
    /\ bgAct[a].pc = "publish"
    /\ LET rec == [Copy(a) EXCEPT !.stage = "terminal"] IN
       \/ SaveBackgroundResponse(TaskOf(a), rec) /\ BgFine /\ UNCHANGED bgLate /\ BgSettled(a)
       \/ SaveBackgroundFails(TaskOf(a), rec) /\ BgReturn(a)
    /\ UNCHANGED <<bgMark, bgBound, bgBooks, bgSent, bgUp>>

-----------------------------------------------------------------------------
(* Polling, cancellation and the worker                                    *)

\* refreshBackgroundResponse by stage, under the slot.  A submitting task
\* is never sent again.
RefreshEntry(a, goal, rec) ==
    CASE rec.stage = "terminal" -> IF goal = "delete" THEN "mark" ELSE "return"
      [] rec.stage = "settling" -> "settle"
      [] rec.stage = "pending" -> IF goal = "cancel" THEN "cancel" ELSE "poll"
      [] OTHER -> "return"

Enter(a, goal, t, r) ==
    LET label == RefreshEntry(a, goal, bgRec[t]) IN
    IF label = "return"
    THEN UNCHANGED <<bgAct, bgSlots>>
    ELSE /\ bgAct' = [bgAct EXCEPT ![a] = [pc |-> label, goal |-> goal, task |-> t, res |-> r,
                                           copy |-> bgRec[t], ans |-> "working"]]
         /\ bgSlot' = [bgSlot EXCEPT ![t] = a] /\ UNCHANGED bgCreate

\* backgroundResponseLookup: a deleted response is not found, a busy one in
\* conflict.
LookUpBackground(a, goal, r) ==
    /\ a \in BgClients /\ bgAct[a].pc = "idle"
    /\ bgMark[r] = "none" /\ bgIndex[r] # NoBg /\ bgSlot[bgIndex[r]] = NoBg
    /\ Enter(a, goal, bgIndex[r], r)
    /\ UNCHANGED <<bgStore, bgMark, bgBound, bgLate, bgBooks, bgSent, bgUp, bgFaults>>

\* The worker's pass takes pending tasks in any order and skips busy ones.
WorkBackground(t) ==
    /\ bgAct[BgWorker].pc = "idle" /\ t \in bgPending /\ bgSlot[t] = NoBg
    /\ Enter(BgWorker, "read", t, bgRec[t].res)
    /\ UNCHANGED <<bgStore, bgMark, bgBound, bgLate, bgBooks, bgSent, bgUp, bgFaults>>

\* The provider answers a query, unless it fails, the account was changed or
\* the response is gone.
PollBackground(a) ==
    /\ bgAct[a].pc = "poll"
    /\ LET up == bgUp[Copy(a).res] IN
       \/ /\ up \in BgAnswers /\ BgFine
          /\ bgAct' = [bgAct EXCEPT ![a].pc = "accept", ![a].ans = up, ![a].res = Copy(a).res]
          /\ UNCHANGED bgSlots
       \/ up \notin BgAnswers /\ BgFine /\ BgReturn(a)
       \/ BgFault /\ BgReturn(a)
    /\ UNCHANGED <<bgStore, bgMark, bgBound, bgLate, bgBooks, bgSent, bgUp>>

\* The provider cancels a working response, with or without usage.
CancelBackground(a) ==
    /\ bgAct[a].pc = "cancel"
    /\ LET r == Copy(a).res IN
       \/ /\ bgUp[r] \in BgAnswers /\ BgFine /\ UNCHANGED bgSlots
          /\ \E up \in IF bgUp[r] = "working" THEN {"costly", "void"} ELSE {bgUp[r]} :
                /\ bgUp' = [bgUp EXCEPT ![r] = up]
                /\ bgAct' = [bgAct EXCEPT ![a].pc = "accept", ![a].ans = up, ![a].res = r]
       \/ ((bgUp[r] \notin BgAnswers /\ BgFine) \/ BgFault) /\ BgReturn(a) /\ UNCHANGED bgUp
    /\ UNCHANGED <<bgStore, bgMark, bgBound, bgLate, bgBooks, bgSent>>

-----------------------------------------------------------------------------
(* Deletion                                                                *)

\* deleteResponseResource: a marked response is deleted again with its stored
\* source; otherwise its task is settled first, or its binding is the source.
DeleteResponse(a, r) ==
    /\ a \in BgClients /\ bgAct[a].pc = "idle"
    /\ \A b \in BgClients : ~(bgAct[b].goal = "delete" /\ bgAct[b].res = r)
    /\ LET t == bgIndex[r] IN
       \/ /\ bgMark[r] = "none" /\ t # NoBg /\ bgSlot[t] = NoBg
          /\ Enter(a, "delete", t, r)
       \/ /\ bgMark[r] = "intent" \/ (bgMark[r] = "none" /\ t = NoBg /\ r \in bgBound)
          /\ t # NoBg => bgSlot[t] = NoBg
          /\ bgAct' = [bgAct EXCEPT ![a] = [BgIdle EXCEPT !.pc = "mark", !.goal = "delete", !.res = r, !.task = t]]
          /\ bgSlot' = IF t = NoBg THEN bgSlot ELSE [bgSlot EXCEPT ![t] = a]
          /\ UNCHANGED bgCreate
    /\ UNCHANGED <<bgStore, bgMark, bgBound, bgLate, bgBooks, bgSent, bgUp, bgFaults>>

\* The intent is stored before the provider is asked.
MarkDeletion(a) ==
    /\ bgAct[a].pc = "mark"
    /\ LET r == bgAct[a].res IN
       \/ bgMark' = [bgMark EXCEPT ![r] = "intent"] /\ BgGoto(a, "remove") /\ BgFine /\ UNCHANGED bgSlots
       \/ BgFault /\ BgReturn(a) /\ bgMark' \in {bgMark, [bgMark EXCEPT ![r] = "intent"]}
    /\ UNCHANGED <<bgStore, bgBound, bgLate, bgBooks, bgSent, bgUp>>

\* The provider deletes the response, or has none; then one script removes
\* everything that leads to it.
RemoveResponse(a) ==
    /\ bgAct[a].pc = "remove" /\ BgReturn(a)
    /\ LET r == bgAct[a].res
           t == TaskOf(a) IN
       \/ /\ bgUp' = [bgUp EXCEPT ![r] = "gone"] /\ BgFine
          /\ bgMark' = [bgMark EXCEPT ![r] = "done"]
          /\ bgBound' = bgBound \ {r} /\ bgIndex' = [bgIndex EXCEPT ![r] = NoBg]
          /\ bgRec' = IF t = NoBg THEN bgRec ELSE [bgRec EXCEPT ![t] = NoRecord]
          /\ bgPending' = bgPending \ {t} /\ UNCHANGED bgFirst
       \/ /\ BgFault /\ bgUp' \in {bgUp, [bgUp EXCEPT ![r] = "gone"]}
          /\ UNCHANGED <<bgStore, bgMark, bgBound>>
    /\ UNCHANGED <<bgLate, bgBooks, bgSent>>

-----------------------------------------------------------------------------
(* The rest of the world                                                   *)

BgProvider(r) ==
    /\ bgUp[r] = "working" /\ \E up \in {"good", "costly", "void"} : bgUp' = [bgUp EXCEPT ![r] = up]
    /\ UNCHANGED <<bgStore, bgMark, bgBound, bgLate, bgBooks, bgSent, bgSlots, bgAct, bgFaults>>

RecoverBgReceipt(t) ==
    /\ bgBooks[t] = "stored" /\ bgBooks' = [bgBooks EXCEPT ![t] = "charged"]
    /\ UNCHANGED <<bgStore, bgMark, bgBound, bgLate, bgSent, bgUp, bgSlots, bgAct, bgFaults>>

\* A settled record and its index expire, after ten minutes at least; no save
\* and no call about its response takes that long.
ExpireBackground(t) ==
    /\ bgRec[t].stage = "terminal" /\ bgSlot[t] = NoBg
    /\ \A w \in bgLate : w[1] # t /\ (w[2].res = NoBg \/ w[2].res # bgRec[t].res)
    /\ \A a \in BgActors : bgAct[a].res = NoBg \/ bgAct[a].res # bgRec[t].res
    /\ bgRec' = [bgRec EXCEPT ![t] = NoRecord]
    /\ bgIndex' = [r \in BgResponseIds |-> IF bgIndex[r] = t THEN NoBg ELSE bgIndex[r]]
    /\ UNCHANGED <<bgPending, bgFirst, bgMark, bgBound, bgLate, bgBooks, bgSent, bgUp, bgSlots, bgAct, bgFaults>>

\* The process dies and is started again.
BgCrash ==
    /\ \E a \in BgActors : bgAct[a].pc \notin {"idle", "done"}
    /\ BgFault
    /\ bgAct' = [a \in BgActors |-> IF a \in BgTasks /\ bgAct[a].pc # "idle" THEN [BgIdle EXCEPT !.pc = "done"] ELSE BgIdle]
    /\ bgSlot' = [t \in BgTasks |-> NoBg] /\ bgCreate' = NoBg
    /\ UNCHANGED <<bgStore, bgMark, bgBound, bgLate, bgBooks, bgSent, bgUp>>

BgStep(a) ==
    \/ CountBackground(a) \/ RecordBackground(a) \/ PostBackground(a) \/ RefuseBackground(a)
    \/ AcceptBackground(a) \/ ObserveBackground(a) \/ SettleBackground(a) \/ BindBackground(a)
    \/ PublishBackground(a) \/ PollBackground(a) \/ CancelBackground(a) \/ MarkDeletion(a) \/ RemoveResponse(a)

BgNext ==
    \/ \E a \in BgActors : SubmitBackground(a) \/ BgStep(a)
    \/ \E a \in BgClients, r \in BgResponseIds : (\E goal \in {"read", "cancel"} : LookUpBackground(a, goal, r)) \/ DeleteResponse(a, r)
    \/ \E t \in BgTasks : WorkBackground(t) \/ RecoverBgReceipt(t) \/ ExpireBackground(t)
    \/ \E w \in bgLate : LateSave(w[1], w[2])
    \/ \E r \in BgResponseIds : BgProvider(r)
    \/ BgCrash

BgSpec == BgInit /\ [][BgNext]_bgVars

\* A client repeats a deletion that was not confirmed, as it is told to.
RetryDeletion(a, r) == bgMark[r] = "intent" /\ DeleteResponse(a, r)

\* Handlers run, the worker takes each pending task that is not always busy,
\* the provider finishes its responses and deletions are repeated.
BgFairness ==
    /\ \A a \in BgActors : WF_bgVars(BgStep(a))
    /\ \A t \in BgTasks : SF_bgVars(WorkBackground(t)) /\ WF_bgVars(RecoverBgReceipt(t))
    /\ \A r \in BgResponseIds : WF_bgVars(BgProvider(r)) /\ SF_bgVars(\E a \in BgClients : RetryDeletion(a, r))

-----------------------------------------------------------------------------
(* Properties                                                              *)

\* Once a deletion is confirmed nothing leads to the response any more, and
\* no delayed save, poll or new task with the same id brings it back.
DeletedStaysDeleted ==
    \A r \in BgResponseIds :
        bgMark[r] = "done" =>
            /\ bgIndex[r] = NoBg /\ r \notin bgBound
            /\ \A t \in BgTasks : bgRec[t].res # r

\* The index and the records agree, so no two tasks settle one response, and
\* the pending set is the tasks in progress.
OneOwner ==
    /\ \A t \in BgTasks : bgRec[t].res # NoBg => bgIndex[bgRec[t].res] = t
    /\ \A r \in BgResponseIds : bgIndex[r] # NoBg => bgRec[bgIndex[r]].res = r
    /\ bgPending = {t \in BgTasks : bgRec[t].stage \in {"submitting", "pending", "settling"}}

Bg == INSTANCE PaidTask WITH
    Tasks <- BgTasks, sent <- bgSent,
    charged <- [t \in BgTasks |-> bgBooks[t] = "charged"], outcome <- bgFirst

\* Background responses are paid tasks: sent once, and a result is published
\* only when it is charged.
BgImplementsPaidTask == Bg!Spec

\* A submission that ended without the provider's answer on record: the
\* answer or a save was lost, the process died, or the id is another
\* response's.  It is kept for review and never sent again.
BgUncertain(t) == bgRec[t].stage = "submitting" /\ bgAct[t].pc = "done"

\* Every other task is settled or deleted: submissions being finitely many,
\* none remains.
BgTasksEnd ==
    []<>(\A t \in BgTasks : bgRec[t].stage \in {"submitting", "pending", "settling"} => BgUncertain(t))

\* A save that comes late, from a poll of before a deletion or of another task
\* with the provider's id, changes neither whether a response exists nor whose
\* it is (the script of saveBackgroundResponse).
ResponsesStayPut == DeletedStaysDeleted /\ OneOwner
=============================================================================
