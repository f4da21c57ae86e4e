------------------------- MODULE BatchImages_proofs -------------------------
(***************************************************************************)
(* Proofs about BatchImages for any jobs, users, keys and processes.       *)
(***************************************************************************)
EXTENDS BatchImages, TLAPS

\* A process that does something with a job has one, and no output has more
\* images than the job has items.
TypeInv ==
    /\ TypeOK
    /\ \A i \in Processes : pc[i] \notin {"idle", "next"} => job[i] \in Jobs
    /\ \A j \in Jobs : yield[j] \in 0..Items[j] /\ success[j] \in 0..Items[j]

\* What is captured is never more than what was held.
LEMMA PriceInHold == TypeInv => \A j \in Jobs : Price(j) \in Int /\ 0 <= Price(j) /\ Price(j) <= Hold[j]
  BY BatchAssumption DEF TypeInv, Price

\* The types of the constants.
LEMMA ConstantTypes ==
    /\ UserOf \in [Jobs -> Users]
    /\ Hold \in [Jobs -> Nat] /\ Items \in [Jobs -> Nat]
    /\ Balance \in [Users -> Nat]
    /\ MaxFaults \in Nat
    /\ None \notin Jobs /\ None \notin Processes
  BY BatchAssumption

\* The initial state has the types.
LEMMA TypeInit == Init => TypeInv
  BY ConstantTypes DEF Init, TypeInv, TypeOK, Statuses, Labels, ProviderStates, Terminal

\* An update of a status keeps the types.
LEMMA SetStatusType ==
  ASSUME TypeInv, NEW j \in Jobs, NEW s \in Statuses, SetStatus(j, s)
  PROVE  status' \in [Jobs -> Statuses] /\ older' \subseteq Jobs \X Jobs
  BY DEF TypeInv, TypeOK, SetStatus, Touch

\* A thaw keeps the types.
LEMMA ThawType ==
  ASSUME TypeInv, NEW j \in Jobs, NEW claim \in {"capture", "release"}, NEW cost \in Int, Thaw(j, claim, cost)
  PROVE  /\ claims' \in [Jobs -> SUBSET {"hold", "capture", "release"}]
         /\ balance' \in [Users -> Int] /\ frozen' \in [Users -> Int]
<1>1. claims' = [claims EXCEPT ![j] = @ \cup {claim}] /\ claims[j] \cup {claim} \in SUBSET {"hold", "capture", "release"}
  BY DEF TypeInv, TypeOK, Thaw
<1>2. claims' \in [Jobs -> SUBSET {"hold", "capture", "release"}]
  BY <1>1 DEF TypeInv, TypeOK
<1>3. UserOf[j] \in Users /\ Hold[j] \in Int /\ balance \in [Users -> Int] /\ frozen \in [Users -> Int]
  BY ConstantTypes DEF TypeInv, TypeOK
<1>4. balance[UserOf[j]] + Hold[j] - cost \in Int /\ frozen[UserOf[j]] - Hold[j] \in Int
  BY <1>3
<1>5. balance' \in [Users -> Int] /\ frozen' \in [Users -> Int]
  BY <1>3, <1>4, SMTT(30) DEF Thaw
<1> QED
  BY <1>2, <1>5

\* Every step keeps the types.
LEMMA TypeNext == TypeInv /\ [Next]_vars => TypeInv'
<1> SUFFICES ASSUME TypeInv, [Next]_vars PROVE TypeInv'
  OBVIOUS
<1> USE ConstantTypes
    DEF TypeInv, TypeOK, Statuses, Labels, ProviderStates, Terminal, Fault, NoFault, Goto, Stay,
        row, money, upstream, request, instance, control
<1>1. ASSUME NEW c \in Jobs, NEW i \in Processes, Submit(i, c) PROVE TypeInv'
  <2>1. /\ call' \in [Jobs -> {"new", "locked", "counted", "done"}]
        /\ server' \in [Jobs -> Processes \cup {None}]
    <3>1. \/ EndCall(c)
          \/ call' = [call EXCEPT ![c] = "locked"] /\ server' = [server EXCEPT ![c] = i]
      BY <1>1, Zenon DEF Submit
    <3> QED
      BY <3>1, SMTT(30) DEF EndCall
  <2> QED
    BY <1>1, <2>1 DEF Submit
<1>2. ASSUME NEW c \in Jobs, Count(c) PROVE TypeInv'
  BY <1>2, SMTT(30) DEF Count, EndCall
<1>3. ASSUME NEW c \in Jobs, CommitSubmit(c) PROVE TypeInv'
  BY <1>3 DEF CommitSubmit, EndCall, SetStatus, Touch
<1>4. ASSUME NEW c \in Jobs, AbortSubmit(c) PROVE TypeInv'
  BY <1>4 DEF AbortSubmit, EndCall
<1>5. ASSUME NEW i \in Processes, BeginPass(i) PROVE TypeInv'
  BY <1>5 DEF BeginPass, Due, Unfinished, Pages
<1>6. ASSUME NEW i \in Processes, Process(i) PROVE TypeInv'
  <2>1. PICK j \in page[i] : /\ job' = [job EXCEPT ![i] = j]
                             /\ view' = [view EXCEPT ![i] = status[j]]
                             /\ page' = [page EXCEPT ![i] = @ \ {j}]
                             /\ \/ NoFault /\ Goto(i, Entry(j, status[j]))
                                \/ Fault /\ Goto(i, "retry")
    BY <1>6 DEF Process
  <2>2. Entry(j, status[j]) \in Labels
    BY DEF Entry
  <2>3. pc' \in [Processes -> Labels] /\ job' \in [Processes -> Jobs \cup {None}] /\ faults' \in 0..MaxFaults
    BY <2>1, <2>2, SMTT(30)
  <2>4. view' \in [Processes -> Statuses] /\ page' \in [Processes -> SUBSET Jobs]
    BY <2>1
  <2>5. \A k \in Processes : pc'[k] \notin {"idle", "next"} => job'[k] \in Jobs
    BY <2>1
  <2> QED
    BY <1>6, <2>3, <2>4, <2>5 DEF Process
<1>7. ASSUME NEW i \in Processes, EndPass(i) PROVE TypeInv'
  BY <1>7 DEF EndPass
<1>8. ASSUME NEW i \in Processes, Retry(i) PROVE TypeInv'
  BY <1>8 DEF Retry, Touch
<1>9. ASSUME NEW i \in Processes, StepFails(i) PROVE TypeInv'
  BY <1>9 DEF StepFails
<1>10. ASSUME NEW i \in Processes, Check(i) PROVE TypeInv'
  BY <1>10, SMTT(30) DEF Check
<1>11. ASSUME NEW i \in Processes, Mark(i) PROVE TypeInv'
  BY <1>11, SMTT(30) DEF Mark, SetStatus, Touch
<1>12. ASSUME NEW i \in Processes, CreateProvider(i) PROVE TypeInv'
  <2>1. made' \in [Jobs -> Nat]
    BY <1>12 DEF CreateProvider
  <2>2. provider' \in [Jobs -> ProviderStates \cup {"none"}]
    BY <1>12 DEF CreateProvider
  <2>3. pc' \in [Processes -> Labels] /\ faults' \in 0..MaxFaults
    BY <1>12, SMTT(30) DEF CreateProvider
  <2>4. \A k \in Processes : pc'[k] \notin {"idle", "next"} => job'[k] \in Jobs
    BY <1>12 DEF CreateProvider
  <2> QED
    BY <1>12, <2>1, <2>2, <2>3, <2>4 DEF CreateProvider
<1>13. ASSUME NEW i \in Processes, Find(i) PROVE TypeInv'
  BY <1>13 DEF Find
<1>14. ASSUME NEW i \in Processes, Bind(i) PROVE TypeInv'
  <2>1. /\ status' \in [Jobs -> Statuses] /\ older' \subseteq Jobs \X Jobs
    BY <1>14, SetStatusType DEF Bind
  <2>2. /\ pc' \in [Processes -> Labels] /\ faults' \in 0..MaxFaults
        /\ \A k \in Processes : pc'[k] \notin {"idle", "next"} => job'[k] \in Jobs
    BY <1>14, SMTT(30) DEF Bind
  <2> QED
    BY <1>14, <2>1, <2>2 DEF Bind
<1>15. ASSUME NEW i \in Processes, Reload(i) PROVE TypeInv'
  BY <1>15 DEF Reload
<1>16. ASSUME NEW i \in Processes, Poll(i) PROVE TypeInv'
  BY <1>16, SMTT(30) DEF Poll
<1>17. ASSUME NEW i \in Processes, GetProvider(i) PROVE TypeInv'
  BY <1>17, SMTT(30) DEF GetProvider, Reported, Reaction
<1>18. ASSUME NEW i \in Processes, MarkRunning(i) PROVE TypeInv'
  BY <1>18 DEF MarkRunning, SetStatus, Touch
<1>19. ASSUME NEW i \in Processes, MarkIndexing(i) PROVE TypeInv'
  <2>1. /\ status' \in [Jobs -> Statuses] /\ older' \subseteq Jobs \X Jobs
    BY <1>19, SetStatusType DEF MarkIndexing
  <2>2. /\ pc' \in [Processes -> Labels] /\ faults' \in 0..MaxFaults
        /\ \A k \in Processes : pc'[k] \notin {"idle", "next"} => job'[k] \in Jobs
    BY <1>19, SMTT(30) DEF MarkIndexing
  <2> QED
    BY <1>19, <2>1, <2>2 DEF MarkIndexing
<1>20. ASSUME NEW i \in Processes, Index(i) PROVE TypeInv'
  <2>1. status' \in [Jobs -> Statuses] /\ older' \subseteq Jobs \X Jobs
    BY <1>20, SetStatusType, SMTT(30) DEF Index
  <2>2. pc' \in [Processes -> Labels] /\ faults' \in 0..MaxFaults
    BY <1>20 DEF Index
  <2>3. Outputs(job[i]) \subseteq 0..Items[job[i]] /\ job[i] \in Jobs
    BY <1>20 DEF Outputs, Index
  <2>4. success' \in [Jobs -> Nat] /\ \A j \in Jobs : success'[j] \in 0..Items[j]
    <3>1. CASE success' = success
      BY <3>1
    <3>2. CASE \E m \in Outputs(job[i]) : success' = [success EXCEPT ![job[i]] = m]
      <4>1. PICK m \in 0..Items[job[i]] : success' = [success EXCEPT ![job[i]] = m]
        BY <2>3, <3>2
      <4>2. m \in Nat
        BY <2>3
      <4> QED
        BY <2>3, <4>1, <4>2
    <3> QED
      BY <1>20, <3>1, <3>2 DEF Index
  <2>5. \A k \in Processes : pc'[k] \notin {"idle", "next"} => job'[k] \in Jobs
    BY <1>20 DEF Index
  <2> QED
    BY <1>20, <2>1, <2>2, <2>4, <2>5 DEF Index
<1>21. ASSUME NEW i \in Processes, Settle(i) PROVE TypeInv'
  <2>1. status' \in [Jobs -> Statuses] /\ older' \subseteq Jobs \X Jobs
    BY <1>21, SetStatusType DEF Settle
  <2>2. /\ pc' \in [Processes -> Labels] /\ faults' \in 0..MaxFaults
        /\ \A k \in Processes : pc'[k] \notin {"idle", "next"} => job'[k] \in Jobs
    BY <1>21, SMTT(30) DEF Settle
  <2>3. /\ claims' \in [Jobs -> SUBSET {"hold", "capture", "release"}]
        /\ balance' \in [Users -> Int] /\ frozen' \in [Users -> Int]
        /\ billed' \in [Jobs -> Nat] /\ charged' \in [Jobs -> Int]
    <3>1. job[i] \in Jobs /\ Price(job[i]) \in Int
      BY <1>21, PriceInHold DEF Settle
    <3>2. CASE UNCHANGED money
      BY <3>2
    <3>3. CASE ~UNCHANGED money
      BY <1>21, <3>1, <3>3, ThawType DEF Settle
    <3> QED
      BY <3>2, <3>3
  <2> QED
    BY <1>21, <2>1, <2>2, <2>3 DEF Settle
<1>22. ASSUME NEW i \in Processes, Fail(i) PROVE TypeInv'
  <2>1. status' \in [Jobs -> Statuses] /\ older' \subseteq Jobs \X Jobs
    BY <1>22, SetStatusType DEF Fail, FailJob
  <2>2. /\ pc' \in [Processes -> Labels] /\ faults' \in 0..MaxFaults
        /\ \A k \in Processes : pc'[k] \notin {"idle", "next"} => job'[k] \in Jobs
    BY <1>22, SMTT(30) DEF Fail
  <2>3. /\ claims' \in [Jobs -> SUBSET {"hold", "capture", "release"}]
        /\ balance' \in [Users -> Int] /\ frozen' \in [Users -> Int]
        /\ billed' = billed /\ charged' = charged
    <3>1. job[i] \in Jobs
      BY <1>22 DEF Fail
    <3> QED
      BY <1>22, <3>1, ThawType DEF Fail, FailJob
  <2> QED
    BY <1>22, <2>1, <2>2, <2>3 DEF Fail
<1>23. ASSUME NEW i \in Processes, Clean(i) PROVE TypeInv'
  BY <1>23 DEF Clean, Touch
<1>24. ASSUME NEW i \in Processes, Purge(i) PROVE TypeInv'
  BY <1>24 DEF Purge, SetStatus, Touch
<1>25. ASSUME NEW i \in Processes, Cancel(i) PROVE TypeInv'
  BY <1>25, SMTT(30) DEF Cancel, SetStatus, Touch, Thaw, FailJob, CanFail, CanThaw
<1>26. ASSUME NEW i \in Processes, Start(i) PROVE TypeInv'
  BY <1>26 DEF Start
<1>27. ASSUME NEW i \in Processes, Crash(i) PROVE TypeInv'
  BY <1>27 DEF Crash
<1>28. ASSUME NEW i \in Processes, LoseLock(i) PROVE TypeInv'
  BY <1>28 DEF LoseLock
<1>29. ASSUME NEW i \in Processes, NEW j \in Jobs, BeginCancel(i, j) PROVE TypeInv'
  BY <1>29 DEF BeginCancel, Unfinished
<1>30. ASSUME NEW i \in Processes, NEW j \in Jobs, Hide(i, j) PROVE TypeInv'
  BY <1>30 DEF Hide, Touch
<1>31. ASSUME NEW i \in Processes, NEW j \in Jobs, DeleteOutputs(i, j) PROVE TypeInv'
  BY <1>31 DEF DeleteOutputs, SetStatus, Touch
<1>32. ASSUME NEW j \in Jobs, ProviderStep(j) PROVE TypeInv'
  <2>1. provider' \in [Jobs -> ProviderStates \cup {"none"}]
    BY <1>32 DEF ProviderStep
  <2>2. yield' \in [Jobs -> Nat] /\ \A k \in Jobs : yield'[k] \in 0..Items[k]
    BY <1>32, SMTT(30) DEF ProviderStep
  <2> QED
    BY <1>32, <2>1, <2>2 DEF ProviderStep
<1>33. ASSUME NEW j \in Jobs, Expire(j) PROVE TypeInv'
  BY <1>33 DEF Expire
<1>34. ASSUME NEW j \in Jobs, Revoke(j) PROVE TypeInv'
  BY <1>34 DEF Revoke
<1>35. ASSUME NEW u \in Users, DeleteUser(u) PROVE TypeInv'
  BY <1>35 DEF DeleteUser
<1>36. CASE UNCHANGED vars
  BY <1>36 DEF vars
<1> QED
  BY <1>1, <1>2, <1>3, <1>4, <1>5, <1>6, <1>7, <1>8, <1>9, <1>10, <1>11, <1>12, <1>13, <1>14, <1>15, <1>16,
     <1>17, <1>18, <1>19, <1>20, <1>21, <1>22, <1>23, <1>24, <1>25, <1>26, <1>27, <1>28, <1>29, <1>30, <1>31,
     <1>32, <1>33, <1>34, <1>35, <1>36
  DEF Next, SubmitStep, WorkerStep, ClientStep

\* Every variable keeps its type, for any number of processes, overlapping or not.
THEOREM TypeCorrect == Spec => []TypeOK
<1>1. TypeInv => TypeOK
  BY DEF TypeInv
<1> QED
  BY <1>1, TypeInit, TypeNext, PTL DEF Spec

-----------------------------------------------------------------------------
(* The refinement of Escrow                                                *)

\* A job's claims are a hold and at most one of its ends, and a submission
\* that is not done has none.
EscrowInv ==
    /\ \A j \in Jobs : claims[j] \in {{}, {"hold"}, {"hold", "capture"}, {"hold", "release"}}
    /\ \A j \in Jobs : call[j] # "done" => claims[j] = {}

\* A step that moves no money and submits nothing anew.
Quiet ==
    /\ UNCHANGED <<claims, balance, frozen, charged>>
    /\ \A j \in Jobs : call'[j] # "done" => call[j] # "done"

Captures(j) ==
    /\ CanSettle(j) /\ Thaw(j, "capture", Price(j)) /\ call' = call
    /\ charged' = [charged EXCEPT ![j] = @ + Price(j)]

Releases(j) ==
    /\ "release" \notin claims[j] /\ CanThaw(j, "capture") /\ Thaw(j, "release", 0) /\ call' = call
    /\ charged' = charged

\* Money moves only in these ways.
LEMMA MoneySteps ==
  ASSUME TypeInv, [Next]_vars
  PROVE  \/ Quiet
         \/ \E j \in Jobs : CommitSubmit(j) \/ Captures(j) \/ Releases(j)
<1> USE DEF row, money, upstream, request, instance, control
<1>1. ASSUME NEW c \in Jobs, SubmitStep(c) PROVE Quiet \/ CommitSubmit(c)
  <2>1. ASSUME NEW i \in Processes, Submit(i, c) PROVE Quiet
    <3>1. \/ EndCall(c)
          \/ call' = [call EXCEPT ![c] = "locked"] /\ call[c] = "new"
      BY <2>1, Zenon DEF Submit
    <3> QED
      BY <2>1, <3>1 DEF Submit, EndCall, Quiet, TypeInv, TypeOK
  <2>2. ASSUME Count(c) PROVE Quiet
    BY <2>2 DEF Count, EndCall, Quiet, TypeInv, TypeOK
  <2>3. ASSUME AbortSubmit(c) PROVE Quiet
    BY <2>3 DEF AbortSubmit, EndCall, Quiet, TypeInv, TypeOK
  <2> QED
    BY <1>1, <2>1, <2>2, <2>3 DEF SubmitStep
<1>2. ASSUME NEW i \in Processes, Settle(i) PROVE Quiet \/ \E j \in Jobs : Captures(j)
  <2>1. job[i] \in Jobs
    BY <1>2 DEF Settle, TypeInv
  <2> QED
    BY <1>2, <2>1 DEF Settle, Quiet, Captures
<1>3. ASSUME NEW j \in Jobs, NEW end, CanFail(j), FailJob(j, end), call' = call PROVE Quiet \/ Releases(j)
  BY <1>3 DEF FailJob, CanFail, Quiet, Releases
<1>4. ASSUME NEW i \in Processes, Fail(i) PROVE Quiet \/ \E j \in Jobs : Releases(j)
  <2>1. job[i] \in Jobs
    BY <1>4 DEF Fail, TypeInv
  <2>2. \/ CanFail(job[i]) /\ \E end \in {"failed", "cancelled"} : FailJob(job[i], end)
        \/ UNCHANGED money
    BY <1>4 DEF Fail
  <2>3. call' = call
    BY <1>4 DEF Fail
  <2> QED
    BY <1>3, <2>1, <2>2, <2>3 DEF Quiet
<1>5. ASSUME NEW i \in Processes, Cancel(i) PROVE Quiet \/ \E j \in Jobs : Releases(j)
  <2>1. job[i] \in Jobs
    BY <1>5 DEF Cancel, TypeInv
  <2>2. \/ CanFail(job[i]) /\ FailJob(job[i], "cancelled")
        \/ UNCHANGED money
    BY <1>5 DEF Cancel
  <2>3. call' = call
    BY <1>5 DEF Cancel
  <2> QED
    BY <1>3, <2>1, <2>2, <2>3 DEF Quiet
<1>6. ASSUME NEW i \in Processes, WorkerStep(i), ~Settle(i), ~Fail(i), ~Cancel(i) PROVE Quiet
  <2>1. UNCHANGED money /\ call' = call
    BY <1>6 DEF WorkerStep, BeginPass, Process, EndPass, Retry, StepFails, Check, Mark, CreateProvider, Find,
                Bind, Reload, Poll, GetProvider, MarkRunning, MarkIndexing, Index, Clean, Purge
  <2> QED
    BY <2>1 DEF Quiet
<1>7. ASSUME NEW i \in Processes, Start(i) \/ Crash(i) \/ LoseLock(i) PROVE Quiet
  BY <1>7 DEF Start, Crash, LoseLock, Quiet, TypeInv, TypeOK
<1>8. ASSUME NEW i \in Processes, NEW j \in Jobs, ClientStep(i, j) PROVE Quiet
  BY <1>8 DEF ClientStep, BeginCancel, Hide, DeleteOutputs, Quiet
<1>9. ASSUME NEW j \in Jobs, ProviderStep(j) \/ Expire(j) \/ Revoke(j) PROVE Quiet
  BY <1>9 DEF ProviderStep, Expire, Revoke, Quiet
<1>10. ASSUME NEW u \in Users, DeleteUser(u) PROVE Quiet
  BY <1>10 DEF DeleteUser, Quiet
<1>11. CASE UNCHANGED vars
  BY <1>11 DEF vars, Quiet
<1> QED
  BY <1>1, <1>2, <1>4, <1>5, <1>6, <1>7, <1>8, <1>9, <1>10, <1>11 DEF Next

\* The claims keep their shape.
LEMMA EscrowNext == TypeInv /\ EscrowInv /\ [Next]_vars => EscrowInv'
<1> SUFFICES ASSUME TypeInv, EscrowInv, [Next]_vars PROVE EscrowInv'
  OBVIOUS
<1>1. CASE Quiet
  BY <1>1 DEF Quiet, EscrowInv
<1>2. ASSUME NEW c \in Jobs, CommitSubmit(c) PROVE EscrowInv'
  BY <1>2 DEF CommitSubmit, EndCall, EscrowInv, TypeInv, TypeOK
<1>3. ASSUME NEW j \in Jobs, Captures(j) PROVE EscrowInv'
  <2>1. claims[j] = {"hold"} /\ claims' = [claims EXCEPT ![j] = {"hold", "capture"}]
    BY <1>3 DEF Captures, CanSettle, CanThaw, Thaw, EscrowInv, TypeInv, TypeOK
  <2> QED
    BY <1>3, <2>1 DEF Captures, EscrowInv, TypeInv, TypeOK
<1>4. ASSUME NEW j \in Jobs, Releases(j) PROVE EscrowInv'
  <2>1. claims[j] = {"hold"} /\ claims' = [claims EXCEPT ![j] = {"hold", "release"}]
    BY <1>4 DEF Releases, CanThaw, Thaw, EscrowInv, TypeInv, TypeOK
  <2> QED
    BY <1>4, <2>1 DEF Releases, EscrowInv, TypeInv, TypeOK
<1> QED
  BY <1>1, <1>2, <1>3, <1>4, MoneySteps

\* The claims have their shape for ever.
LEMMA EscrowInvariance == Spec => [](TypeInv /\ EscrowInv)
<1>1. Init => EscrowInv
  BY DEF Init, EscrowInv
<1> QED
  BY <1>1, TypeInit, TypeNext, EscrowNext, PTL DEF Spec

\* Every step freezes a hold, thaws one or leaves the escrow alone.
LEMMA StepSimulation == TypeInv /\ EscrowInv /\ [Next]_vars => [E!Next]_(E!escrowVars)
<1> SUFFICES ASSUME TypeInv, EscrowInv, [Next]_vars PROVE [E!Next]_(E!escrowVars)
  OBVIOUS
<1> DEFINE deal == [j \in Jobs |-> Deal(j)]
<1>t. /\ balance \in [Users -> Int] /\ frozen \in [Users -> Int]
      /\ claims \in [Jobs -> SUBSET {"hold", "capture", "release"}]
      /\ UserOf \in [Jobs -> Users] /\ Hold \in [Jobs -> Nat]
  BY ConstantTypes DEF TypeInv, TypeOK
<1>1. CASE Quiet
  BY <1>1 DEF Quiet, Deal, E!escrowVars
<1>2. ASSUME NEW c \in Jobs, CommitSubmit(c) PROVE E!Next
  <2>1. claims[c] = {} /\ claims' = [claims EXCEPT ![c] = {"hold"}]
    BY <1>2 DEF CommitSubmit, EscrowInv
  <2>2. deal[c] = "none"
    BY <2>1 DEF Deal
  <2>3. deal' = [deal EXCEPT ![c] = "held"]
    <3>1. claims'[c] = {"hold"} /\ \A k \in Jobs \ {c} : claims'[k] = claims[k]
      BY <1>t, <2>1
    <3>2. Deal(c)' = "held" /\ \A k \in Jobs \ {c} : Deal(k)' = Deal(k)
      BY <3>1 DEF Deal
    <3> QED
      BY <3>2, Zenon
  <2>4. E!Freeze(c)
    BY <1>2, <2>2, <2>3 DEF CommitSubmit, CanHold, E!Freeze
  <2> QED
    BY <2>4 DEF E!Next
<1>3. ASSUME NEW j \in Jobs, NEW claim \in {"capture", "release"}, NEW cost \in Int, NEW end \in {"captured", "released"},
             claims[j] = {"hold"}, Thaw(j, claim, cost), 0 <= cost, cost <= Hold[j],
             end = IF claim = "capture" THEN "captured" ELSE "released",
             claim = "release" => cost = 0
      PROVE  E!Next
  <2>1. claims' = [claims EXCEPT ![j] = {"hold", claim}]
    BY <1>3 DEF Thaw
  <2>2. deal[j] = "held"
    BY <1>3 DEF Deal
  <2>3. deal' = [deal EXCEPT ![j] = end]
    <3>1. claims'[j] = {"hold", claim} /\ \A k \in Jobs \ {j} : claims'[k] = claims[k]
      BY <1>t, <2>1
    <3>2. Deal(j)' = end /\ \A k \in Jobs \ {j} : Deal(k)' = Deal(k)
      BY <1>3, <3>1 DEF Deal
    <3> QED
      BY <3>2, Zenon
  <2>4. E!Thaw(j, end, cost)
    BY <1>3, <2>2, <2>3 DEF Thaw, E!Thaw
  <2>5. balance[UserOf[j]] + Hold[j] - balance'[UserOf[j]] = cost
    BY <1>3, <1>t DEF Thaw
  <2>6. E!Thaw(j, end, balance[UserOf[j]] + Hold[j] - balance'[UserOf[j]])
    BY <2>4, <2>5
  <2> QED
    BY <2>6 DEF E!Next
<1>4. ASSUME NEW j \in Jobs, Captures(j) PROVE E!Next
  <2>1. claims[j] = {"hold"} /\ Thaw(j, "capture", Price(j))
    BY <1>4 DEF Captures, CanSettle, CanThaw, EscrowInv
  <2>2. Price(j) \in Int /\ 0 <= Price(j) /\ Price(j) <= Hold[j]
    BY PriceInHold
  <2> QED
    BY <1>3, <2>1, <2>2
<1>5. ASSUME NEW j \in Jobs, Releases(j) PROVE E!Next
  <2>1. claims[j] = {"hold"} /\ Thaw(j, "release", 0)
    BY <1>5 DEF Releases, CanThaw, EscrowInv
  <2>2. 0 <= Hold[j]
    BY <1>t
  <2> QED
    BY <1>3, <2>1, <2>2
<1> QED
  BY <1>1, <1>2, <1>4, <1>5, MoneySteps

\* Batch images implement the escrow for any jobs, amounts and processes, and
\* also when processes overlap.
THEOREM BatchImplementsEscrow == Spec => ImplementsEscrow
<1>1. Init => E!Init
  BY DEF Init, E!Init, Deal
<1> QED
  BY <1>1, StepSimulation, EscrowInvariance, PTL DEF Spec, ImplementsEscrow, E!Spec

-----------------------------------------------------------------------------
(* Money adds up                                                           *)

JobsOf(u) == {j \in Jobs : UserOf[j] = u}
HeldBy(u) == {j \in JobsOf(u) : Held(j)}

\* The two sums of one user: what is frozen, and what the user started with.
Adds(u) ==
    /\ frozen[u] = SumOver(Hold, HeldBy(u))
    /\ balance[u] + frozen[u] + SumOver(charged, JobsOf(u)) = Balance[u]

\* The invariant says that of every user.
LEMMA EscrowBalancesSplit == EscrowBalances <=> \A u \in Users : Adds(u)
  BY DEF EscrowBalances, Adds, HeldBy, JobsOf

\* The sums are over finitely many integers.
LEMMA SumTypes ==
  ASSUME TypeInv, NEW u \in Users
  PROVE  /\ IsFiniteSet(JobsOf(u)) /\ IsFiniteSet(HeldBy(u)) /\ JobsOf(u) \subseteq Jobs /\ HeldBy(u) \subseteq Jobs
         /\ SumOver(Hold, HeldBy(u)) \in Int /\ SumOver(charged, JobsOf(u)) \in Int
         /\ \A j \in Jobs : Hold[j] \in Int /\ charged[j] \in Int
         /\ balance[u] \in Int /\ frozen[u] \in Int
<1>1. JobsOf(u) \subseteq Jobs /\ HeldBy(u) \subseteq Jobs
  BY DEF JobsOf, HeldBy
<1>2. IsFiniteSet(JobsOf(u)) /\ IsFiniteSet(HeldBy(u))
  BY <1>1, FS_Subset, BatchAssumption
<1>3. \A j \in Jobs : Hold[j] \in Int /\ charged[j] \in Int
  BY ConstantTypes DEF TypeInv, TypeOK
<1>4. balance[u] \in Int /\ frozen[u] \in Int
  BY DEF TypeInv, TypeOK
<1> QED
  BY <1>1, <1>2, <1>3, <1>4, SumOverInt

\* A new hold is frozen and held.
LEMMA HoldAdds ==
  ASSUME TypeInv, EscrowInv, EscrowBalances, NEW c \in Jobs, CommitSubmit(c)
  PROVE  EscrowBalances'
<1>1. /\ claims[c] = {} /\ claims' = [claims EXCEPT ![c] = {"hold"}] /\ claims \in [Jobs -> SUBSET {"hold", "capture", "release"}]
      /\ balance \in [Users -> Int] /\ frozen \in [Users -> Int]
      /\ balance' = [balance EXCEPT ![UserOf[c]] = @ - Hold[c]]
      /\ frozen' = [frozen EXCEPT ![UserOf[c]] = @ + Hold[c]]
      /\ charged' = charged
  BY DEF CommitSubmit, EscrowInv, TypeInv, TypeOK
<1>2. ASSUME NEW u \in Users
      PROVE  Adds(u)'
  <2>1. Adds(u)
    BY EscrowBalancesSplit
  <2>2. CASE UserOf[c] = u
    <3>1. HeldBy(u)' = HeldBy(u) \cup {c} /\ c \notin HeldBy(u)
      BY <1>1, <2>2 DEF HeldBy, JobsOf, Held
    <3>2. SumOver(Hold, HeldBy(u) \cup {c}) = SumOver(Hold, HeldBy(u)) + Hold[c]
      BY <3>1, SumTypes, SumOverAdd
    <3>3. frozen'[u] = frozen[u] + Hold[c] /\ balance'[u] = balance[u] - Hold[c]
      BY <1>1, <2>2
    <3>4. balance[u] \in Int /\ frozen[u] \in Int /\ Hold[c] \in Int
      BY SumTypes
    <3> QED
      BY <1>1, <2>1, <3>1, <3>2, <3>3, <3>4, SumTypes DEF Adds, JobsOf
  <2>3. CASE UserOf[c] # u
    <3>1. HeldBy(u)' = HeldBy(u)
      BY <1>1, <2>3 DEF HeldBy, JobsOf, Held
    <3> QED
      BY <1>1, <2>1, <2>3, <3>1 DEF Adds, JobsOf
  <2> QED
    BY <2>2, <2>3
<1> QED
  BY <1>2 DEF EscrowBalances, Adds, HeldBy, JobsOf

\* What is thawed goes back or becomes a charge.
LEMMA ThawAdds ==
  ASSUME TypeInv, EscrowBalances, NEW j \in Jobs, NEW claim \in {"capture", "release"}, NEW cost \in Int,
         claims[j] = {"hold"}, Thaw(j, claim, cost), charged' = [charged EXCEPT ![j] = @ + cost]
  PROVE  EscrowBalances'
<1>1. /\ claims' = [claims EXCEPT ![j] = {"hold", claim}] /\ claims \in [Jobs -> SUBSET {"hold", "capture", "release"}]
      /\ balance \in [Users -> Int] /\ frozen \in [Users -> Int] /\ charged \in [Jobs -> Int]
      /\ balance' = [balance EXCEPT ![UserOf[j]] = @ + Hold[j] - cost]
      /\ frozen' = [frozen EXCEPT ![UserOf[j]] = @ - Hold[j]]
  BY DEF Thaw, TypeInv, TypeOK
<1>2. ASSUME NEW u \in Users
      PROVE  Adds(u)'
  <2>1. Adds(u)
    BY EscrowBalancesSplit
  <2>2. charged' \in [Jobs -> Int]
    BY <1>1
  <2>3. CASE UserOf[j] = u
    <3>1. HeldBy(u)' = HeldBy(u) \ {j} /\ j \in HeldBy(u)
      BY <1>1, <2>3 DEF HeldBy, JobsOf, Held
    <3>2. SumOver(Hold, HeldBy(u)) = Hold[j] + SumOver(Hold, HeldBy(u) \ {j})
      BY <3>1, SumTypes, SumOverRemove
    <3>3. SumOver(Hold, HeldBy(u) \ {j}) \in Int
      BY SumTypes, SumOverInt, FS_RemoveElement
    <3>4. frozen'[u] = frozen[u] - Hold[j] /\ balance'[u] = balance[u] + Hold[j] - cost
      BY <1>1, <2>3
    <3>5. balance[u] \in Int /\ frozen[u] \in Int /\ Hold[j] \in Int
      BY SumTypes
    <3>6. SumOver(charged', JobsOf(u)) = SumOver(charged, JobsOf(u)) + (charged'[j] - charged[j])
      <4>1. PICK F, G : F = charged /\ G = charged'
        OBVIOUS
      <4>2. j \in JobsOf(u) /\ IsFiniteSet(JobsOf(u))
        BY <2>3, SumTypes DEF JobsOf
      <4>3. \A s \in JobsOf(u) : F[s] \in Int /\ G[s] \in Int
        BY <1>1, <2>2, <4>1, SumTypes
      <4>4. \A s \in JobsOf(u) \ {j} : F[s] = G[s]
        BY <1>1, <4>1, SumTypes
      <4>5. SumOver(G, JobsOf(u)) = SumOver(F, JobsOf(u)) + (G[j] - F[j])
        BY <4>2, <4>3, <4>4, SumOverChange
      <4> QED
        BY <4>1, <4>5
    <3>7. charged'[j] = charged[j] + cost /\ charged[j] \in Int
      BY <1>1
    <3>8. frozen'[u] = SumOver(Hold, HeldBy(u)')
      BY <2>1, <3>1, <3>2, <3>3, <3>4, <3>5 DEF Adds
    <3>9. balance'[u] + frozen'[u] + SumOver(charged', JobsOf(u)) = Balance[u]
      BY <2>1, <3>4, <3>5, <3>6, <3>7, SumTypes DEF Adds
    <3> QED
      BY <3>8, <3>9 DEF Adds, JobsOf
  <2>4. CASE UserOf[j] # u
    <3>1. HeldBy(u)' = HeldBy(u)
      BY <1>1, <2>4 DEF HeldBy, JobsOf, Held
    <3>2. \A s \in JobsOf(u) : charged'[s] = charged[s]
      BY <1>1, <2>4 DEF JobsOf
    <3>3. SumOver(charged', JobsOf(u)) = SumOver(charged, JobsOf(u))
      <4>1. PICK F, G : F = charged /\ G = charged'
        OBVIOUS
      <4>2. IsFiniteSet(JobsOf(u)) /\ \A s \in JobsOf(u) : F[s] = G[s]
        BY <3>2, <4>1, SumTypes
      <4>3. SumOver(F, JobsOf(u)) = SumOver(G, JobsOf(u))
        BY <4>2, SumOverSame
      <4> QED
        BY <4>1, <4>3
    <3>4. frozen'[u] = frozen[u] /\ balance'[u] = balance[u]
      BY <1>1, <2>4
    <3> QED
      BY <2>1, <3>1, <3>3, <3>4 DEF Adds, JobsOf
  <2> QED
    BY <2>3, <2>4
<1> QED
  BY <1>2 DEF EscrowBalances, Adds, HeldBy, JobsOf

\* Every step keeps the sums.
LEMMA BalancesNext == TypeInv /\ EscrowInv /\ EscrowBalances /\ [Next]_vars => EscrowBalances'
<1> SUFFICES ASSUME TypeInv, EscrowInv, EscrowBalances, [Next]_vars PROVE EscrowBalances'
  OBVIOUS
<1>1. CASE Quiet
  BY <1>1 DEF Quiet, EscrowBalances, Held
<1>2. ASSUME NEW c \in Jobs, CommitSubmit(c) PROVE EscrowBalances'
  BY <1>2, HoldAdds
<1>3. ASSUME NEW j \in Jobs, Captures(j) PROVE EscrowBalances'
  <2>1. claims[j] = {"hold"} /\ Thaw(j, "capture", Price(j)) /\ Price(j) \in Int
    BY <1>3, PriceInHold DEF Captures, CanSettle, CanThaw, EscrowInv
  <2>2. charged' = [charged EXCEPT ![j] = @ + Price(j)]
    BY <1>3 DEF Captures
  <2>3. PICK cost \in Int : cost = Price(j)
    BY <2>1
  <2>4. Thaw(j, "capture", cost)
    BY <2>1, <2>3, Zenon
  <2>5. charged' = [charged EXCEPT ![j] = @ + cost]
    BY <2>2, <2>3
  <2> HIDE DEF EscrowBalances
  <2> QED
    BY <2>1, <2>4, <2>5, ThawAdds, Zenon
<1>4. ASSUME NEW j \in Jobs, Releases(j) PROVE EscrowBalances'
  <2>1. claims[j] = {"hold"} /\ Thaw(j, "release", 0)
    BY <1>4 DEF Releases, CanThaw, EscrowInv
  <2>2. charged' = [charged EXCEPT ![j] = @ + 0]
    BY <1>4 DEF Releases, TypeInv, TypeOK
  <2>3. "release" \in {"capture", "release"} /\ 0 \in Int
    OBVIOUS
  <2> QED
    BY <2>1, <2>2, <2>3, ThawAdds, Zenon
<1> QED
  BY <1>1, <1>2, <1>3, <1>4, MoneySteps

\* Frozen money is what the open holds add up to, and balance, frozen money
\* and charges add up to what the user had, for any jobs, users, amounts and
\* processes, and also when processes overlap.
THEOREM BatchMoneyAddsUp == Spec => []EscrowBalances
<1>1. Init => EscrowBalances
  <2> SUFFICES ASSUME Init, NEW u \in Users PROVE Adds(u)
    BY EscrowBalancesSplit
  <2>1. HeldBy(u) = {}
    <3>1. \A j \in Jobs : ~Held(j)
      BY DEF Init, Held
    <3> QED
      BY <3>1 DEF HeldBy, JobsOf
  <2>2. SumOver(charged, JobsOf(u)) = 0
    <3>1. IsFiniteSet(JobsOf(u))
      BY FS_Subset, BatchAssumption DEF JobsOf
    <3>2. \A j \in JobsOf(u) : charged[j] = 0
      BY DEF Init, JobsOf
    <3> QED
      BY <3>1, <3>2, SumOverZero
  <2>3. balance[u] = Balance[u] /\ frozen[u] = 0 /\ Balance[u] \in Int
    BY ConstantTypes DEF Init
  <2> QED
    BY <2>1, <2>2, <2>3, SumOverEmpty DEF Adds
<1> QED
  BY <1>1, BalancesNext, EscrowInvariance, PTL DEF Spec


-----------------------------------------------------------------------------
(* One process at a time                                                   *)

\* Only the process with the instance lock runs, and only it is busy.
Alone ==
    /\ \A i \in alive : lock = i
    /\ \A i \in Processes : pc[i] # "idle" => i \in alive

\* What a busy process knows of its job.
Working(i) ==
    LET j == job[i] IN
    /\ pc[i] \in {"check", "refuse", "mark"} => status[j] = "created"
    /\ pc[i] = "find" => status[j] = "uploading"
    /\ pc[i] = "create" => status[j] = "uploading" /\ made[j] = 0
    /\ pc[i] = "bind" => status[j] = "uploading" /\ made[j] = 1
    /\ pc[i] = "reload" => status[j] = "submitted"
    /\ pc[i] \in {"poll", "get", "running", "fail", "cancel", "output"} => status[j] \in {"submitted", "running"}
    /\ pc[i] = "fail" => provider[j] = "failed"
    /\ pc[i] = "cancel" => provider[j] = "cancelled"
    /\ pc[i] = "output" => provider[j] = "succeeded"
    /\ pc[i] = "index" => status[j] = "indexing"
    /\ pc[i] = "settle" => status[j] = "settling"
    /\ pc[i] \in {"clean", "purge"} => status[j] \in Terminal
    /\ pc[i] = "cancelling" => view[i] = status[j] /\ status[j] \notin Terminal \cup {"absent"}

\* How a job's status, money and provider job go together.
JobInv(j) ==
    /\ status[j] = "absent" <=> claims[j] = {}
    /\ status[j] \notin Terminal \cup {"absent"} => claims[j] = {"hold"}
    /\ status[j] = "completed" => claims[j] = {"hold", "capture"} /\ billed[j] = 1 /\ charged[j] = Price(j)
    /\ status[j] \in {"failed", "cancelled"} => claims[j] = {"hold", "release"}
    /\ "capture" \notin claims[j] => billed[j] = 0 /\ charged[j] = 0
    /\ "release" \in claims[j] => status[j] \in Terminal /\ provider[j] \in {"none", "failed", "cancelled"}
    /\ "capture" \in claims[j] => status[j] \in Terminal
    /\ made[j] = 0 <=> provider[j] = "none"
    /\ made[j] <= 1
    /\ status[j] \in {"absent", "created"} => made[j] = 0
    /\ status[j] \in {"submitted", "running", "indexing", "settling"} => made[j] = 1
    /\ status[j] \in {"indexing", "settling"} => provider[j] = "succeeded"

SoleInv ==
    /\ Alone
    /\ \A i \in Processes : Working(i)
    /\ \A j \in Jobs : JobInv(j)

\* A step that leaves a job alone.
Same(j) ==
    /\ status'[j] = status[j] /\ claims'[j] = claims[j]
    /\ billed'[j] = billed[j] /\ charged'[j] = charged[j] /\ success'[j] = success[j]
    /\ made'[j] = made[j] /\ provider'[j] = provider[j]

\* A job left alone keeps its invariant.
LEMMA SameJob == ASSUME NEW j \in Jobs, JobInv(j), Same(j) PROVE JobInv(j)'
<1>1. Price(j)' = Price(j)
  BY DEF Price, Same
<1> QED
  BY <1>1 DEF JobInv, Same

\* A step of one process needs to be looked at for that process only.
LEMMA LocalStep ==
  ASSUME SoleInv, NEW i \in Processes, i \in alive, UNCHANGED instance,
         \A k \in Processes \ {i} : pc'[k] = pc[k],
         \A j \in Jobs : Same(j) \/ JobInv(j)',
         Working(i)'
  PROVE  SoleInv'
<1>1. \A k \in Processes \ {i} : pc[k] = "idle"
  BY DEF SoleInv, Alone
<1>2. \A k \in Processes \ {i} : Working(k)'
  BY <1>1 DEF Working
<1>3. Alone'
  BY <1>1 DEF SoleInv, Alone, instance
<1>4. \A j \in Jobs : JobInv(j)'
  BY SameJob DEF SoleInv
<1> QED
  BY <1>2, <1>3, <1>4 DEF SoleInv

\* Only jobs that exist are worked on.
PageInv ==
    /\ \A j \in hasInput \cup expired : status[j] # "absent"
    /\ \A i \in Processes : \A j \in page[i] : status[j] # "absent"
    /\ \A i \in Processes : pc[i] \notin {"idle", "next"} => status[job[i]] # "absent"

\* No step makes a job absent again or works on an absent one.
LEMMA PageNext == TypeInv /\ PageInv /\ [Next]_vars => PageInv'
<1> SUFFICES ASSUME TypeInv, PageInv, [Next]_vars PROVE PageInv'
  OBVIOUS
<1> USE DEF row, money, upstream, request, instance, control, Goto, Stay, TypeInv, TypeOK, PageInv
<1>1. ASSUME NEW c \in Jobs, NEW i \in Processes, Submit(i, c) PROVE PageInv'
  BY <1>1 DEF Submit
<1>2. ASSUME NEW c \in Jobs, Count(c) PROVE PageInv'
  BY <1>2 DEF Count
<1>3. ASSUME NEW c \in Jobs, CommitSubmit(c) PROVE PageInv'
  BY <1>3 DEF CommitSubmit, SetStatus
<1>4. ASSUME NEW c \in Jobs, AbortSubmit(c) PROVE PageInv'
  BY <1>4 DEF AbortSubmit
<1>5. ASSUME NEW i \in Processes, BeginPass(i) PROVE PageInv'
  BY <1>5 DEF BeginPass, Due, Unfinished, Pages
<1>6. ASSUME NEW i \in Processes, Process(i) PROVE PageInv'
  BY <1>6 DEF Process
<1>7. ASSUME NEW i \in Processes, EndPass(i) PROVE PageInv'
  BY <1>7 DEF EndPass
<1>8. ASSUME NEW i \in Processes, Retry(i) PROVE PageInv'
  BY <1>8 DEF Retry
<1>9. ASSUME NEW i \in Processes, StepFails(i) PROVE PageInv'
  BY <1>9 DEF StepFails
<1>10. ASSUME NEW i \in Processes, Check(i) PROVE PageInv'
  BY <1>10 DEF Check
<1>11. ASSUME NEW i \in Processes, Mark(i) PROVE PageInv'
  <2>1. job[i] \in Jobs /\ status[job[i]] # "absent" /\ job' = job /\ page' = page /\ expired' = expired
    BY <1>11 DEF Mark
  <2>2. \A j \in Jobs : status[j] # "absent" => status'[j] # "absent"
    BY <1>11 DEF Mark, SetStatus
  <2>3. hasInput' \subseteq hasInput \cup {job[i]}
    BY <1>11 DEF Mark
  <2>4. \A k \in Processes \ {i} : pc'[k] = pc[k]
    BY <1>11 DEF Mark
  <2>5. \A k \in Processes : pc'[k] \notin {"idle", "next"} => status'[job'[k]] # "absent"
    BY <2>1, <2>2, <2>4
  <2>6. \A j \in hasInput' \cup expired' : status'[j] # "absent"
    BY <2>1, <2>2, <2>3
  <2> QED
    BY <2>1, <2>2, <2>5, <2>6
<1>12. ASSUME NEW i \in Processes, CreateProvider(i) PROVE PageInv'
  BY <1>12 DEF CreateProvider
<1>13. ASSUME NEW i \in Processes, Find(i) PROVE PageInv'
  BY <1>13 DEF Find
<1>14. ASSUME NEW i \in Processes, Bind(i) PROVE PageInv'
  <2>1. /\ job[i] \in Jobs /\ status[job[i]] # "absent"
        /\ job' = job /\ page' = page /\ hasInput' = hasInput /\ expired' = expired
    BY <1>14 DEF Bind
  <2>2. \A j \in Jobs : status[j] # "absent" => status'[j] # "absent"
    BY <1>14 DEF Bind, SetStatus
  <2>3. \A k \in Processes \ {i} : pc'[k] = pc[k]
    BY <1>14 DEF Bind
  <2>4. \A k \in Processes : pc'[k] \notin {"idle", "next"} => status'[job'[k]] # "absent"
    BY <2>1, <2>2, <2>3
  <2> QED
    BY <2>1, <2>2, <2>4
<1>15. ASSUME NEW i \in Processes, Reload(i) PROVE PageInv'
  BY <1>15 DEF Reload
<1>16. ASSUME NEW i \in Processes, Poll(i) PROVE PageInv'
  BY <1>16 DEF Poll
<1>17. ASSUME NEW i \in Processes, GetProvider(i) PROVE PageInv'
  BY <1>17 DEF GetProvider
<1>18. ASSUME NEW i \in Processes, MarkRunning(i) PROVE PageInv'
  BY <1>18 DEF MarkRunning, SetStatus
<1>19. ASSUME NEW i \in Processes, MarkIndexing(i) PROVE PageInv'
  BY <1>19 DEF MarkIndexing, SetStatus
<1>20. ASSUME NEW i \in Processes, Index(i) PROVE PageInv'
  BY <1>20 DEF Index, SetStatus
<1>21. ASSUME NEW i \in Processes, Settle(i) PROVE PageInv'
  BY <1>21, SMTT(30) DEF Settle, SetStatus
<1>22. ASSUME NEW i \in Processes, Fail(i) PROVE PageInv'
  BY <1>22, SMTT(30) DEF Fail, SetStatus, FailJob
<1>23. ASSUME NEW i \in Processes, Clean(i) PROVE PageInv'
  BY <1>23 DEF Clean
<1>24. ASSUME NEW i \in Processes, Purge(i) PROVE PageInv'
  BY <1>24 DEF Purge, SetStatus
<1>25. ASSUME NEW i \in Processes, Cancel(i) PROVE PageInv'
  BY <1>25 DEF Cancel, SetStatus, FailJob
<1>26. ASSUME NEW i \in Processes, Start(i) PROVE PageInv'
  BY <1>26 DEF Start
<1>27. ASSUME NEW i \in Processes, Crash(i) PROVE PageInv'
  BY <1>27 DEF Crash
<1>28. ASSUME NEW i \in Processes, LoseLock(i) PROVE PageInv'
  BY <1>28 DEF LoseLock
<1>29. ASSUME NEW i \in Processes, NEW j \in Jobs, BeginCancel(i, j) PROVE PageInv'
  BY <1>29 DEF BeginCancel, Unfinished
<1>30. ASSUME NEW i \in Processes, NEW j \in Jobs, Hide(i, j) PROVE PageInv'
  BY <1>30 DEF Hide
<1>31. ASSUME NEW i \in Processes, NEW j \in Jobs, DeleteOutputs(i, j) PROVE PageInv'
  BY <1>31 DEF DeleteOutputs, SetStatus
<1>32. ASSUME NEW j \in Jobs, ProviderStep(j) PROVE PageInv'
  BY <1>32 DEF ProviderStep
<1>33. ASSUME NEW j \in Jobs, Expire(j) PROVE PageInv'
  BY <1>33 DEF Expire, Terminal
<1>34. ASSUME NEW j \in Jobs, Revoke(j) PROVE PageInv'
  BY <1>34 DEF Revoke
<1>35. ASSUME NEW u \in Users, DeleteUser(u) PROVE PageInv'
  BY <1>35 DEF DeleteUser
<1>36. CASE UNCHANGED vars
  BY <1>36 DEF vars
<1> QED
  BY <1>1, <1>2, <1>3, <1>4, <1>5, <1>6, <1>7, <1>8, <1>9, <1>10, <1>11, <1>12, <1>13, <1>14, <1>15, <1>16,
     <1>17, <1>18, <1>19, <1>20, <1>21, <1>22, <1>23, <1>24, <1>25, <1>26, <1>27, <1>28, <1>29, <1>30, <1>31,
     <1>32, <1>33, <1>34, <1>35, <1>36
  DEF Next, SubmitStep, WorkerStep, ClientStep

\* A worker's step keeps the invariant.
LEMMA SoleWorker ==
  ASSUME TypeInv, SoleInv, PageInv, NEW i \in Processes, WorkerStep(i)
  PROVE  SoleInv'
<1> USE DEF row, money, upstream, request, instance, control, Goto, Stay
<1>a. /\ Alone /\ Working(i)
      /\ pc \in [Processes -> Labels] /\ job \in [Processes -> Jobs \cup {None}] /\ view \in [Processes -> Statuses]
      /\ status \in [Jobs -> Statuses] /\ success \in [Jobs -> Nat]
      /\ made \in [Jobs -> Nat] /\ provider \in [Jobs -> ProviderStates \cup {"none"}]
      /\ billed \in [Jobs -> Nat] /\ charged \in [Jobs -> Int]
      /\ claims \in [Jobs -> SUBSET {"hold", "capture", "release"}]
      /\ page \in [Processes -> SUBSET Jobs]
  BY DEF SoleInv, TypeInv, TypeOK
<1>b. pc[i] \notin {"idle", "next"} => job[i] \in Jobs /\ JobInv(job[i])
  BY DEF SoleInv, TypeInv
<1>1. ASSUME BeginPass(i) PROVE SoleInv'
  <2>1. i \in alive /\ UNCHANGED instance /\ \A k \in Processes \ {i} : pc'[k] = pc[k]
    BY <1>1, <1>a, ConstantTypes DEF BeginPass, TypeInv, TypeOK
  <2>2. \A j \in Jobs : Same(j)
    BY <1>1 DEF BeginPass, Same
  <2>3. Working(i)'
    BY <1>1, <1>a, <1>b DEF BeginPass, Working, JobInv, Terminal, Statuses
  <2> QED
    BY <2>1, <2>2, <2>3, LocalStep
<1>2. ASSUME Process(i) PROVE SoleInv'
  <2>1. i \in alive /\ UNCHANGED instance /\ \A k \in Processes \ {i} : pc'[k] = pc[k]
    BY <1>2, <1>a DEF Process, Alone
  <2>2. \A j \in Jobs : Same(j)
    BY <1>2 DEF Process, Same
  <2>3. PICK j \in page[i] : job'[i] = j /\ (pc'[i] = "retry" \/ pc'[i] = Entry(j, status[j]))
    BY <1>2, <1>a DEF Process
  <2>4. JobInv(j) /\ status'[j] = status[j] /\ status[j] \in Statuses /\ status[j] # "absent"
    BY <1>2, <1>a DEF SoleInv, PageInv, Process
  <2>5. Working(i)'
    BY <2>3, <2>4 DEF Working, JobInv, Terminal, Statuses, Entry
  <2> QED
    BY <2>1, <2>2, <2>5, LocalStep
<1>3. ASSUME EndPass(i) PROVE SoleInv'
  <2>1. i \in alive /\ UNCHANGED instance /\ \A k \in Processes \ {i} : pc'[k] = pc[k]
    BY <1>3, <1>a DEF EndPass, Alone
  <2>2. \A j \in Jobs : Same(j)
    BY <1>3 DEF EndPass, Same
  <2>3. Working(i)'
    BY <1>3, <1>a, <1>b DEF EndPass, Working, JobInv, Terminal, Statuses
  <2> QED
    BY <2>1, <2>2, <2>3, LocalStep
<1>4. ASSUME Retry(i) PROVE SoleInv'
  <2>1. i \in alive /\ UNCHANGED instance /\ \A k \in Processes \ {i} : pc'[k] = pc[k]
    BY <1>4, <1>a DEF Retry, Alone
  <2>2. \A j \in Jobs : Same(j)
    BY <1>4 DEF Retry, Same
  <2>3. Working(i)'
    BY <1>4, <1>a, <1>b DEF Retry, Working, JobInv, Terminal, Statuses
  <2> QED
    BY <2>1, <2>2, <2>3, LocalStep
<1>5. ASSUME StepFails(i) PROVE SoleInv'
  <2>1. i \in alive /\ UNCHANGED instance /\ \A k \in Processes \ {i} : pc'[k] = pc[k]
    BY <1>5, <1>a DEF StepFails, Alone
  <2>2. \A j \in Jobs : Same(j)
    BY <1>5 DEF StepFails, Same
  <2>3. Working(i)'
    BY <1>5, <1>a, <1>b DEF StepFails, Working, JobInv, Terminal, Statuses
  <2> QED
    BY <2>1, <2>2, <2>3, LocalStep
<1>6. ASSUME Check(i) PROVE SoleInv'
  <2>1. i \in alive /\ UNCHANGED instance /\ \A k \in Processes \ {i} : pc'[k] = pc[k]
    BY <1>6, <1>a DEF Check, Alone
  <2>2. \A j \in Jobs : Same(j)
    BY <1>6 DEF Check, Same
  <2>3. Working(i)'
    BY <1>6, <1>a, <1>b DEF Check, Working, JobInv, Terminal, Statuses
  <2> QED
    BY <2>1, <2>2, <2>3, LocalStep
<1>7. ASSUME Mark(i) PROVE SoleInv'
  <2>1. i \in alive /\ UNCHANGED instance /\ \A k \in Processes \ {i} : pc'[k] = pc[k]
    BY <1>7, <1>a DEF Mark, Alone
  <2>2. job[i] \in Jobs /\ \A j \in Jobs \ {job[i]} : Same(j)
    BY <1>7, <1>a, <1>b DEF Mark, Same, SetStatus
  <2>3. ASSUME NEW j \in Jobs, j = job[i] PROVE JobInv(j)'
    BY <1>7, <1>a, <1>b, <2>3 DEF Mark, JobInv, Working, Price, Terminal, Statuses, SetStatus
  <2>4. Working(i)'
    BY <1>7, <1>a, <1>b DEF Mark, Working, JobInv, Terminal, SetStatus
  <2>5. \A j \in Jobs : Same(j) \/ JobInv(j)'
    BY <2>2, <2>3
  <2> QED
    BY <2>1, <2>4, <2>5, LocalStep
<1>8. ASSUME CreateProvider(i) PROVE SoleInv'
  <2>1. i \in alive /\ UNCHANGED instance /\ \A k \in Processes \ {i} : pc'[k] = pc[k]
    BY <1>8, <1>a DEF CreateProvider, Alone
  <2>2. job[i] \in Jobs /\ \A j \in Jobs \ {job[i]} : Same(j)
    BY <1>8, <1>a, <1>b DEF CreateProvider, Same
  <2>3. ASSUME NEW j \in Jobs, j = job[i] PROVE JobInv(j)'
    BY <1>8, <1>a, <1>b, <2>3 DEF CreateProvider, JobInv, Working, Price, Terminal, Statuses, ProviderStates
  <2>4. Working(i)'
    BY <1>8, <1>a, <1>b DEF CreateProvider, Working, JobInv, Terminal, ProviderStates
  <2>5. \A j \in Jobs : Same(j) \/ JobInv(j)'
    BY <2>2, <2>3
  <2> QED
    BY <2>1, <2>4, <2>5, LocalStep
<1>9. ASSUME Find(i) PROVE SoleInv'
  <2>1. i \in alive /\ UNCHANGED instance /\ \A k \in Processes \ {i} : pc'[k] = pc[k]
    BY <1>9, <1>a DEF Find, Alone
  <2>2. \A j \in Jobs : Same(j)
    BY <1>9 DEF Find, Same
  <2>3. Working(i)'
    BY <1>9, <1>a, <1>b DEF Find, Working, JobInv, Terminal, Statuses
  <2> QED
    BY <2>1, <2>2, <2>3, LocalStep
<1>10. ASSUME Bind(i) PROVE SoleInv'
  <2>1. i \in alive /\ UNCHANGED instance /\ \A k \in Processes \ {i} : pc'[k] = pc[k]
    BY <1>10, <1>a DEF Bind, Alone
  <2>2. job[i] \in Jobs /\ \A j \in Jobs \ {job[i]} : Same(j)
    BY <1>10, <1>a, <1>b DEF Bind, Same, SetStatus
  <2>3. ASSUME NEW j \in Jobs, j = job[i] PROVE JobInv(j)'
    BY <1>10, <1>a, <1>b, <2>3 DEF Bind, JobInv, Working, Price, Terminal, Statuses, SetStatus
  <2>4. Working(i)'
    BY <1>10, <1>a, <1>b DEF Bind, Working, JobInv, Terminal, SetStatus
  <2>5. \A j \in Jobs : Same(j) \/ JobInv(j)'
    BY <2>2, <2>3
  <2> QED
    BY <2>1, <2>4, <2>5, LocalStep
<1>11. ASSUME Reload(i) PROVE SoleInv'
  <2>1. i \in alive /\ UNCHANGED instance /\ \A k \in Processes \ {i} : pc'[k] = pc[k]
    BY <1>11, <1>a DEF Reload, Alone
  <2>2. \A j \in Jobs : Same(j)
    BY <1>11 DEF Reload, Same
  <2>3. Working(i)'
    BY <1>11, <1>a, <1>b DEF Reload, Working, JobInv, Terminal, Statuses
  <2> QED
    BY <2>1, <2>2, <2>3, LocalStep
<1>12. ASSUME Poll(i) PROVE SoleInv'
  <2>1. i \in alive /\ UNCHANGED instance /\ \A k \in Processes \ {i} : pc'[k] = pc[k]
    BY <1>12, <1>a DEF Poll, Alone
  <2>2. job[i] \in Jobs /\ \A j \in Jobs \ {job[i]} : Same(j)
    BY <1>12, <1>a, <1>b DEF Poll, Same
  <2>3. ASSUME NEW j \in Jobs, j = job[i] PROVE JobInv(j)'
    BY <1>12, <1>a, <1>b, <2>3 DEF Poll, JobInv, Working, Price, Terminal, Statuses, ProviderStates
  <2>4. Working(i)'
    BY <1>12, <1>a, <1>b DEF Poll, Working, JobInv, Terminal, ProviderStates
  <2>5. \A j \in Jobs : Same(j) \/ JobInv(j)'
    BY <2>2, <2>3
  <2> QED
    BY <2>1, <2>4, <2>5, LocalStep
<1>13. ASSUME GetProvider(i) PROVE SoleInv'
  <2>1. i \in alive /\ UNCHANGED instance /\ \A k \in Processes \ {i} : pc'[k] = pc[k]
    BY <1>13, <1>a DEF GetProvider, Alone
  <2>2. \A j \in Jobs : Same(j)
    BY <1>13 DEF GetProvider, Same
  <2>3. Working(i)'
    BY <1>13, <1>a, <1>b DEF GetProvider, Working, JobInv, Terminal, Statuses, Reported, Reaction, ProviderStates
  <2> QED
    BY <2>1, <2>2, <2>3, LocalStep
<1>14. ASSUME MarkRunning(i) PROVE SoleInv'
  <2>1. i \in alive /\ UNCHANGED instance /\ \A k \in Processes \ {i} : pc'[k] = pc[k]
    BY <1>14, <1>a DEF MarkRunning, Alone
  <2>2. job[i] \in Jobs /\ \A j \in Jobs \ {job[i]} : Same(j)
    BY <1>14, <1>a, <1>b DEF MarkRunning, Same, SetStatus
  <2>3. ASSUME NEW j \in Jobs, j = job[i] PROVE JobInv(j)'
    BY <1>14, <1>a, <1>b, <2>3 DEF MarkRunning, JobInv, Working, Price, Terminal, Statuses, SetStatus
  <2>4. Working(i)'
    BY <1>14, <1>a, <1>b DEF MarkRunning, Working, JobInv, Terminal, SetStatus
  <2>5. \A j \in Jobs : Same(j) \/ JobInv(j)'
    BY <2>2, <2>3
  <2> QED
    BY <2>1, <2>4, <2>5, LocalStep
<1>15. ASSUME MarkIndexing(i) PROVE SoleInv'
  <2>1. i \in alive /\ UNCHANGED instance /\ \A k \in Processes \ {i} : pc'[k] = pc[k]
    BY <1>15, <1>a DEF MarkIndexing, Alone
  <2>2. job[i] \in Jobs /\ \A j \in Jobs \ {job[i]} : Same(j)
    BY <1>15, <1>a, <1>b DEF MarkIndexing, Same, SetStatus
  <2>3. ASSUME NEW j \in Jobs, j = job[i] PROVE JobInv(j)'
    BY <1>15, <1>a, <1>b, <2>3 DEF MarkIndexing, JobInv, Working, Price, Terminal, Statuses, SetStatus
  <2>4. Working(i)'
    BY <1>15, <1>a, <1>b DEF MarkIndexing, Working, JobInv, Terminal, SetStatus
  <2>5. \A j \in Jobs : Same(j) \/ JobInv(j)'
    BY <2>2, <2>3
  <2> QED
    BY <2>1, <2>4, <2>5, LocalStep
<1>16. ASSUME Index(i) PROVE SoleInv'
  <2>1. i \in alive /\ UNCHANGED instance /\ \A k \in Processes \ {i} : pc'[k] = pc[k]
    BY <1>16, <1>a DEF Index, Alone
  <2>2. job[i] \in Jobs /\ \A j \in Jobs \ {job[i]} : Same(j)
    BY <1>16, <1>a, <1>b DEF Index, Same, SetStatus
  <2>3. ASSUME NEW j \in Jobs, j = job[i] PROVE JobInv(j)'
    BY <1>16, <1>a, <1>b, <2>3 DEF Index, JobInv, Working, Price, Terminal, Statuses, SetStatus, Outputs
  <2>4. Working(i)'
    BY <1>16, <1>a, <1>b DEF Index, Working, JobInv, Terminal, SetStatus
  <2>5. \A j \in Jobs : Same(j) \/ JobInv(j)'
    BY <2>2, <2>3
  <2> QED
    BY <2>1, <2>4, <2>5, LocalStep
<1>17. ASSUME Settle(i) PROVE SoleInv'
  <2>1. i \in alive /\ UNCHANGED instance /\ \A k \in Processes \ {i} : pc'[k] = pc[k]
    BY <1>17, <1>a DEF Settle, Alone
  <2>2. job[i] \in Jobs /\ \A j \in Jobs \ {job[i]} : Same(j)
    BY <1>17, <1>a, <1>b DEF Settle, Same, SetStatus, Thaw
  <2>3. ASSUME NEW j \in Jobs, j = job[i] PROVE JobInv(j)'
    <3>1. CASE ~CanSettle(j)
      BY <1>17, <1>b, <2>3, <3>1, SameJob DEF Settle, Same
    <3>2. CASE CanSettle(j)
      <4>1. claims[j] = {"hold"} /\ JobInv(j) /\ billed[j] = 0 /\ charged[j] = 0 /\ made[j] = 1 /\ provider[j] = "succeeded"
        BY <1>17, <1>a, <1>b, <2>3 DEF Settle, JobInv, Working, Terminal
      <4>2. Price(j) \in Int /\ Price(j)' = Price(j)
        BY <1>17, PriceInHold DEF Settle, Price
      <4>3. /\ status'[j] = "completed" /\ claims'[j] = {"hold", "capture"}
            /\ provider' = provider /\ made' = made /\ billed'[j] = 1 /\ charged'[j] = Price(j)
        BY <1>17, <1>a, <2>3, <3>2, <4>1, <4>2 DEF Settle, SetStatus, Thaw
      <4> QED
        BY <4>1, <4>2, <4>3 DEF JobInv, Terminal
    <3> QED
      BY <3>1, <3>2
  <2>4. Working(i)'
    BY <1>17, <1>a, <1>b DEF Settle, Working, JobInv, Terminal, SetStatus
  <2>5. \A j \in Jobs : Same(j) \/ JobInv(j)'
    BY <2>2, <2>3
  <2> QED
    BY <2>1, <2>4, <2>5, LocalStep
<1>18. ASSUME Fail(i) PROVE SoleInv'
  <2>1. i \in alive /\ UNCHANGED instance /\ \A k \in Processes \ {i} : pc'[k] = pc[k]
    BY <1>18, <1>a DEF Fail, Alone
  <2>2. job[i] \in Jobs /\ \A j \in Jobs \ {job[i]} : Same(j)
    BY <1>18, <1>a, <1>b DEF Fail, Same, SetStatus, Thaw, FailJob
  <2>3. ASSUME NEW j \in Jobs, j = job[i] PROVE JobInv(j)'
    <3>1. CASE ~CanFail(j)
      BY <1>18, <1>b, <2>3, <3>1, SameJob DEF Fail, Same
    <3>2. CASE CanFail(j)
      <4>1. claims[j] = {"hold"} /\ JobInv(j) /\ provider[j] \in {"none", "failed", "cancelled"}
        BY <1>18, <1>a, <1>b, <2>3 DEF Fail, JobInv, Working, Terminal
      <4>2. /\ status'[j] \in {"failed", "cancelled"} /\ claims'[j] = {"hold", "release"}
            /\ provider' = provider /\ made' = made /\ billed' = billed /\ charged' = charged
        BY <1>18, <1>a, <2>3, <3>2, <4>1 DEF Fail, FailJob, SetStatus, Thaw
      <4> QED
        BY <4>1, <4>2 DEF JobInv, Terminal
    <3> QED
      BY <3>1, <3>2
  <2>4. Working(i)'
    BY <1>18, <1>a, <1>b DEF Fail, Working, JobInv, Terminal, SetStatus, FailJob
  <2>5. \A j \in Jobs : Same(j) \/ JobInv(j)'
    BY <2>2, <2>3
  <2> QED
    BY <2>1, <2>4, <2>5, LocalStep
<1>19. ASSUME Clean(i) PROVE SoleInv'
  <2>1. i \in alive /\ UNCHANGED instance /\ \A k \in Processes \ {i} : pc'[k] = pc[k]
    BY <1>19, <1>a DEF Clean, Alone
  <2>2. \A j \in Jobs : Same(j)
    BY <1>19 DEF Clean, Same
  <2>3. Working(i)'
    BY <1>19, <1>a, <1>b DEF Clean, Working, JobInv, Terminal, Statuses
  <2> QED
    BY <2>1, <2>2, <2>3, LocalStep
<1>20. ASSUME Purge(i) PROVE SoleInv'
  <2>1. i \in alive /\ UNCHANGED instance /\ \A k \in Processes \ {i} : pc'[k] = pc[k]
    BY <1>20, <1>a DEF Purge, Alone
  <2>2. job[i] \in Jobs /\ \A j \in Jobs \ {job[i]} : Same(j)
    BY <1>20, <1>a, <1>b DEF Purge, Same, SetStatus
  <2>3. ASSUME NEW j \in Jobs, j = job[i] PROVE JobInv(j)'
    BY <1>20, <1>a, <1>b, <2>3 DEF Purge, JobInv, Working, Price, Terminal, Statuses, SetStatus
  <2>4. Working(i)'
    BY <1>20, <1>a, <1>b DEF Purge, Working, JobInv, Terminal, SetStatus
  <2>5. \A j \in Jobs : Same(j) \/ JobInv(j)'
    BY <2>2, <2>3
  <2> QED
    BY <2>1, <2>4, <2>5, LocalStep
<1>21. ASSUME Cancel(i) PROVE SoleInv'
  <2>1. i \in alive /\ UNCHANGED instance /\ \A k \in Processes \ {i} : pc'[k] = pc[k]
    BY <1>21, <1>a DEF Cancel, Alone
  <2>2. job[i] \in Jobs /\ \A j \in Jobs \ {job[i]} : Same(j)
    BY <1>21, <1>a, <1>b DEF Cancel, Same, SetStatus, Thaw, FailJob
  <2>3. ASSUME NEW j \in Jobs, j = job[i] PROVE JobInv(j)'
    BY <1>21, <1>a, <1>b, <2>3
    DEF Cancel, JobInv, Working, Price, Terminal, Statuses, SetStatus, Thaw, FailJob, CanFail, CanThaw
  <2>4. Working(i)'
    BY <1>21, <1>a, <1>b DEF Cancel, Working, JobInv, Terminal, SetStatus, FailJob
  <2>5. \A j \in Jobs : Same(j) \/ JobInv(j)'
    BY <2>2, <2>3
  <2> QED
    BY <2>1, <2>4, <2>5, LocalStep
<1> QED
  BY <1>1, <1>2, <1>3, <1>4, <1>5, <1>6, <1>7, <1>8, <1>9, <1>10, <1>11, <1>12, <1>13, <1>14, <1>15, <1>16,
     <1>17, <1>18, <1>19, <1>20, <1>21
  DEF WorkerStep

\* Without Overlap, every step keeps the invariant.
LEMMA SoleNext ==
  ASSUME ~Overlap
  PROVE  TypeInv /\ EscrowInv /\ PageInv /\ SoleInv /\ [Next]_vars => SoleInv'
<1> SUFFICES ASSUME TypeInv, EscrowInv, PageInv, SoleInv, [Next]_vars PROVE SoleInv'
  OBVIOUS
<1> USE DEF row, money, upstream, request, instance, control, Goto, Stay
<1>a. /\ Alone /\ \A i \in Processes : Working(i)
      /\ \A j \in Jobs : JobInv(j)
      /\ alive \subseteq Processes /\ lock \in alive \cup {None}
      /\ pc \in [Processes -> Labels] /\ job \in [Processes -> Jobs \cup {None}] /\ view \in [Processes -> Statuses]
      /\ status \in [Jobs -> Statuses] /\ success \in [Jobs -> Nat]
      /\ made \in [Jobs -> Nat] /\ provider \in [Jobs -> ProviderStates \cup {"none"}]
      /\ claims \in [Jobs -> SUBSET {"hold", "capture", "release"}]
      /\ billed \in [Jobs -> Nat] /\ charged \in [Jobs -> Int]
      /\ \A i \in Processes : pc[i] \notin {"idle", "next"} => job[i] \in Jobs
      /\ \A i \in Processes : pc[i] \notin {"idle", "next"} => status[job[i]] # "absent"
  BY DEF SoleInv, TypeInv, TypeOK, PageInv
\* A step outside the worker that leaves the jobs alone.
<1>b. ASSUME \A j \in Jobs : Same(j), Alone', \A i \in Processes : pc'[i] = "idle" \/ UNCHANGED <<pc, job, view>>
      PROVE  SoleInv'
  <2>1. \A j \in Jobs : JobInv(j)'
    BY <1>a, <1>b, SameJob
  <2>2. ASSUME NEW i \in Processes PROVE Working(i)'
    <3>1. CASE pc'[i] = "idle"
      BY <3>1 DEF Working
    <3>2. CASE UNCHANGED <<pc, job, view>> /\ pc[i] \in {"idle", "next"}
      BY <3>2 DEF Working
    <3>3. CASE UNCHANGED <<pc, job, view>> /\ pc[i] \notin {"idle", "next"}
      BY <1>a, <1>b, <3>3 DEF Working, Same
    <3> QED
      BY <1>b, <3>1, <3>2, <3>3
  <2> QED
    BY <1>b, <2>1, <2>2 DEF SoleInv
<1>1. ASSUME NEW c \in Jobs, (\E i \in Processes : Submit(i, c)) \/ Count(c) \/ AbortSubmit(c) PROVE SoleInv'
  <2>1. UNCHANGED <<row, money, upstream, instance, control>>
    BY <1>1 DEF Submit, Count, AbortSubmit
  <2>2. \A j \in Jobs : Same(j)
    BY <2>1 DEF Same
  <2>3. Alone'
    BY <1>a, <2>1 DEF Alone
  <2> QED
    BY <1>b, <2>1, <2>2, <2>3
<1>2. ASSUME NEW c \in Jobs, CommitSubmit(c) PROVE SoleInv'
  <2>1. status[c] = "absent"
    BY <1>2, <1>a DEF CommitSubmit, EscrowInv, JobInv
  <2>2. \A j \in Jobs \ {c} : Same(j)
    BY <1>2, <1>a DEF CommitSubmit, SetStatus, Same
  <2>3. /\ status'[c] = "created" /\ claims'[c] = {"hold"}
        /\ made' = made /\ provider' = provider /\ billed' = billed /\ charged' = charged
    BY <1>2, <1>a DEF CommitSubmit, SetStatus
  <2>4. JobInv(c) /\ claims[c] = {}
    BY <1>a, <2>1 DEF JobInv
  <2>5. JobInv(c)'
    BY <2>1, <2>3, <2>4 DEF JobInv, Terminal
  <2>6. \A j \in Jobs : JobInv(j)'
    BY <1>a, <2>2, <2>5, SameJob
  <2>7. UNCHANGED <<pc, job, view, alive, lock>>
    BY <1>2 DEF CommitSubmit
  <2>8. ASSUME NEW i \in Processes PROVE Working(i)'
    <3>1. CASE pc[i] \in {"idle", "next"}
      BY <2>7, <3>1 DEF Working
    <3>2. CASE pc[i] \notin {"idle", "next"}
      <4>1. job[i] \in Jobs \ {c}
        BY <1>a, <2>1, <3>2
      <4>2. Same(job[i])
        BY <2>2, <4>1
      <4> QED
        BY <1>a, <2>7, <4>2 DEF Working, Same
    <3> QED
      BY <3>1, <3>2
  <2>9. Alone'
    BY <1>a, <2>7 DEF Alone
  <2> QED
    BY <2>6, <2>8, <2>9 DEF SoleInv
<1>3. ASSUME NEW i \in Processes, Start(i) PROVE SoleInv'
  <2>1. \A j \in Jobs : Same(j)
    BY <1>3 DEF Start, Same
  <2>2. Alone'
    BY <1>3, <1>a, ConstantTypes DEF Start, Alone
  <2> QED
    BY <1>3, <1>b, <2>1, <2>2 DEF Start
<1>4. ASSUME NEW i \in Processes, Crash(i) PROVE SoleInv'
  <2>1. \A j \in Jobs : Same(j)
    BY <1>4 DEF Crash, Same
  <2>2. \A k \in Processes : pc'[k] = "idle"
    BY <1>4, <1>a DEF Crash, Alone
  <2>3. Alone'
    BY <1>4, <1>a, <2>2 DEF Crash, Alone
  <2> QED
    BY <1>b, <2>1, <2>2, <2>3
<1>5. ASSUME NEW i \in Processes, NEW j \in Jobs, BeginCancel(i, j) PROVE SoleInv'
  <2>1. i \in alive /\ UNCHANGED instance /\ \A k \in Processes \ {i} : pc'[k] = pc[k]
    BY <1>5, <1>a DEF BeginCancel
  <2>2. \A k \in Jobs : Same(k)
    BY <1>5 DEF BeginCancel, Same
  <2>3. Working(i)'
    BY <1>5, <1>a DEF BeginCancel, Working, Unfinished
  <2> QED
    BY <2>1, <2>2, <2>3, LocalStep
<1>6. ASSUME NEW i \in Processes, NEW j \in Jobs, Hide(i, j) PROVE SoleInv'
  <2>1. \A k \in Jobs : Same(k)
    BY <1>6 DEF Hide, Same
  <2>2. Alone'
    BY <1>6, <1>a DEF Hide, Alone
  <2> QED
    BY <1>6, <1>b, <2>1, <2>2 DEF Hide
<1>7. ASSUME NEW i \in Processes, NEW j \in Jobs, DeleteOutputs(i, j) PROVE SoleInv'
  <2>1. i \in alive /\ UNCHANGED instance /\ \A k \in Processes \ {i} : pc'[k] = pc[k]
    BY <1>7, <1>a DEF DeleteOutputs
  <2>2. \A k \in Jobs \ {j} : Same(k)
    BY <1>7, <1>a DEF DeleteOutputs, SetStatus, Same
  <2>3. JobInv(j)'
    BY <1>7, <1>a DEF DeleteOutputs, SetStatus, JobInv, Price, Terminal
  <2>4. Working(i)'
    BY <1>7, <1>a DEF DeleteOutputs, Working
  <2>5. \A k \in Jobs : Same(k) \/ JobInv(k)'
    BY <2>2, <2>3
  <2> QED
    BY <2>1, <2>4, <2>5, LocalStep
<1>8. ASSUME NEW j \in Jobs, ProviderStep(j) PROVE SoleInv'
  <2>1. /\ provider[j] \in {"pending", "running"} /\ provider' \in [Jobs -> ProviderStates \cup {"none"}]
        /\ provider'[j] \in ProviderStates /\ \A k \in Jobs \ {j} : provider'[k] = provider[k]
        /\ UNCHANGED <<row, money, made, instance, control>>
    BY <1>8, <1>a DEF ProviderStep, ProviderStates
  <2>2. \A k \in Jobs \ {j} : Same(k)
    BY <2>1 DEF Same
  <2>3. JobInv(j)'
    BY <1>a, <2>1 DEF JobInv, Price, ProviderStates
  <2>4. \A k \in Jobs : JobInv(k)'
    BY <1>a, <2>2, <2>3, SameJob
  <2>5. ASSUME NEW i \in Processes PROVE Working(i)'
    BY <1>a, <2>1 DEF Working, ProviderStates
  <2>6. Alone'
    BY <1>a, <2>1 DEF Alone
  <2> QED
    BY <2>4, <2>5, <2>6 DEF SoleInv
<1>9. ASSUME NEW j \in Jobs, Expire(j) \/ Revoke(j) PROVE SoleInv'
  <2>1. UNCHANGED <<status, success, money, upstream, instance, control>>
    BY <1>9 DEF Expire, Revoke
  <2>2. (\A k \in Jobs : Same(k)) /\ Alone'
    BY <1>a, <2>1 DEF Same, Alone
  <2> QED
    BY <1>b, <2>1, <2>2
<1>10. CASE UNCHANGED vars \/ \E u \in Users : DeleteUser(u)
  <2>1. UNCHANGED <<row, money, upstream, instance, control>>
    BY <1>10 DEF vars, DeleteUser
  <2>2. (\A k \in Jobs : Same(k)) /\ Alone'
    BY <1>a, <2>1 DEF Same, Alone
  <2> QED
    BY <1>b, <2>1, <2>2
<1>11. ASSUME NEW i \in Processes, LoseLock(i) PROVE FALSE
  BY <1>11 DEF LoseLock
<1> QED
  BY <1>1, <1>2, <1>3, <1>4, <1>5, <1>6, <1>7, <1>8, <1>9, <1>10, <1>11, SoleWorker
  DEF Next, SubmitStep, ClientStep

\* The invariants hold from the start.
LEMMA SoleInit == Init => EscrowInv /\ PageInv /\ SoleInv
  BY DEF Init, EscrowInv, PageInv, SoleInv, Alone, Working, JobInv, Terminal

\* Without Overlap, the invariants hold for ever.
LEMMA SoleInvariance ==
  ASSUME ~Overlap
  PROVE  Spec => [](TypeInv /\ EscrowInv /\ PageInv /\ SoleInv)
<1>1. TypeInv /\ EscrowInv /\ PageInv /\ SoleInv /\ [Next]_vars => SoleInv'
  BY SoleNext
<1> QED
  BY <1>1, SoleInit, TypeInit, TypeNext, EscrowNext, PageNext, PTL DEF Spec

\* While a process does not outlive its instance lock, no job is created with
\* the provider twice, whatever crashes, lost answers and failed statements
\* come between.
THEOREM ProviderJobIsUnique == ASSUME ~Overlap PROVE Spec => []OneProviderJob
<1>1. SoleInv => OneProviderJob
  BY DEF SoleInv, JobInv, OneProviderJob
<1> QED
  BY <1>1, SoleInvariance, PTL

\* While a process does not outlive its instance lock, a refunded job is not
\* and will not be worked on by the provider.
THEOREM RefundFollowsProvider == ASSUME ~Overlap PROVE Spec => []RefundIsFinal
<1>1. SoleInv /\ TypeInv => RefundIsFinal
  BY DEF SoleInv, JobInv, Working, RefundIsFinal, Terminal
<1> QED
  BY <1>1, SoleInvariance, PTL

\* While a process does not outlive its instance lock, the status of a job
\* tells where its money is.
THEOREM StatusTellsMoney == ASSUME ~Overlap PROVE Spec => []StatusExplainsMoney
<1>1. SoleInv => StatusExplainsMoney
  BY DEF SoleInv, JobInv, StatusExplainsMoney, Held, Unfinished, Terminal
<1> QED
  BY <1>1, SoleInvariance, PTL

\* Without Overlap, no step takes a job back from its end.
LEMMA FinalNext == TypeInv /\ EscrowInv /\ SoleInv /\ [Next]_vars => [FinalStep]_vars
<1> SUFFICES ASSUME TypeInv, EscrowInv, SoleInv, [Next]_vars, NEW j \in Jobs, status[j] \in Terminal
             PROVE  status'[j] \in {status[j], "output_deleted"} /\ claims'[j] = claims[j]
  BY DEF FinalStep
<1> USE DEF row, money, upstream, request, instance, control, Goto, Stay
<1>a. /\ \A i \in Processes : Working(i)
      /\ JobInv(j)
      /\ status \in [Jobs -> Statuses] /\ claims \in [Jobs -> SUBSET {"hold", "capture", "release"}]
      /\ \A i \in Processes : pc[i] \notin {"idle", "next"} => job[i] \in Jobs
  BY DEF SoleInv, TypeInv, TypeOK
<1> DEFINE Kept == status'[j] \in {status[j], "output_deleted"} /\ claims'[j] = claims[j]
<1>1. ASSUME NEW c \in Jobs, SubmitStep(c) PROVE Kept
  <2>1. CASE CommitSubmit(c)
    <3>1. c # j
      BY <1>a, <2>1 DEF CommitSubmit, EscrowInv, JobInv, Terminal
    <3> QED
      BY <1>a, <2>1, <3>1 DEF CommitSubmit, SetStatus
  <2>2. CASE ~CommitSubmit(c)
    BY <1>1, <2>2 DEF SubmitStep, Submit, Count, AbortSubmit
  <2> QED
    BY <2>1, <2>2
<1>2. ASSUME NEW i \in Processes, Mark(i) \/ Bind(i) \/ MarkRunning(i) \/ MarkIndexing(i) \/ Index(i) PROVE Kept
  <2>1. job[i] \in Jobs /\ job[i] # j
    BY <1>2, <1>a DEF Mark, Bind, MarkRunning, MarkIndexing, Index, Working, Terminal
  <2> QED
    BY <1>2, <1>a, <2>1 DEF Mark, Bind, MarkRunning, MarkIndexing, Index, SetStatus
<1>3. ASSUME NEW i \in Processes, Settle(i) \/ Fail(i) \/ Cancel(i) PROVE Kept
  <2>1. job[i] \in Jobs /\ job[i] # j
    BY <1>3, <1>a DEF Settle, Fail, Cancel, Working, Terminal
  <2> QED
    BY <1>3, <1>a, <2>1 DEF Settle, Fail, Cancel, FailJob, Thaw, SetStatus
<1>4. ASSUME NEW i \in Processes, Purge(i) PROVE Kept
  BY <1>4, <1>a DEF Purge, SetStatus
<1>5. ASSUME NEW i \in Processes, WorkerStep(i), ~Mark(i), ~Bind(i), ~MarkRunning(i), ~MarkIndexing(i), ~Index(i),
             ~Settle(i), ~Fail(i), ~Cancel(i), ~Purge(i)
      PROVE  Kept
  BY <1>5 DEF WorkerStep, BeginPass, Process, EndPass, Retry, StepFails, Check, CreateProvider, Find, Reload,
              Poll, GetProvider, Clean
<1>6. ASSUME NEW i \in Processes, Start(i) \/ Crash(i) \/ LoseLock(i) PROVE Kept
  BY <1>6 DEF Start, Crash, LoseLock
<1>7. ASSUME NEW i \in Processes, NEW k \in Jobs, ClientStep(i, k) PROVE Kept
  BY <1>7, <1>a DEF ClientStep, BeginCancel, Hide, DeleteOutputs, SetStatus
<1>8. ASSUME NEW k \in Jobs, ProviderStep(k) \/ Expire(k) \/ Revoke(k) PROVE Kept
  BY <1>8 DEF ProviderStep, Expire, Revoke
<1>9. CASE UNCHANGED vars \/ \E u \in Users : DeleteUser(u)
  BY <1>9 DEF vars, DeleteUser
<1> QED
  BY <1>1, <1>2, <1>3, <1>4, <1>5, <1>6, <1>7, <1>8, <1>9 DEF Next

\* While a process does not outlive its instance lock, a finished job stays
\* finished and its money where it is.
THEOREM FinishedStaysFinished == ASSUME ~Overlap PROVE Spec => EndIsFinal
  BY SoleInvariance, FinalNext, PTL DEF Spec, EndIsFinal

-----------------------------------------------------------------------------
(* Submissions that race                                                   *)

CountedOf(u) == {c \in JobsOf(u) : call[c] = "counted"}
UnfinishedOf(u) == {j \in Unfinished : UserOf[j] = u}
KeysOf(u) == {ApiKeyOf[j] : j \in {j \in Jobs : UserOf[j] = u}}

\* The advisory lock of a key is held by one submission, which found no job
\* with its Idempotency-Key.
LockInv ==
    /\ \A c, d \in Jobs : InSubmit(c) /\ InSubmit(d) /\ ApiKeyOf[c] = ApiKeyOf[d] => c = d
    /\ \A c \in Jobs : InSubmit(c) => ~Replayed(c)
    /\ \A c \in Jobs : call[c] # "done" => status[c] = "absent"

\* A user's unfinished jobs and the submissions that have counted them.
RoomInv ==
    \A u \in Users : Cardinality(UnfinishedOf(u)) + Cardinality(CountedOf(u)) < MaxUnfinished + Cardinality(KeysOf(u))

\* A step that is no part of a submission, as submissions see it.
Aside ==
    /\ \A j \in Jobs : status'[j] = "absent" <=> status[j] = "absent"
    /\ \A c \in Jobs : call'[c] \in {call[c], "done"}

\* All other steps are aside: they work on jobs that exist.
LEMMA StepsAside ==
  ASSUME TypeInv, PageInv, [Next]_vars
  PROVE  Aside \/ \E c \in Jobs : SubmitStep(c)
<1> USE DEF row, money, upstream, request, instance, control, Goto, Stay
<1>a. /\ status \in [Jobs -> Statuses]
      /\ \A i \in Processes : pc[i] \notin {"idle", "next"} => job[i] \in Jobs /\ status[job[i]] # "absent"
  BY DEF TypeInv, TypeOK, PageInv
<1>1. ASSUME NEW i \in Processes, Mark(i) \/ Bind(i) \/ MarkRunning(i) \/ MarkIndexing(i) \/ Index(i) PROVE Aside
  BY <1>1, <1>a DEF Mark, Bind, MarkRunning, MarkIndexing, Index, SetStatus, Aside
<1>2. ASSUME NEW i \in Processes, Settle(i) PROVE Aside
  BY <1>2, <1>a DEF Settle, SetStatus, Aside
<1>3. ASSUME NEW i \in Processes, Fail(i) PROVE Aside
  BY <1>3, <1>a DEF Fail, FailJob, SetStatus, Aside
<1>4. ASSUME NEW i \in Processes, Cancel(i) PROVE Aside
  BY <1>4, <1>a DEF Cancel, FailJob, SetStatus, Aside
<1>5. ASSUME NEW i \in Processes, Purge(i) PROVE Aside
  BY <1>5, <1>a DEF Purge, SetStatus, Aside
<1>6. ASSUME NEW i \in Processes, WorkerStep(i), ~Mark(i), ~Bind(i), ~MarkRunning(i), ~MarkIndexing(i), ~Index(i),
             ~Settle(i), ~Fail(i), ~Cancel(i), ~Purge(i)
      PROVE  Aside
  BY <1>6 DEF WorkerStep, BeginPass, Process, EndPass, Retry, StepFails, Check, CreateProvider, Find, Reload,
              Poll, GetProvider, Clean, Aside
<1>7. ASSUME NEW i \in Processes, Start(i) \/ Crash(i) \/ LoseLock(i) PROVE Aside
  BY <1>7 DEF Start, Crash, LoseLock, Aside
<1>8. ASSUME NEW i \in Processes, NEW k \in Jobs, ClientStep(i, k) PROVE Aside
  BY <1>8, <1>a DEF ClientStep, BeginCancel, Hide, DeleteOutputs, SetStatus, Terminal, Aside
<1>9. ASSUME NEW k \in Jobs, ProviderStep(k) \/ Expire(k) \/ Revoke(k) PROVE Aside
  BY <1>9 DEF ProviderStep, Expire, Revoke, Aside
<1>10. CASE UNCHANGED vars \/ \E u \in Users : DeleteUser(u)
  BY <1>10 DEF vars, DeleteUser, Aside
<1> QED
  BY <1>1, <1>2, <1>3, <1>4, <1>5, <1>6, <1>7, <1>8, <1>9, <1>10 DEF Next

\* A step of a submission, as the others see it.
Submits(c) ==
    /\ \A d \in Jobs \ {c} : call'[d] = call[d] /\ status'[d] = status[d]
    /\ \/ /\ call[c] = "new" /\ call'[c] = "locked" /\ status' = status /\ ~Replayed(c)
          /\ \A d \in Jobs : ApiKeyOf[d] = ApiKeyOf[c] => ~InSubmit(d)
       \/ /\ call[c] = "locked" /\ call'[c] = "counted" /\ status' = status
          /\ Cardinality(UnfinishedOf(UserOf[c])) < MaxUnfinished
       \/ call'[c] = "done" /\ status' = status
       \/ call[c] = "counted" /\ call'[c] = "done" /\ status'[c] = "created"

\* These are the steps of a submission.
LEMMA SubmissionSteps == ASSUME TypeInv, NEW c \in Jobs, SubmitStep(c) PROVE Submits(c)
<1> USE DEF row, EndCall, UnfinishedOf, Submits
<1>1. call \in [Jobs -> {"new", "locked", "counted", "done"}] /\ status \in [Jobs -> Statuses]
  BY DEF TypeInv, TypeOK
<1>2. ASSUME NEW i \in Processes, Submit(i, c) PROVE Submits(c)
  BY <1>1, <1>2 DEF Submit
<1>3. ASSUME Count(c) PROVE Submits(c)
  BY <1>1, <1>3 DEF Count
<1>4. ASSUME CommitSubmit(c) PROVE Submits(c)
  BY <1>1, <1>4 DEF CommitSubmit, SetStatus
<1>5. ASSUME AbortSubmit(c) PROVE Submits(c)
  BY <1>1, <1>5 DEF AbortSubmit
<1> QED
  BY <1>2, <1>3, <1>4, <1>5 DEF SubmitStep

\* The lock of a key, for any number of processes, overlapping or not.
LEMMA LockNext == TypeInv /\ PageInv /\ LockInv /\ OneJobPerKey /\ [Next]_vars => LockInv' /\ OneJobPerKey'
<1> SUFFICES ASSUME TypeInv, PageInv, LockInv, OneJobPerKey, [Next]_vars PROVE LockInv' /\ OneJobPerKey'
  OBVIOUS
<1>1. CASE Aside
  <2>1. \A c \in Jobs : InSubmit(c)' => InSubmit(c)
    BY <1>1 DEF Aside, InSubmit
  <2>2. \A c \in Jobs : Replayed(c)' <=> Replayed(c)
    BY <1>1 DEF Aside, Replayed
  <2>3. LockInv'
    BY <1>1, <2>1, <2>2 DEF Aside, LockInv
  <2>4. OneJobPerKey'
    BY <1>1 DEF Aside, OneJobPerKey
  <2> QED
    BY <2>3, <2>4
<1>2. ASSUME NEW c \in Jobs, SubmitStep(c) PROVE LockInv' /\ OneJobPerKey'
  <2>1. \A d \in Jobs \ {c} : call'[d] = call[d] /\ status'[d] = status[d]
    BY <1>2, SubmissionSteps DEF Submits
  <2>2. CASE call[c] = "new" /\ call'[c] = "locked" /\ status' = status /\ ~Replayed(c)
             /\ \A d \in Jobs : ApiKeyOf[d] = ApiKeyOf[c] => ~InSubmit(d)
    BY <2>1, <2>2 DEF LockInv, OneJobPerKey, InSubmit, Replayed
  <2>3. CASE call[c] = "locked" /\ call'[c] = "counted" /\ status' = status
    BY <2>1, <2>3 DEF LockInv, OneJobPerKey, InSubmit, Replayed
  <2>4. CASE call'[c] = "done" /\ status' = status
    BY <2>1, <2>4 DEF LockInv, OneJobPerKey, InSubmit, Replayed
  <2>5. CASE call[c] = "counted" /\ call'[c] = "done" /\ status'[c] = "created"
    <3>1. InSubmit(c) /\ ~Replayed(c)
      BY <2>5 DEF InSubmit, LockInv
    <3>2. OneJobPerKey'
      BY <2>1, <2>5, <3>1 DEF Replayed, OneJobPerKey
    <3>3. \A d \in Jobs : InSubmit(d)' => d # c /\ InSubmit(d) /\ ApiKeyOf[d] # ApiKeyOf[c]
      BY <2>1, <2>5, <3>1 DEF InSubmit, LockInv
    <3>4. \A d \in Jobs : InSubmit(d)' => ~Replayed(d)'
      BY <2>1, <3>3 DEF Replayed, LockInv
    <3>5. \A d \in Jobs : call'[d] # "done" => status'[d] = "absent"
      BY <2>1, <2>5 DEF LockInv
    <3> QED
      BY <3>2, <3>3, <3>4, <3>5 DEF LockInv
  <2> QED
    BY <1>2, SubmissionSteps, <2>2, <2>3, <2>4, <2>5 DEF Submits
<1> QED
  BY StepsAside, <1>1, <1>2

\* No job is created twice for an Idempotency-Key, however many processes
\* take submissions and whichever of them crash.
THEOREM KeysMakeOneJob == Spec => []OneJobPerKey
<1>1. Init => TypeInv /\ PageInv /\ LockInv /\ OneJobPerKey
  BY TypeInit DEF Init, PageInv, LockInv, OneJobPerKey, InSubmit
<1> QED
  BY <1>1, TypeNext, PageNext, LockNext, PTL DEF Spec

\* The sets counted are finite.
LEMMA RoomSets ==
  ASSUME NEW u \in Users
  PROVE  /\ IsFiniteSet(UnfinishedOf(u)) /\ IsFiniteSet(CountedOf(u)) /\ IsFiniteSet(KeysOf(u))
         /\ Cardinality(UnfinishedOf(u)) \in Nat /\ Cardinality(CountedOf(u)) \in Nat /\ Cardinality(KeysOf(u)) \in Nat
<1>1. IsFiniteSet(UnfinishedOf(u)) /\ IsFiniteSet(CountedOf(u)) /\ IsFiniteSet(JobsOf(u))
  BY FS_Subset, BatchAssumption DEF UnfinishedOf, Unfinished, CountedOf, JobsOf
<1> DEFINE key == [j \in JobsOf(u) |-> ApiKeyOf[j]]
<1>2. key \in Surjection(JobsOf(u), KeysOf(u))
  BY DEF Surjection, JobsOf, KeysOf
<1>3. IsFiniteSet(KeysOf(u))
  BY <1>1, <1>2, FS_Surjection
<1> QED
  BY <1>1, <1>3, FS_CardinalityType

\* Submissions of one user that are in progress at once have different keys.
LEMMA CountedHaveKeys ==
  ASSUME LockInv, NEW u \in Users, NEW C \in SUBSET JobsOf(u), \A c \in C : InSubmit(c)
  PROVE  Cardinality(C) <= Cardinality(KeysOf(u))
<1> DEFINE key == [c \in C |-> ApiKeyOf[c]]
<1>1. key \in Injection(C, KeysOf(u))
  BY DEF Injection, IsInjective, JobsOf, KeysOf, LockInv
<1> QED
  BY <1>1, RoomSets, FS_Injection

\* What a count leaves room for, as the steps of others cannot fill it.
LEMMA RoomNext ==
  ASSUME TypeInv, PageInv, LockInv, EscrowInv, SoleInv, RoomInv, [Next]_vars
  PROVE  RoomInv'
<1> SUFFICES ASSUME NEW u \in Users
             PROVE  Cardinality(UnfinishedOf(u)') + Cardinality(CountedOf(u)')
                      < MaxUnfinished + Cardinality(KeysOf(u))
  BY DEF RoomInv, KeysOf
<1> DEFINE U == UnfinishedOf(u)
           C == CountedOf(u)
<1>a. /\ Cardinality(U) + Cardinality(C) < MaxUnfinished + Cardinality(KeysOf(u))
      /\ Cardinality(U) \in Nat /\ Cardinality(C) \in Nat /\ Cardinality(KeysOf(u)) \in Nat /\ MaxUnfinished \in Nat
      /\ IsFiniteSet(U) /\ IsFiniteSet(C)
  BY RoomSets, BatchAssumption DEF RoomInv
<1>b. \A j \in Jobs : status[j] \in Terminal => status'[j] \in Terminal
  BY FinalNext DEF FinalStep, Terminal, vars, row
<1>1. CASE Aside
  <2>1. U' \subseteq U /\ C' \subseteq C
    BY <1>1, <1>b DEF Aside, UnfinishedOf, Unfinished, CountedOf, JobsOf
  <2>2. /\ Cardinality(U') \in Nat /\ Cardinality(C') \in Nat
        /\ Cardinality(U') <= Cardinality(U) /\ Cardinality(C') <= Cardinality(C)
    BY <2>1, <1>a, FS_Subset, FS_CardinalityType
  <2> QED
    BY <1>a, <2>2
<1>2. ASSUME NEW c \in Jobs, SubmitStep(c)
      PROVE  Cardinality(U') + Cardinality(C') < MaxUnfinished + Cardinality(KeysOf(u))
  <2>a. Submits(c)
    BY <1>2, SubmissionSteps
  <2>b. call \in [Jobs -> {"new", "locked", "counted", "done"}]
    BY DEF TypeInv, TypeOK
  <2>1. CASE /\ call[c] = "locked" /\ call'[c] = "counted" /\ status' = status /\ UserOf[c] = u
             /\ Cardinality(U) < MaxUnfinished
    <3>1. U' = U
      BY <2>1 DEF UnfinishedOf, Unfinished
    <3>2. C' \in SUBSET JobsOf(u) /\ \A d \in C' : InSubmit(d)
      BY <2>a, <2>1 DEF Submits, CountedOf, JobsOf, InSubmit
    <3>3. Cardinality(C') <= Cardinality(KeysOf(u))
      BY <3>2, CountedHaveKeys
    <3>4. Cardinality(C') \in Nat
      BY <3>2, RoomSets, FS_Subset, FS_CardinalityType, BatchAssumption DEF JobsOf
    <3> QED
      BY <1>a, <2>1, <3>1, <3>3, <3>4
  <2>2. CASE /\ call[c] = "counted" /\ call'[c] = "done" /\ status'[c] = "created" /\ UserOf[c] = u
    <3>1. status[c] = "absent" /\ c \in C /\ c \notin U
      BY <2>2 DEF LockInv, CountedOf, JobsOf, UnfinishedOf, Unfinished
    <3>2. U' = U \cup {c} /\ C' = C \ {c}
      BY <2>a, <2>2 DEF Submits, CountedOf, JobsOf, UnfinishedOf, Unfinished, Terminal
    <3> HIDE DEF U, C
    <3>3. Cardinality(U \cup {c}) = Cardinality(U) + 1
      BY <1>a, <3>1, FS_AddElement
    <3>4. Cardinality(C \ {c}) = Cardinality(C) - 1
      BY <1>a, <3>1, FS_RemoveElement
    <3> QED
      BY <1>a, <3>2, <3>3, <3>4
  <2>3. CASE \/ UserOf[c] # u
             \/ status' = status /\ call'[c] # "counted"
    <3>1. U' \subseteq U /\ C' \subseteq C
      BY <2>a, <2>3 DEF Submits, UnfinishedOf, Unfinished, CountedOf, JobsOf
    <3>2. /\ Cardinality(U') \in Nat /\ Cardinality(C') \in Nat
          /\ Cardinality(U') <= Cardinality(U) /\ Cardinality(C') <= Cardinality(C)
      BY <3>1, <1>a, FS_Subset, FS_CardinalityType
    <3> QED
      BY <1>a, <3>2
  <2> QED
    BY <2>a, <2>1, <2>2, <2>3 DEF Submits
<1> QED
  BY StepsAside, <1>1, <1>2

\* While a process does not outlive its instance lock, submissions that race
\* make one job for an Idempotency-Key, and exceed a user's cap of unfinished
\* jobs by less than the number of the user's keys.
THEOREM SubmissionsStayBounded == ASSUME ~Overlap PROVE Spec => []SubmissionsBounded
<1>1. Init => LockInv /\ OneJobPerKey /\ RoomInv
  <2> SUFFICES ASSUME Init PROVE RoomInv
    BY DEF Init, LockInv, OneJobPerKey, InSubmit
  <2>1. \A u \in Users : UnfinishedOf(u) = {} /\ CountedOf(u) = {}
    BY DEF Init, UnfinishedOf, Unfinished, CountedOf, JobsOf
  <2>2. MaxUnfinished \in Nat \ {0}
    BY BatchAssumption
  <2> QED
    BY <2>1, <2>2, RoomSets, FS_EmptySet DEF RoomInv
<1>2. OneJobPerKey /\ RoomInv => SubmissionsBounded
  <2> SUFFICES ASSUME RoomInv PROVE UnfinishedBounded
    BY DEF SubmissionsBounded
  <2> SUFFICES ASSUME NEW u \in Users
               PROVE  Cardinality(UnfinishedOf(u)) < MaxUnfinished + Cardinality(KeysOf(u))
    BY DEF UnfinishedBounded, UnfinishedOf, KeysOf
  <2>1. MaxUnfinished \in Nat
    BY BatchAssumption
  <2> QED
    BY <2>1, RoomSets DEF RoomInv
<1>3. TypeInv /\ PageInv /\ LockInv /\ EscrowInv /\ SoleInv /\ RoomInv /\ [Next]_vars => RoomInv'
  BY RoomNext
<1> QED
  BY <1>1, <1>2, <1>3, SoleInvariance, LockNext, PTL DEF Spec

=============================================================================
