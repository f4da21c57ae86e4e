------------------------------ MODULE MCTasks ------------------------------
(***************************************************************************)
(* Small instances of the three kinds of asynchronous tasks for TLC.  They *)
(* have nothing in common but saveReceipt, of which each has its own       *)
(* receipts, so a behaviour is one of a single component.                  *)
(***************************************************************************)
EXTENDS ImageTasks, BackgroundResponses, VideoTasks

VARIABLE focus

TasksInit == ImageInit /\ BgInit /\ VideoInit /\ focus \in {"image", "background", "video"}

TasksNext ==
    /\ UNCHANGED focus
    /\ \/ focus = "image" /\ ImageNext /\ UNCHANGED <<bgVars, vidVars>>
       \/ focus = "background" /\ BgNext /\ UNCHANGED <<imgVars, vidVars>>
       \/ focus = "video" /\ VideoNext /\ UNCHANGED <<imgVars, bgVars>>

TasksSpec ==
    /\ TasksInit /\ [][TasksNext]_<<focus, imgVars, bgVars, vidVars>>
    /\ ImageFairness /\ BgFairness /\ VideoFairness

\* The types are kept, and work and its record agree: the pending sets hold exactly the tasks that are
\* not settled and stay within their caps, and no video of which a client may
\* be billed is without its record (the Lua scripts of image_tasks.go and
\* video_tasks.go).
TasksAccounted ==
    /\ ImageTypeOK /\ BgTypeOK /\ VideoTypeOK
    /\ ImageQueueExact /\ VideoQueueExact /\ NoOrphanVideo

\* Each kind of task is a paid task: it is sent once, a result is published
\* only when it is charged, and what was published stands, through crashes and
\* failures of Redis and PostgreSQL between any two steps.
ImplementPaidTask == ImageImplementsPaidTask /\ BgImplementsPaidTask /\ VideoImplementsPaidTask

\* Each recorded task ends: under fair scheduling of the workers no failure, crash,
\* cancellation or repeated deletion leaves one under way for ever, but for two
\* kinds the code itself cannot bring to an end: a background submission whose
\* outcome is unknown (BgUncertain; responses_background.go:148), and a video
\* that was deleted at the provider after it had finished and before anybody
\* had polled its result (VideoLost; video_tasks.go:722).
TasksEnd == ImageTasksEnd /\ BgTasksEnd /\ VideoTasksEnd
=============================================================================
