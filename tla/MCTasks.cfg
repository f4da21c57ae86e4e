\* Two image tasks for one place with three faults; two video tasks for one
\* place and two background responses for one place, whose provider may
\* give one response id twice, each with a client and two faults.
SPECIFICATION TasksSpec
CONSTANTS
    ImageIds = {i1, i2}
    ImageCap = 1
    MaxImageFaults = 3
    NoTask = NoTask
    BgTasks = {b1, b2}
    BgClients = {bc}
    BgWorker = bw
    BgResponseIds = {r1}
    BgCap = 1
    MaxBgFaults = 2
    NoBg = NoBg
    VideoIds = {v1, v2}
    VideoClients = {vc}
    VideoWorker = vw
    VideoCap = 1
    MaxVideoFaults = 2
    NoVideo = NoVideo
CHECK_DEADLOCK FALSE
INVARIANTS TasksAccounted ResponsesStayPut
PROPERTIES ImplementPaidTask TasksEnd
