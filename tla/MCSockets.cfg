\* One realtime session of three half-seconds with a checkpoint every two, two
\* failures and one stop or crash; a connection of three turns over two
\* accounts with one edit and room for two snapshots; three calls to a voice
\* library over two accounts, one rotation and one failure.
SPECIFICATION SocketsSpec
CONSTANTS
    RtSessions = {"s1"}
    RtMaxSockets = 1
    RtHour = 3
    RtInterval = 2
    RtMaxFaults = 2
    RtMaxCrashes = 1
    WsAccounts = {"a1", "a2"}
    WsHome = "a1"
    WsMaxTurns = 3
    WsMaxEdits = 1
    WsKeep = 2
    WsKeepIds = 2
    WsLimit = 3
    WsSnapshot = 2
    WsSizes = {1}
    CvCalls = {c1, c2, c3}
    CvAccounts = {b1, b2}
    CvNobody = CvNobody
    CvMaxEdits = 1
    CvMaxFaults = 1
CHECK_DEADLOCK FALSE
INVARIANTS RealtimeBilled ContinuationFaithful LibraryFaithful
PROPERTIES ConnectionsEnd
