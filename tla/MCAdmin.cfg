\* One small instance of each component; the bounds are explained in README.md.
SPECIFICATION AdminSpec
CONSTANTS
    PxProxies = {"p1", "p2", "p3"}  PxAccounts = {"a1"}  NoProxy = "none"  PxAdmins = {t1, t2}
    PxTargets = {1, 2}  PxDepth = 3  PxMaxEdits = 2  PxFallback <- MCFallback  PxAssigned <- MCAssigned
    GgGroups = {"g1", "g2", "g3"}  GgAdmins = {t1, t2}  NoGroup = "none"  GgMaxChain = 3  GgMaxEdits = 4
    SsUsers = {"u1", "u2"}  SsClients = {t1, t2}  SsNobody = "nobody"
    SsMaxSessions = 1  SsMaxRefresh = 1  SsMaxChanges = 2
    KaKeys = {"k1", "k2"}  KaGroups = {"g1", "g2"}  NoKeyGroup = "none"  KaMaxEdits = 3
    CoModels <- MCModels  CoEndpoints = {"e1"}  CoIds = {1, 2, 3}  CoPriorities = {1, 2}  CoTarget <- MCTarget  CoUpstream <- MCUpstream
    CoAccounts = {"a1", "a2", "a3"}  CoPlatform <- MCPlatform  CoDetect <- MCDetect  NoPlatform = "none"  CoMaxEdits = 3
    SpRequests = {q1, q2}  DayTicks = 2  ShortTicks = 1  LongTicks = 4  MonthTicks = 3  SpLimits = {0, 1}
    SpMaxClock = 3  SpMaxSpent = 2  SpMaxEdits = 1
    c1 = c1  c2 = c2  c3 = c3  k1 = k1  f1 = f1  f2 = f2  None = None  t1 = t1  t2 = t2  q1 = q1  q2 = q2
    Calls = {c1, c2, c3}  Keys = {k1}  Fingerprints = {f1, f2}
    KeyOf <- MCKeyOf  Fingerprint <- MCFingerprint  Careful = {c2}  MaxFaults = 2
CHECK_DEADLOCK FALSE
INVARIANTS ProxiesSound RoutingSound AccessRevocable SpendingExact OneOpenCall ReplayIsOriginal
PROPERTIES NeverTakenOver
