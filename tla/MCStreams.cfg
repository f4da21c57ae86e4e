\* Streams of two contents and at most four fragments; one request under a
\* change of price files or cards; two searches at two providers, two ends of a month, resets
\* or edits and one failure of Redis; two activities at a time on one account.
SPECIFICATION StreamsSpec
CONSTANTS
    Bridges <- MCBridges
    FrameLimit = 8
    Places = {1, 2}
    MaxContents = 2
    MaxSaid = 4
    MaxNative = 2
    PrModels = {"m", "md"}
    PrPlatforms = {"p", "q", "r"}
    PrPlatform = "p"
    PrNames <- MCNames
    PrFiles <- MCFiles
    PrChannels <- MCChannels
    PrGroups <- MCGroups
    PrUsages <- MCUsages
    PrDay = 2
    PrMaxEdits = 1
    SqProviders <- MCProviders
    SqSearches = {q1, q2}
    SqLimits = {0, 1}
    SqMaxTurns = 2
    SqMaxFaults = 1
    HaRequests = {q1, q2}
    TimeoutThreshold = 2
    Cooldowns = {1, 2}
    HaMaxClock = 2
    HaMaxVer = 3
    HaMaxAdmin = 1
    HaMaxPlan = 1
    HaMaxBusy = 2
INVARIANTS StreamFaithful SettledBeforeEnd PricesSound QuotaKept HealthFaithful
