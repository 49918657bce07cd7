\* The services around the core, one at a time.
SPECIFICATION Spec
INVARIANTS
    ServicesTypeOK
    ArtifactsSettle
    ReceiptSound
    ChainLinked
    ActivationBounded
    SaidOnce
    AlertsOnEdge
    NothingLeftOut
    ScoresEarned
    VerdictsFounded
    FeaturesHonest
CHECK_DEADLOCK FALSE
CONSTANTS
    ArtifactLabels <- Labels2
    EnsureLabels <- Labels2
    FileHashes = {"h1", "h2"}
    MaxPosts = 3
    MaxDeploys = 1
    ReplayAfter = 1
    Batches <- SixBatches
    CommitTimes = {1, 2, 3}
    Horizons = {3}
    Uncommitted = 8
    LeafHash <- NestedHash
    Writers = {"old", "new"}
    Skew = 1
    LlMaxRows = 3
    LlMaxClock = 5
    Loops = {"old", "new"}
    CreditHeld = 4
    ApiBalance = 0
    ActLowWater = 2
    ActChunk = 2
    ActDailyCap = 3
    AcMaxEvents = 1
    Containers = {"old", "new"}
    Anchors <- ThreeReports
    MaxCommitLag = 1
    CandidateWindow = 2
    PostLimit = 2
    ReadLimit = 3
    CommitLagMax = 1
    StalledMax = 1
    NtMaxTime = 3
    NtMaxFaults = 1
    NtMaxTroubles = 2
    ChunkPools <- TwoChunks
    Known = {1}
    CallCaps = {0, 3}
    LaunchCaps = {0, 1}
    ItemCost = 1
    BfMaxRuns = 1
    BfMaxUsed = 3
    BfMaxFailures = 1
    ScReports <- EightReports
    ScAnchor <- FourAnchors
    ScTruth <- FourTruths
    ScCommits <- EightCommits
    ScFetches <- FourFetches
    ScRetro = {4}
    ScGraded = {1, 2, 3}
    ScHorizon = 3
    Trailing = 1
    ProbUnit = 12
    MinForMetrics = 2
    MinForClaims = 3
    MinPositives = 2
    ScMaxSnapshots = 1
    ScMaxFailures = 1
    RvTimes <- NineTimes
    RvHeads = {5, 8}
    RvRows <- ElevenRows
    RvTrades <- ThreeTrades
    RvDeltas <- TwoDeltas
    RvMoves <- TwoMoves
    RvCluster = {"c1", "c2"}
    RvOuts = {0, 7, 10}
    MaxIters = 2
    H24 = 2
    TailBlocks = 3
    AliveBlocks = 2
    LogCap = 3
    SpotIn = 2
    QuoteUnit = 10
    DefaultUnit = 100
    RvMaxRows = 2
    FtWorlds <- ThreeWorlds
    FtHeads <- Heads
    LaunchBlock = 5
    T10Blocks = 3
    ScanBlocks = 4
    FreshBlocks = 4
    AgeIters = 3
    NonceIters = 2
    ProbeLimit = 2
    MaxT10Logs = 2
    MaxHolderLogs = 5
    TopHolders = 1
    Supply = 10
    QualifyBuyers = 2
    Locked = FALSE
    FtMaxRuns = 2
    FtMaxFailures = 1
