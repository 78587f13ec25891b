SPECIFICATION PartsSpec
CONSTANTS
    Prices <- MCPrices
    StopPts <- MCStopPts
    Thresholds <- MCThresholds
    MaxQueue = 2
    MaxBar = 5
    Companies <- MCCompanies
    Read = {"c1", "c2"}
    Claims <- MCClaims
    MaxRegenerations = 2
    Requests = {1, 2}
    Unit = 2
    Burst = 1
    MaxRetries = 1
    Backoffs = {1}
    Ttl = 2
    MaxTime = 4
    Ids <- MCIds
    Candidates <- MCCandidates
    Registry <- MCRegistry
    Near <- MCPairs
    Close <- MCPairs
    Resolvers = {"s1", "s2"}
    OtherLists = {}
    MaxLists = 2
    MaxByUser = 1
    Tickers = {"A", "B"}
    Mine = "A"
    Sessions = {"s1", "s2"}
    MaxRows = 2
    MaxRuns = 2
    BarPrices = {3, 5}
    Slippage = 1
    Commission = 1
    Shares = 1
    BarCount = 4
    BarsPerDay = 2
    Callers = {"a1", "a2", "b"}
    Runs = {"r1", "r2"}
    RunOf <- MCRunOf
    Stages = {"stage"}
    Costs = {1}
    Caps <- MCCaps
    Docs <- MCDocs
    LiveDocs = {"events"}
    Contents = {1, 2}
    Readers = {"macro", "company"}
    MacroReaders = {"macro"}
    MaxPublish = 1
    CallIds = {"a", "b"}
    Convictions = {1, 2, 8}
    MaxCalls = 2
    MaxEvidence = 2
    Hyps = {1}
    Chunks = {"c"}
    Writers = {"w1", "w2"}
    Editors = {"e1", "e2"}
    NoHyp = 0
    MaxBusy = 2
    Shapes <- MCShapes
    PerDay = 3
    LastTime = 4
    MaxEvents = 1
    Warmup = 1
    Horizon = 2
    Window = 1
    Lag = 1
    MonthDays = 1
    Events <- MCEvents
    Limit = 3
    MaxClock = 2
    Strategy <- MCStrategies
    Levels <- MCLevels
    WindowBars = 4
    WarmupBars = 2
    Restarts = TRUE
    RangeEnd = 1
    Morning = 2
    FlatAt = 5
    WaitEnd = 1
    GapCutoff = 4
    MinGap = 1
    Hour = 1
    RthClose = 7
    Skip = 1
    MaxDay = 2
    Width = 1
    ListLength = 3
    Fallback = TRUE
    MaxChanges = 3
    MacroContents <- MCMacros
    SectorContents <- MCSectors
    ThesisContents <- MCTheses
    Configured = {1, 2}
    Key <- MCKey
    Entity <- MCEntity
    MaxSectors = 2
    MaxCompanies = 2
    Concurrency = 2
    MaxAttempts = 2
INVARIANTS
    TrailInv ClientSafe TestHonest NamesSound FailsForTopCall UniverseSound
    BriefsHonest  FunnelSound BarsInOrder NoBlindOrder
PROPERTIES
    StopNeverLoosens StreamSends BeliefsSound DailyOvershoot EvidenceSound SignalsSound
    LifecycleSound RowsStable
CHECK_DEADLOCK FALSE
