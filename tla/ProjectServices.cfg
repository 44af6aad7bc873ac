SPECIFICATION ServicesSpec
CHECK_DEADLOCK FALSE
CONSTANTS
    LightLoad = 50
\* DocVersions
    Paths = {f1}
    Hashes = {h1, h2}
    Trackers = {d1, d2}
    NoFile = NoFile
    MaxEdits = 2
    MaxDeaths = 1
\* RiskRules, RiskRegister
    NoDate = NoDate
    RiskTasks = {"t1", "t2"}
    Scanners = {s1, s2}
    Handlers = {u1}
    Nobody = Nobody
    InitialTasks <- MCInitialTasks
    TaskMoves = {"completed"}
    MaxMoves = 1
    MaxScans = 2
    MaxUpdates = 2
\* Membership, Comments, ReportCenter
    Users = {u1, u2}
    ActiveUsers = {u1, u2}
    FirstAdmin = u1
    NoRole = NoRole
    NoParent = NoParent
    MaxComments = 2
    Texts = {x}
    MaxDrafts = 1
    MaxDecisions = 2
\* Automation, Connectors, Webhooks
    AutoTasks = {a1, a2}
    MaxAudits = 5
    Payloads = {m1, m2}
    DomainOf <- MCDomainOf
    RateMax = 1
    RateWindow = 2
    MaxTime = 3
    MaxPreviews = 2
    NoCall = NoCall
    Events = {e1, e2}
    MaxRegistrations = 2
    MaxDispatches = 2
\* IndexStore, ChangeImpact
    DocOrder <- MCDocOrder
    DocTexts = {x, Blank}
    Blank = Blank
    NoText = NoText
    Builders = {b1, b2}
    MaxEditions = 1
    MaxCalls = 4
    ImpactFiles = {f1, f2}
    ImpactTasks = {t1, t2}
    LogLimit = 2
    MaxModifications = 3
    MaxAnalyses = 1
\* ResultCache, Backups, LogRotation, ProjectFiles
    CacheProjects = {"p"}
    CacheCategories = {"index", "report"}
    TimeToLive <- MCTimeToLive
    MaxEntries = 2
    MaxClock = 2
    MaxSets = 3
    MaxGets = 2
    DataFiles = {"db", "vec"}
    PartOf <- MCPartOf
    FirstFiles = {"db"}
    Labels = {"auto"}
    MaxWrites = 2
    MaxDays = 1
    MaxJobs = 2
    KeptDays = 0
    LogNames = {"app"}
    LogLimitLines = 1
    LogKept = 1
    Compressing = TRUE
    MaxLines = 2
    MaxSeconds = 2
    FileProjects = {"smoke"}
    SmokeProjects = {"smoke"}
    Creators = {"c1", "c2"}
    FileNames = {"tasks"}
    SmokeDays = 1
    MaxAge = 1
    MaxCreations = 2
    MaxUploads = 2
\* Chunker, Retrieval, Parsing, SourceImport
    PieceTexts = {"short", "ends", "long", "longer"}
    SizeOf <- MCSizeOf
    Occurs <- MCOccurs
    Headings = {"a"}
    NoHeading = ""
    MaxPieces = 4
    ChunkDoc <- MCChunkDoc
    StaleHits = {9}
    TopK = 3
    MaxQuestions = 2
    MaxLevel = 3
    MaxTextLines = 5
    MaxColumn = 760
    SourceEntries = {"f", "g"}
    MaxEntryEdits = 1
    MaxLosses = 1
\* TaskReports, HealthMonitor, QualityBench
    TaskRows <- MCTaskRows
    CriterionWords <- MCCriterionWords
    MaxRows = 2
    Indicated = {"report"}
    NoDeadline = NoDeadline
    Gpus = {"g"}
    Loads = {50, 92, 97}
    VramWarning = 90
    VramCritical = 95
    DiskWarning = 85
    DiskCritical = 95
    MaxErrorRate = 9
    Latencies = {2, 5}
    MaxSamples = 2
    MaxChanges = 1
    CaseIds = {"q1", "q2"}
    Corpus = {"d1"}
    CaseKinds <- MCCaseKinds
    DefaultCases <- MCDefaultCases
    MaxRuns = 1
    MaxSeedings = 1
INVARIANTS
    ServicesTypeOK
    DocumentHistory
    RisksAccounted
    IndexFaithful
    CitationsExact
    AnswersGrounded
    ReportsTrue
    CollaborationCoherent
    ActionsConfirmed
    StorageIntact
    FilesAndCacheKept
    HealthTold
PROPERTY NothingTakenBack
