SPECIFICATION Spec
CONSTANTS
    Parts = {"context", "planner", "index", "map", "client", "answer", "text", "tree", "backup", "generation", "commands", "structured", "reading"}
    SourceFiles = {1, 2, 3, 4}
    Scores = {1, 2}
    EntryTokens = {1, 3}
    MaxSelected = 3
    MaxExpanded = 1
    TokenBudget = 2
    PlanPaths = {folder, inner, b, c}
    folder = folder
    inner = inner
    Inside <- SomeInside
    BlockedPaths = {c}
    Disabled = {}
    MaxRepairs = 2
    Callers = {c1}
    IndexedPaths = {p, q}
    Versions = {0, 1, 2}
    MaxIndexEdits = 2
    Listings <- SomeListings
    References <- SomeReferences
    Hidden <- SomeHidden
    Dotted <- SomeDotted
    CallThreads = {t1, t2}
    LoopIds = {i1, i2}
    MaxLoops = 3
    MaxRetries = 1
    Values <- SomeValues
    Before <- SomeBefore
    After <- SomeAfter
    TextFiles <- SomeTexts
    TextRequests <- SomeOperations
    p1 = p1
    p2 = p2
    Transactions = {p1, p2}
    FilePaths <- SomePaths
    Original = o1
    OriginalFiles <- FirstPaths
    RequestsOf <- SomePatches
    BackupPaths = {1, 2}
    FileContents = {1, 2}
    Sizes <- SomeSizes
    MaxBackups = 2
    MaxBackupEdits = 1
    MaxDeaths = 1
    GeneratedPaths = {1, 2, 3}
    GenerationTasks <- SomeTasks
    ContextFiles = 2
    ContextTexts = 1
    MaxTextEdits = 1
    Orders <- SomeOrders
    Configurations <- SomeConfigurations
    ServerVariables = {"PATH", "HOME", "SECRET"}
    SensitiveVariables = {"SECRET"}
    Programs <- SomePrograms
    Requests <- SomeRequests
    MaxMessages = 2
    MaxLength = 4
    InstructionLength = 1
    ReadFiles <- SomeReadFiles
    ReadingOptions <- SomeOptions
    FileVersions <- SomeVersions
    MaxReadable = 5
    SampleSize = 4
    MaxReadEdits = 1
INVARIANTS ContextIsChosen TextsAreExact ChecksAreRun GeneratedWithinPlan
PROPERTIES PlansAreSound AnalysisIsTrue ModelCallsAreKept FilesAreRestored
CHECK_DEADLOCK FALSE
