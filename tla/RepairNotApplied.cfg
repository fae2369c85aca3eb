SPECIFICATION Spec
CONSTANTS
    Components = {"repair"}
    JobKinds = {"image", "edit", "video", "voice", "personal", "portrait"}
    Handlers = {h1, h2}
    Bodies = {x, y}
    Folders = {f, g}
    MaxRequests = 3
    MaxAttempts = 3
    MaxRepeated = 2
    BuildCommands = 2
    Complaints = {t1}
    Pages <- SomePages
    a = a
    b = b
    x = x
    y = y
    Paths = {a, b}
    Texts = {x, y}
    MaxEdits = 1
    Commands <- MCCommands
    Files <- MCFiles
    Requests <- MCRequests
    Patches <- MCPatches
    e1 = e1
    e2 = e2
    r1 = r1
    r2 = r2
    Executions = {e1, e2}
    CommandIds = {"id"}
    Setups <- SomeSetups
    Widths = {1, 2}
    MaxPrinted = 4
    MaxLogBytes = 3
    Providers = {"fal", "flux"}
    Position <- SomePositions
    Direct = "flux"
    ImageRequests = {r1, r2}
    MaxPerProvider = 2
    DefaultCooldown = 2
    RetryAfter = {1}
    MaxClock = 1
    DocumentTypes = {"nda", "invoice"}
    Transports = {"groq", "sambanova"}
    Ollama = "ollama"
    NoProvider = "unknown"
    Fields = {"name", "fee", "note"}
    HighRisk = {"name", "fee"}
    DraftRequests <- SomeDraftRequests
    Drafts <- SomeDrafts
    MaxSends = 2
INVARIANTS RepairIsApplied
CHECK_DEADLOCK FALSE
