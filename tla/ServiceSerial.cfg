SPECIFICATION FairSpec
CONSTANTS
    Tasks = {t1, t2}
    Files = {f1, f2}
    Workers = {w1, w2}
    ChangeSets = {{f1}, {f1, f2}}
    Requests <- PipelineRequests
    MaxProgress = 0
    MaxRestarts = 1
    MaxFaults = 1
    SerialClient = TRUE
INVARIANTS AckedIsDurable StatusTellsRepository
PROPERTIES LifecycleKept EveryRequestAnswered
CHECK_DEADLOCK FALSE
