SPECIFICATION Spec
CONSTANTS
    Tasks = {t1, t2}
    Files = {f1}
    Workers = {w1, w2}
    ChangeSets = {{f1}}
    Requests <- MixedRequests
    MaxProgress = 1
    MaxRestarts = 1
    MaxFaults = 1
    SerialClient = FALSE
INVARIANTS QuiescentDurable CompletedHasReport
SYMMETRY Interchangeable
CHECK_DEADLOCK FALSE
