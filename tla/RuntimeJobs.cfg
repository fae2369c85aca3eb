SPECIFICATION FairSpec
CONSTANTS
    Jobs = {j1, j2}
    Types = {image}
    MaxConcurrent = 1
    MaxLimit = 1
    MaxFaults = 2
    MaxRestarts = 1
INVARIANTS SlotsCounted
PROPERTIES OutcomeIsOwn EveryJobEnds
CHECK_DEADLOCK FALSE
