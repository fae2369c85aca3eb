SPECIFICATION FairSpec
CONSTANTS
    Paths = {p1, p2}
    Contents = {a, b}
    Evidence = {e1, e2}
    Plans <- PairPlans
    Budgets = {1, 2, 3}
    MaxRepeated = 2
    MaxPublished = 2
    Ignored = {p2}
    Scratch = {p2}
    MaxEdited = 1
INVARIANTS WithinBudget PlanRealised SourceIsSafe
PROPERTIES LoopEnds
CHECK_DEADLOCK FALSE
