SPECIFICATION Spec
CONSTANTS
    Runs = {r1, r2}
    Paths = {p1, p2}
    Contents = {old, new}
    Plans <- MixedPlans
    Products = {p2}
    Proposals <- SimpleProposals
    OneAtATime = TRUE
INVARIANTS AlwaysRecoverable CompletedChangesStay
PROPERTIES FailureUndone DoneIsComplete AllOrNothing
SYMMETRY Interchangeable
CHECK_DEADLOCK FALSE
