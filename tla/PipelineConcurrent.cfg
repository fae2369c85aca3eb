SPECIFICATION FairSpec
CONSTANTS
    Runs = {r1, r2}
    Paths = {p1, p2}
    Contents = {old}
    Plans <- HandWrites
    Products = {p2}
    Proposals <- SimpleProposals
    OneAtATime = FALSE
PROPERTIES WritesArePlannedAndSaved EveryRunEnds
CHECK_DEADLOCK FALSE
