SPECIFICATION OneSpec
CONSTANTS
    Tasks = {t1}
    Keys = {k1}
    Slots = {1, 2}
    Threads = 2
    MaxOrders = 2
    MaxRestarts = 1
    groq = groq
    huggingface = huggingface
    ollama = ollama
    p1 = p1
    p2 = p2
    p3 = p3
    p4 = p4
    Providers <- ThreeProviders
    Metered = {groq, huggingface}
    Paths = {p1, p2, p3, p4}
    Plans <- SmallAndLarge
    BatchSizes = {1, 2}
    Answers <- OneOrTwo
INVARIANTS AnswersRemembered PlanGenerated
PROPERTIES OnlyDecisionsApplied EveryTaskSettles ProvidersSpared GenerationEnds
CHECK_DEADLOCK FALSE
