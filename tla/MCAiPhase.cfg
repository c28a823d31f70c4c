CONSTANTS
    p1 = p1
    p2 = p2
    o1 = o1
    o2 = o2
    r1 = r1
    r2 = r2
    Names = {p1, p2}
    Orgs = {o1, o2}
    Requests = {r1, r2}
    Texts <- SomeTexts
    Queries <- SomeQueries
    Configs <- SomeConfigs
    Faults = TRUE
    Batches = 3
    Parallel = 2
    Budget = 0
    MaxTime = 1
    Cap = 2
    Ceiling = 3
SYMMETRY Symmetric
SPECIFICATION PhaseSpec
INVARIANTS PhaseTypeOK DefaultExists SpendBounded BatchesKept
PROPERTIES OthersKept
CHECK_DEADLOCK FALSE
