CONSTANTS
    s1 = s1
    s2 = s2
    d = d
    r1 = r1
    r2 = r2
    r3 = r3
    Slugs = {s1, s2}
    Domains = {d}
    Models = {}
    MaxDomains = 1
    Requests = {r1, r2, r3}
    Queries <- SomeQueries
    Faults = TRUE
    MaxRestarts = 1
SYMMETRY Symmetric
SPECIFICATION Spec
INVARIANTS TypeOK MemoryCatchesUp ResultsStay
PROPERTIES ImplementsOrgs
CHECK_DEADLOCK FALSE
