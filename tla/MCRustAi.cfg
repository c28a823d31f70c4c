CONSTANTS
    e1 = e1
    e2 = e2
    r1 = r1
    Edits = {e1, e2}
    Readers = {r1}
    Kinds = {"scan"}
    Reissued = {e1}
    AiMode = TRUE
    Faults = {}
    MaxRuns = 1
SPECIFICATION FairSpec
PROPERTIES AiNeverHoldsScan
