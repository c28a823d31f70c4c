CONSTANTS
    e1 = e1
    e2 = e2
    r1 = r1
    Edits = {e1, e2}
    Readers = {r1}
    Kinds = {"scan", "recheck", "grade", "correlate", "vuln"}
    Reissued = {e1}
    AiMode = FALSE
    Faults = {"write"}
    MaxRuns = 2
SPECIFICATION FairSpec
INVARIANTS TypeOK
PROPERTIES EditsKept EventsKept AllAnswered
