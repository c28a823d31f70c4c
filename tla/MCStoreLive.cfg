CONSTANTS
    e1 = e1
    r1 = r1
    Edits = {e1}
    Readers = {r1}
    Kinds = {"scan", "vuln"}
    AiRuns = {1}
    Faults = {"write"}
    MaxRuns = 2
    MaxCrashes = 0
SPECIFICATION FairSpec
PROPERTIES AllAnswered
