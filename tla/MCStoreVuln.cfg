CONSTANTS
    e1 = e1
    e2 = e2
    r1 = r1
    Edits = {e1, e2}
    Readers = {r1}
    Kinds = {"vuln"}
    AiRuns = {}
    Faults = {}
    MaxRuns = 2
    MaxCrashes = 0
SPECIFICATION Spec
SYMMETRY Symmetric
INVARIANTS NoLostEdit
