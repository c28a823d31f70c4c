CONSTANTS
    e1 = e1
    e2 = e2
    r1 = r1
    Edits = {e1, e2}
    Readers = {r1}
    Kinds = {"scan", "recheck", "grade", "correlate", "openhack"}
    AiRuns = {1}
    Faults = {"crash","write"}
    MaxRuns = 2
    MaxCrashes = 1
SPECIFICATION Spec
SYMMETRY Symmetric
INVARIANTS TypeOK NoLostEdit LedgerTellsEdits ReadsAreFresh NoStaleBaseline AnnouncedOnce
PROPERTIES ImplementsAtomicEdits
