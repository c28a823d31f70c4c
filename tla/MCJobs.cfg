CONSTANTS
    o1 = o1
    o2 = o2
    o3 = o3
    scan = scan
    grade = grade
    Orgs <- ThreeOrgs
    Kinds <- ScanAndGrade
    MaxActive = 2
    Workers = 1
    JobTTL = 1
    MaxJobs = 3
    MaxTime = 2
SYMMETRY Symmetric
SPECIFICATION Spec
INVARIANTS TypeOK LiveIsRunning
PROPERTIES TerminalIsFinal ImplementsFence
