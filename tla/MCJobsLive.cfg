CONSTANTS
    o1 = o1
    o2 = o2
    o3 = o3
    scan = scan
    grade = grade
    Orgs <- TwoOrgs
    Kinds <- ScanOnly
    MaxActive = 2
    Workers = 1
    JobTTL = 0
    MaxJobs = 3
    MaxTime = 1
SPECIFICATION FairSpec
PROPERTIES EveryJobEnds
