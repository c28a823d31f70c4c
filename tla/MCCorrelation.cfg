CONSTANTS
    Hosts = {1, 2}
    Cves = {1}
    Addresses = {"a"}
    Seeds <- SomeSeeds
    Listings <- SomeListings
    MaxPasses = 3
    MaxScans = 1
    MaxAssessments = 1
SPECIFICATION Spec
INVARIANTS TypeOK OneRecordPerKey
PROPERTIES NothingTaken Settles
CHECK_DEADLOCK FALSE
