CONSTANTS
    Families = {"surface", "tls", "ohack"}
    Setups = {{"ai"}, {"openhack"}}
    ResolveAfter = 2
    MaxMisses = 3
SPECIFICATION Spec
INVARIANTS TypeOK HistoryEndsAtStatus GradeWithinOneStep
PROPERTIES AutoResolveNeedsMisses StatusOwnership MitigationNeedsTwoClosed
