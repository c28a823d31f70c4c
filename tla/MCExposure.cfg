CONSTANTS
    Hosts = {1, 2}
    Infra = {1}
    Ports = {"https"}
    WebPorts = {"https"}
    Schemes = {"https"}
    Marks = {"login"}
    Details = {"d"}
    Grave = {"d"}
    MaxDiff = 1
    ResolveAfter = 1
    Faults = TRUE
    MaxScans = 3
    MaxDecisions = 1
SPECIFICATION Spec
INVARIANTS TypeOK OneRecordEach HostsReported
PROPERTIES ScanTracksServices
CHECK_DEADLOCK FALSE
