SPECIFICATION Spec
CONSTANTS
    image = image
    a = a
    w1 = w1
    p1 = p1
    Files = {image, a}
    Firmware = {image}
    Content <- ChainContent
    Reachable <- NestedFiles
    Plugins = {p1}
    Workers = {w1}
    MaxUploads = 2
    MaxUpdates = 1
    MaxCancels = 1
    MaxRequests = 3
    MaxReports = 1
    MaxFailures = 1
INVARIANTS
    DisplayIsConsistent
    NeverEndsOnlyByOverlap
PROPERTIES
    FinishedMeansAnalysed
    WorkerDiesOnlyByOverlap
CHECK_DEADLOCK FALSE
