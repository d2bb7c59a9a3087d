SPECIFICATION FairSpec
CONSTANTS
    file_type = file_type
    pa = pa
    pb = pb
    pc = pc
    image = image
    a = a
    image_new = image_new
    a_new = a_new
    image_update = image_update
    a_update = a_update
    a_single = a_single
    a_forced = a_forced
    image_single = image_single
    NoRoot = NoRoot
    Plugins = {file_type, pa, pb, pc}
    Deps <- ChainDeps
    Mandatory = {file_type}
    FileType = file_type
    Listed = {pa, pc}
    Unsuitable <- NotForA
    Uids = {image, a}
    Jobs <- AllJobs
    Uid <- UidOf
    Root <- RootOf
    Entry <- EntryOf
    Requested <- RequestedOf
    Forced = {a_forced}
    Scenarios <- AllScenarios
    Databases <- AllDatabases
    Runners = 2
    MaxFailures = 2
    MaxCancels = 1
INVARIANTS
    ResultsAreSound
PROPERTIES
    SkipsAreNotSticky
    DroppedOnlyIfCancelledOrEarly
    EveryJobEnds
CHECK_DEADLOCK FALSE
