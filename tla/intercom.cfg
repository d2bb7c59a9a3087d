SPECIFICATION FairSpec
CONSTANTS
    update1 = update1
    update2 = update2
    download1 = download1
    download2 = download2
    download3 = download3
    diff = diff
    known = known
    missing = missing
    k1 = k1
    k2 = k2
    k3 = k3
    Requests = {update1, update2, download1, download2, download3, diff}
    Connection <- ConnectionOf
    Uid <- UidOf
    Parts <- PartsOf
    ChunkKeys = {k1, k2, k3}
    Files = {known}
    Scenarios <- Mixes
    MaxErrors = 1
INVARIANTS
    ResponsesAreSound
PROPERTIES
    EveryRequestIsAnswered
CHECK_DEADLOCK FALSE
