SPECIFICATION FairSpec
CONSTANTS
    image1 = image1
    image2 = image2
    file = file
    shared = shared
    Images = {image1, image2}
    Included <- Contents
    Baskets <- TwoBaskets
    Lists <- ApiLists
    MaxRequests = 3
    MaxDeletions = 1
    MaxUploads = 1
    MaxFailures = 1
    MaxRestarts = 1
INVARIANTS
    ComparisonsAreSound
PROPERTIES
    WaitingEnds
CHECK_DEADLOCK FALSE
