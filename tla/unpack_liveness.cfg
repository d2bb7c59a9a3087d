SPECIFICATION FairSpec
CONSTANTS
    image = image
    a = a
    b = b
    other = other
    c1 = c1
    c2 = c2
    Files = {image, b, other}
    Firmware = {image, other}
    Content <- SharedContent
    Containers = {c1, c2}
    MaxDepth = 2
    MaxSubmissions = 1
    MaxFailures = 0
    MaxCancels = 0
    MaxDeaths = 0
    MaxStops = 0
INVARIANTS
    CompletedIsStored
PROPERTIES
    EverythingIsUnpacked
