SPECIFICATION Spec
CONSTANTS
    image = image
    a = a
    b = b
    other = other
    c1 = c1
    c2 = c2
    Files = {image, a, b, other}
    Firmware = {image}
    Content <- DiamondContent
    Containers = {c1, c2}
    MaxDepth = 3
    MaxSubmissions = 2
    MaxFailures = 2
    MaxCancels = 1
    MaxDeaths = 1
    MaxStops = 1
CHECK_DEADLOCK FALSE
INVARIANTS
    UnpackedOnce
    NothingIsStranded
    StoredBeforeUse
    ContainersAreFresh
PROPERTIES
    UpdatesAreNotLost
    CancelUndoneOnlyByOverlap
CONSTRAINT Combined
SYMMETRY ContainerSymmetry
