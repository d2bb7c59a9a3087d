SPECIFICATION FairSpec
CONSTANTS
    Jobs = {j1, j2}
    Stuck = {{}, {"comparison"}, {"worker"}, {"extraction"}}
INVARIANTS
    ShutdownIsOrderly
PROPERTIES
    JobsAreKept
    StoppingEnds
CHECK_DEADLOCK FALSE
