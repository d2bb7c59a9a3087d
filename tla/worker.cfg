SPECIFICATION FairSpec
CONSTANTS
    NoTask = NoTask
    Tasks = {t1, t2}
    Workers = {w1, w2}
    StatsLimit = 2
    Shutdowns = 1
INVARIANTS
    WorkerIsSound
    MixedUpOnlyAfterLateResult
PROPERTIES
    RefinesPluginRunner
    EveryTaskComesOut
CHECK_DEADLOCK FALSE
