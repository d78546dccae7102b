SPECIFICATION FairSpec
CONSTANTS
    NProcs = 2
    MaxCPU = 0
    CPULimit = 0
    WallLimit = 3
    VSizeLimit = 1
    MemoryLimit = 0
    VSizes <- SomeSizes
    Memories <- NoSizes
    FirstFull = 1
    RefreshPeriod = 2
    KillTicks = 2
    ExternalStop = TRUE
PROPERTIES
    WatcherAlwaysEnds
INVARIANTS
    KillAfterGrace
    MemOutOnlyIfStopped
