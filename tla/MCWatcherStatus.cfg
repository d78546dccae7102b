SPECIFICATION Spec
CONSTANTS
    NProcs = 2
    MaxCPU = 2
    CPULimit = 2
    WallLimit = 0
    VSizeLimit = 0
    MemoryLimit = 0
    VSizes <- NoSizes
    Memories <- NoSizes
    FirstFull = 1
    RefreshPeriod = 2
    KillTicks = 1
    ExternalStop = FALSE
INVARIANTS
    ChildStatusIsOfChild
