SPECIFICATION FairSpec
CONSTANTS
    NProcs = 2
    MaxCPU = 1
    CPULimit = 1
    OtherLimit = TRUE
    PartialSamples = 1
    FoolMargins = {0, 1}
INVARIANTS
    OneUserOfTree
    TimeoutIsReported
    TimeWasUsed
    GroupIsDead
PROPERTIES
    SolverIsStopped
    RunReturns
CHECK_DEADLOCK FALSE
