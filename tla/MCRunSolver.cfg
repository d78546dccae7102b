SPECIFICATION FairSpec
CONSTANTS
    CommandLines <- Lines
    Topologies <- Machines
    MaskWord = 32
    Ceilings <- Users
    Procs = {"child", "other"}
INVARIANTS
    SolverOnSelectedCores
    HardLimitAfterSoft
PROPERTIES
    RunReturns
    SignalEndsRun
