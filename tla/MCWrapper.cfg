SPECIFICATION FairSpec
CONSTANTS
    ShellExecs = FALSE
    KillDelay = 2
    Sleep = 1
    Reports <- SomeReports
    Results <- SomeResults
    Times <- OneTime
    Cutoffs <- AnyCutoff
    MaxSignals = 2
INVARIANTS
    FilesKept
    InterruptIsReported
    ResultComesFromRun
PROPERTIES
    KilledTargetDies
    WrapperEnds
