SPECIFICATION FairSpec
CONSTANTS
    ShellExecs = TRUE
    KillDelay = 2
    Sleep = 1
    Reports <- OneReport
    Results <- OneResult
    Times <- OneTime
    Cutoffs <- WithCutoff
    MaxSignals = 1
PROPERTIES
    KilledTargetDies
