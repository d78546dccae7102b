SPECIFICATION SatSpec
CONSTANTS
    ShellExecs = FALSE
    KillDelay = 0
    Sleep = 0
    Reports <- MCReports
    Results <- MCResults
    Times <- MCTimes
    Cutoffs <- MCCutoffs
    MaxSignals = 1
    Unit = 10
    Exact = 6
    MaxInt = 9
    CommandLines <- MCCommandLines
    SolubilityFiles <- MCSolubilityFiles
INVARIANTS
    LieNeverPasses
    HonestSolverSucceeds
    TargetGetsItsTime
    ParametersArrive
