SPECIFICATION FairSpec
CONSTANTS
    Streams = {3, 5}
    BufferSize = 2
    PipeSize = 3
    WatchDogLimit = 3
    ErrorsInRow = 2
    AddEOF = TRUE
    MaxBytes = 3
    MaxClock = 1
INVARIANTS
    StampsAreRight
    EOFOnOwnLine
PROPERTIES
    OutputIsRead
    EndsAfterSolver
