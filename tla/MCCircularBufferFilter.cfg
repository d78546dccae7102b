SPECIFICATION FairSpec
CONSTANTS
    Options <- Limits
    MiB = 2
    IntValues = 32
    SizeValues = 256
    MaxAlloc = 8
    MaxLen = 5
    MaxTotal = 11
    WriteFails = TRUE
INVARIANTS
    RingHoldsLast
PROPERTIES
    LimitSpec
    WriteReturns
