SPECIFICATION Spec
CONSTANTS
    NbCell = 3
    MaxPush = 40
INVARIANTS
    NothingLeaks
    NothingDangles
    Chronological
    DumpInOrder
