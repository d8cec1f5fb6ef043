SPECIFICATION Spec
CONSTANTS
    a = a
    b = b
    c = c
    Contents <- MCContents
    Thresholds = {1, 2}
    DefaultThreshold = 1
    MaxVisible = 2
    MaxPending = 2
    MaxGraphEdges = 2
    Compact = 1
    MaxEvents = 5
    MaxUpdates = 3
    MaxClicks = 2
INVARIANTS
    TypeOK
    PresentedInOrder
    PageShowsLatest
PROPERTIES
    EveryEventPresented
CHECK_DEADLOCK FALSE
