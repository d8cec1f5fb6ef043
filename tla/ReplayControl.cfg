SPECIFICATION Spec
CONSTANTS
    p1 = p1
    p2 = p2
    s1 = s1
    s2 = s2
    Pages = {p1, p2}
    Sessions = {s1, s2}
    Steps = 2
    MaxClicks = 3
    MaxExits = 3
INVARIANTS
    ReplayInOrder
    PauseHolds
    CompletedMeansSent
    LastWordHolds
PROPERTIES
    CompletionSettles
    EveryStepProduced
CHECK_DEADLOCK FALSE
