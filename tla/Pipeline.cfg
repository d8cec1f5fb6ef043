SPECIFICATION Spec
CONSTANTS
    t1 = t1
    t2 = t2
    w1 = w1
    w2 = w2
    Txs = {t1, t2}
    Workers = {w1, w2}
    Scenarios <- MCScenarios
INVARIANTS
    OvertakenExplained
PROPERTIES
    ImplementsService
    EveryRowScored
CHECK_DEADLOCK FALSE
