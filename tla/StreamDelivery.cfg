SPECIFICATION DeliverySpec
CONSTANTS
    g1 = g1
    g2 = g2
    Gateways = {g1, g2}
    MaxLen = 2
    ReplayLimit = 1
    ReadCount = 2
    QueueSize = 1
    MaxClients = 1
    Remembered = 2
    MaxEntries = 3
    MaxBreaks = 2
INVARIANTS
    IngestedInOrder
    HolesExplained
PROPERTIES
    PageGetsIn
    EveryEventReaches
