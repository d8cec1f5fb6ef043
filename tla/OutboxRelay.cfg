\* Two relays; rows that may appear out of order; every kind of fault.
CONSTANTS
    r1 = r1
    r2 = r2
    Relays = {r1, r2}
    Rows = {1, 2}
    BatchSize = 2
    RetryMaxAttempts = 2
    MaxCrashes = 1
    MaxKafkaFaults = 2
    MaxDbFaults = 1
SPECIFICATION Spec
INVARIANTS
    PublishedAccepted
    DuplicatesNeedFaults
PROPERTIES
    ResentOnlyAfterLoss
    EveryRowPublished
