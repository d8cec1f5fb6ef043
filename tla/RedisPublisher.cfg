\* Two publishers whose batches fail halfway, keys that expire afterwards.
CONSTANTS
    r1 = r1
    r2 = r2
    t1 = t1
    t2 = t2
    Replicas = {r1, r2}
    Rows = {1, 2, 3}
    TxOf <- ThreeIntents
    BatchSize = 2
    RetryMaxAttempts = 2
    MaxCrashes = 1
    MaxRedisFaults = 1
    MaxDbFaults = 1
SPECIFICATION Spec
INVARIANTS
    StreamOnce
    StreamInOrder
PROPERTIES
    EveryIntentPublished
