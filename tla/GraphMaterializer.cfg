\* Two replicas; batches of every kind in every order; one fault of each kind.
CONSTANTS
    r1 = r1
    r2 = r2
    t1 = t1
    t2 = t2
    s1 = s1
    Replicas = {r1, r2}
    Nobody = Nobody
    Txs = {t1, t2}
    Streams = {s1}
    Batches <- AllBatches
    RetryMaxAttempts = 2
    MaxTopic = 3
    MaxCrashes = 1
    MaxDbFaults = 1
    MaxAckFaults = 1
    MaxRebalances = 1
SPECIFICATION Spec
INVARIANTS
    CommittedAccounted
    MaterializedInOrder
    RequestsReadGraph
    ClaimComplete
PROPERTIES
    EveryBatchAccounted
\* The group idles once every message is handled and MaxTopic is reached.
CHECK_DEADLOCK FALSE
