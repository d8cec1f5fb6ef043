\* One transaction raises and rolls back: its message is passed over.
CONSTANTS
    r1 = r1
    r2 = r2
    t1 = t1
    t2 = t2
    s1 = s1
    Replicas = {r1}
    Nobody = Nobody
    Txs = {t1, t2}
    Streams = {s1}
    Batches <- ValidBatches
    RetryMaxAttempts = 2
    MaxTopic = 2
    MaxCrashes = 0
    MaxDbFaults = 1
    MaxAckFaults = 0
    MaxRebalances = 0
SPECIFICATION Spec
INVARIANTS
    CommittedSettled
\* The group idles once every message is handled and MaxTopic is reached.
CHECK_DEADLOCK FALSE
