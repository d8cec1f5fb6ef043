\* Two replicas; results of every kind in every order; the partition moves twice.
CONSTANTS
    r1 = r1
    r2 = r2
    t1 = t1
    t2 = t2
    Replicas = {r1, r2}
    Nobody = Nobody
    Txs = {t1, t2}
    Stored = {t1}
    Messages <- AllMessages
    RetryMaxAttempts = 2
    MaxTopic = 2
    MaxCrashes = 1
    MaxDbFaults = 1
    MaxAckFaults = 2
    MaxRebalances = 2
SPECIFICATION Spec
INVARIANTS
    CommittedAccounted
    CanonicalUnbeaten
    ScoreIntended
PROPERTIES
    ImplementsStore
    EveryResultAccounted
\* The group idles once every message is handled and MaxTopic is reached.
CHECK_DEADLOCK FALSE
