\* Two workers that crash, stop, fail and swap the partition.
CONSTANTS
    w1 = w1
    w2 = w2
    Workers = {w1, w2}
    Nobody = Nobody
    Requests <- ThreeRequests
    MaxInFlight = 2
    MaxPollRecords = 2
    RetryMaxAttempts = 2
    MaxCrashes = 1
    MaxStops = 1
    MaxFaults = 1
    MaxRebalances = 1
SPECIFICATION Spec
INVARIANTS
    CommittedSettled
    GivenUpAfterAttempts
PROPERTIES
    EveryRequestSettled
\* The group idles once the partition is consumed.
CHECK_DEADLOCK FALSE
