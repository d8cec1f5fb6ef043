\* No call fails and nothing moves, but one inference always times out.
CONSTANTS
    w1 = w1
    w2 = w2
    Workers = {w1, w2}
    Nobody = Nobody
    Requests <- FourRequests
    MaxInFlight = 2
    MaxPollRecords = 2
    RetryMaxAttempts = 2
    MaxCrashes = 0
    MaxStops = 0
    MaxFaults = 0
    MaxRebalances = 0
SPECIFICATION Spec
PROPERTIES
    TimeoutsDeadLettered
\* The group idles once the partition is consumed.
CHECK_DEADLOCK FALSE
