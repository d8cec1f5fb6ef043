CONSTANTS
    Txs = {1, 2, 3, 4, 5}
    Searched = {1, 2}
    Batches <- MCBatches
    MaxHops = 3
    MaxNodes = 4
    MaxEdges = 3
    MaxSearches = 2
    MaxFetches = 2
    MaxFaults = 2
SPECIFICATION ExplorerSpec
INVARIANTS
    ExplorerTypeOK
    ServedBetween
    ShownOfQuery
\* Everything is asked, answered and materialized.
CHECK_DEADLOCK FALSE
