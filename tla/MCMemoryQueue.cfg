SPECIFICATION StoreSpec
CONSTANTS
    Callers = {p, q, r}
    Keys = {1, 2, 3}
    Shards = 2
    ShardOf <- MCShardOf
    MaxKeys = 2
    RejectOnCapacity = TRUE
    Budget = 1
    Lease = 1
    LastInstant = 1
    Calls <- QueueCalls
INVARIANTS BudgetKept
PROPERTIES EveryCallReturns
