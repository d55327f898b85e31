SPECIFICATION StoreSpec
CONSTANTS
    Callers = {p, q}
    Keys = {1, 2, 3}
    Shards = 2
    ShardOf <- MCShardOf
    MaxKeys = 2
    RejectOnCapacity = FALSE
    Budget = 1
    Lease = 1
    LastInstant = 1
    Calls <- MCCalls
INVARIANTS Bounded LateStrictHarmless
PROPERTIES LeaseKept ClosedQuiet
SYMMETRY Symmetry
