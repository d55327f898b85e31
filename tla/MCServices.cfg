SPECIFICATION AdapterSpec
CONSTANTS
    MaxBatch = 3
    MaxRules = 3
INVARIANTS StrictHonest AtomicHonest StrictBatchAccounted StopsWhenEnded StrictLeaseComplete ReleasedIntegrity ReleasedBatchRunsToEnd HandlesAdmitted
