SPECIFICATION MCFairSpec
CONSTANTS
    Inodes = {i1, i2}
    Flushers = {"flush"}
    RowIds = {1, 2, 3}
    BatchSize = 3
    MaxRetries = 2
    Debounce = 1
    RetryDelays = {2}
    MaxCalls = 2
    MaxFlushes = 1
    MaxCrashes = 1
INVARIANTS TypeOK ClaimExclusive NoOrphanInProgress CopiesAgree RetryBudget
PROPERTIES FailedIsFinal FlushTerminates RowsSettle
CHECK_DEADLOCK FALSE
