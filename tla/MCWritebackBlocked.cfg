SPECIFICATION MCFairSpec
CONSTANTS
    Inodes = {i1, i2}
    Flushers = {}
    RowIds = {1, 2, 3}
    BatchSize = 1
    MaxRetries = 2
    Debounce = 1
    RetryDelays = {2}
    MaxCalls = 3
    MaxFlushes = 0
    MaxCrashes = 0
PROPERTY RowsSettle
CHECK_DEADLOCK FALSE
