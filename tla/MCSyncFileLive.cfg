SPECIFICATION MCFairSpec
CONSTANTS
    Inodes = {1, 2}
    Flushers = {"flush"}
    RowIds = {1, 2, 3, 4}
    BatchSize = 1
    MaxRetries = 2
    Debounce = 0
    RetryDelays = {0}
    MaxData = 3
    MaxActs = 1
    FirstListFails = FALSE
    QuietHeals = TRUE
    EditsInWindow = FALSE
PROPERTIES QueueRefined  
CHECK_DEADLOCK FALSE
