SPECIFICATION MCFairSpec
CONSTANTS
    Inodes = {1, 2}
    Flushers = {}
    RowIds = {1, 2, 3, 4}
    BatchSize = 1
    MaxRetries = 2
    Debounce = 0
    RetryDelays = {0}
    MaxData = 3
    MaxActs = 1
    FirstListFails = TRUE
    QuietHeals = TRUE
    EditsInWindow = FALSE
PROPERTY RemoteArrives
CHECK_DEADLOCK FALSE
