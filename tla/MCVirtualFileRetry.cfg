SPECIFICATION MCFairSpec
CONSTANTS
    Inodes = {1, 2}
    Flushers = {}
    RowIds = {1, 2, 3, 4}
    BatchSize = 3
    MaxRetries = 1
    Debounce = 0
    RetryDelays = {0}
    Procs = {p1, p2}
    MaxData = 2
    MaxOpens = 2
    MaxPolls = 0
    MaxActs = 1
PROPERTY RetriedArrives
CHECK_DEADLOCK FALSE
