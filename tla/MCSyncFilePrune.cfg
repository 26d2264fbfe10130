SPECIFICATION MCSpec
CONSTANTS
    Inodes = {1, 2}
    Flushers = {}
    RowIds = {1, 2, 3, 4}
    BatchSize = 1
    MaxRetries = 2
    Debounce = 0
    RetryDelays = {0}
    MaxData = 3
    MaxActs = 2
    FirstListFails = TRUE
    QuietHeals = FALSE
    EditsInWindow = FALSE
PROPERTY PruneSparesEdits
CHECK_DEADLOCK FALSE
