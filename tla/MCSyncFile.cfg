SPECIFICATION MCSpec
CONSTANTS
    Inodes = {1, 2}
    Flushers = {}
    RowIds = {1, 2, 3, 4}
    BatchSize = 1
    MaxRetries = 1
    Debounce = 0
    RetryDelays = {0}
    MaxData = 2
    MaxActs = 2
    FirstListFails = TRUE
    QuietHeals = FALSE
    EditsInWindow = FALSE
INVARIANTS STypeOK KeepSafe VersionBinding
CHECK_DEADLOCK FALSE
