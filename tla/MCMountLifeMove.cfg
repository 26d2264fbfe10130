SPECIFICATION MCSpec
CONSTANTS
    Clis = {1}
    Daemons = {"d1", "d2"}
    Keys <- MCKeys
    Folders = {"fa", "fb", "fs", "old", "olds", "n"}
    Named = {"n"}
    Points = {"p"}
    DefaultDir <- MCDefaultDir
    LegacyDir <- MCLegacyDir
    Readers = {"poller"}
    Writers = {}
    MaxHandlers = 1
    StopGivesUp = TRUE
    StartGivesUp = FALSE
    None = None
    MaxCmds = 2
    MaxFaults = 0
PROPERTIES MoveOnlyStopped
CHECK_DEADLOCK FALSE
