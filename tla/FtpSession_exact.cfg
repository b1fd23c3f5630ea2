SPECIFICATION Spec
CONSTANTS
    MaxCmds = 2
    MaxCells = 3
    BufCells = 2
INVARIANT
    DownloadExact
CHECK_DEADLOCK FALSE
