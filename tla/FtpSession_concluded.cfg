SPECIFICATION Spec
CONSTANTS
    MaxCmds = 2
    MaxCells = 3
    BufCells = 2
INVARIANT
    EveryTransferConcluded
CHECK_DEADLOCK FALSE
