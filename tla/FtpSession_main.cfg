SPECIFICATION FairSpec
CONSTANTS
    MaxCmds = 4
    MaxCells = 3
    BufCells = 2
INVARIANTS
    TypeOK
    CompleteOnlyOnce
    SessionEndReleasesAll
    DownloadComplete
    UploadKept
    UploadConcluded
PROPERTIES
    OpenFileIsDriven
    DataConnectionsEnd
CHECK_DEADLOCK FALSE
