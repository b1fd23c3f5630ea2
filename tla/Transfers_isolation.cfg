SPECIFICATION FairSpec
CONSTANTS
    Programs = {"httpd"}
    Threads = {1, 2}
    Asked <- AskedTogether
    Smooth <- Pairs
    PipeCap = 1
    OutLen = 1
    FileLines = 2
    MaxFaults = 0
    Size = 3
    MaxInput = 5
    Total = 4
    Buf = 2
    Extra = 1
    Answers = 2
    MaxClients = 2
PROPERTY
    OwnRequestSuffices
CHECK_DEADLOCK FALSE
