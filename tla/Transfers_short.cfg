SPECIFICATION Spec
CONSTANTS
    Programs = {"framed"}
    Threads = {1, 2}
    Asked <- AskedTogether
    Smooth <- Pairs
    PipeCap = 1
    OutLen = 2
    FileLines = 2
    MaxFaults = 1
    Size = 3
    MaxInput = 5
    Total = 4
    Buf = 2
    Extra = 1
    Answers = 2
    MaxClients = 2
INVARIANT
    ReceivedAll
CHECK_DEADLOCK FALSE
