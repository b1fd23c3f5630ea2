SPECIFICATION PatientSpec
CONSTANTS
    Programs = {"httpd", "get_line", "framed"}
    Threads = {1, 2}
    Asked <- AskedTogether
    Smooth <- Pairs
    PipeCap = 1
    OutLen = 2
    FileLines = 2
    MaxFaults = 1
    Size = 3
    MaxInput = 5
    Total = 4
    Buf = 2
    Extra = 1
    Answers = 2
    MaxClients = 2
INVARIANTS
    TypeOK
    ReplyFits
    BodyReachesScript
    NothingLeaks
    CutOnlyFor
    StopsOnlyFor
    LinesMatch
    ReceivedEnough
    FailsOnlyFor
PROPERTIES
    EveryReplyEnds
    LineComesThrough
    TransferEnds
CHECK_DEADLOCK FALSE
