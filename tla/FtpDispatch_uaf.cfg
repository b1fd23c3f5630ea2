SPECIFICATION Spec
CONSTANTS
    c1 = c1
    c2 = c2
    c3 = c3
    Clients = {c1}
    NoClient = NoClient
    NumThreads = 1
    Backlog = 2
    PipeCap = 1
    MaxSends = 1
    Active = {c1}
INVARIANT
    InitOnLiveSession
CHECK_DEADLOCK FALSE
