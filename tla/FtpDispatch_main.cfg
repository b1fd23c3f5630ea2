SPECIFICATION InTurnSpec
CONSTANTS
    c1 = c1
    c2 = c2
    c3 = c3
    Clients = {c1, c2, c3}
    NoClient = NoClient
    NumThreads = 2
    Backlog = 1
    PipeCap = 1
    MaxSends = 1
    Active = {c1}
INVARIANTS
    TypeOK
    Balanced
    ReadableIsInitialised
    NoTaskStranded
PROPERTIES
    EveryoneIsGreeted
    SessionsEnd
CHECK_DEADLOCK FALSE
