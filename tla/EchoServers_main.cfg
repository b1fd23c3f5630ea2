SPECIFICATION FairSpec
CONSTANTS
    NumClients = 3
    MaxSends = 2
    MaxFaults = 1
    SelectSlots = 2
    PollSlots = 1
    EpollSlots = 1
    MaxEvents = 2
    Programs = {"select", "poll", "epoll", "process", "thread"}
    Crowded = {"select", "process"}
    MaxKids = 2
INVARIANTS
    TypeOK
    SelectTableMatches
    EpollTableIsCurrent
    EndsOnlyFor
PROPERTIES
    ImplementsEchoService
    EveryoneGetsVerdict
    RequestsAreAnswered
    LeaversAreReleased
CHECK_DEADLOCK FALSE
