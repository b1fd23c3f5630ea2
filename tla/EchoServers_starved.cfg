SPECIFICATION FairSpec
CONSTANTS
    NumClients = 2
    MaxSends = 2
    MaxFaults = 0
    SelectSlots = 2
    PollSlots = 1
    EpollSlots = 1
    MaxEvents = 2
    Programs = {"select"}
    Crowded = {"select"}
    MaxKids = 2
PROPERTY
    EveryoneIsServed
CHECK_DEADLOCK FALSE
