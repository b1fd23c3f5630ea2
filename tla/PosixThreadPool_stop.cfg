SPECIFICATION FairSpec
CONSTANTS
    NumThreads = 2
    NTasks = 2
PROPERTY
    MainEnds
CHECK_DEADLOCK FALSE
