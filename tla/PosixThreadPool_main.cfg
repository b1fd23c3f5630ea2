SPECIFICATION FairSpec
CONSTANTS
    NumThreads = 3
    NTasks = 4
INVARIANTS
    TypeOK
    RunsItsOwnEntry
    DestroyedWhenIdle
    NothingAbandoned
PROPERTIES
    ImplementsTaskPool
    EveryTaskRuns
CHECK_DEADLOCK FALSE
