SPECIFICATION FairSpec
CONSTANTS
    t1 = t1
    t2 = t2
    t3 = t3
    Tasks <- MCTasks
    MaxConcurrent = 2
    MaxFaults = 1
    Pipeline = TRUE
INVARIANTS
    SlotsAccounted
    CapacityRespected
    ClientOutlivesTasks
PROPERTIES
    ImplementsTaskPool
    PulledTasksSettle
    StopCompletes
    QueuedTasksArePulled
