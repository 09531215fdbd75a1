SPECIFICATION FairSpec
CONSTANTS
    t1 = t1
    t2 = t2
    t3 = t3
    Tasks <- MCTasks
    MaxConcurrent = 2
    MaxFaults = 2
    Pipeline = TRUE
PROPERTY
    QueuedTasksArePulled
