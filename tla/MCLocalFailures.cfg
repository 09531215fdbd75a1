SPECIFICATION MCFairSpec
CONSTANTS
    t1 = t1
    t2 = t2
    n1 = n1
    n2 = n2
    Tasks <- MCTasks
    Setups <- MCSetups
    Jobs <- MCJobs
    MaxDaemonChanges = 2
    Ids <- MCIds
    Deployments <- Recognisable
    MaxRestarts = 3
    MaxFaults = 2
INVARIANT
    FailuresFailTheTask
