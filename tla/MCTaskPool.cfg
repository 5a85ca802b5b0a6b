CONSTANTS
    v1 = v1
    v2 = v2
    t1 = t1
    t2 = t2
    t3 = t3
    NoTask = NoTask
    VMs <- MCVMs
    Tasks <- MCTasks
    Cores = 3
SPECIFICATION FairSpec
INVARIANTS NoTaskLostOrDuplicated RunningTaskIsAlive DrainedWhenJoined
PROPERTIES EveryTaskRuns DestroyReturns
