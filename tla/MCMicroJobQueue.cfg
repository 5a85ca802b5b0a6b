SPECIFICATION Spec
CONSTANTS
    Jobs = {j1, j2, j3, j4}
    NoJob = NoJob
    MaxNested = 2
PROPERTY IsJobQueue
PROPERTY DrainLeavesNothing
PROPERTY JobsRun
