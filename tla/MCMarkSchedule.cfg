SPECIFICATION FairSpec
CONSTANTS
    NumWorkers = 2
    GcThreadNum = 7
    ParallelGC = TRUE
    GCTypes = {"YOUNG_GC", "OLD_GC", "FULL_GC"}
    MarkTypes = {"MARK_YOUNG", "MARK_FULL"}
    Backgrounds = {TRUE, FALSE}
    MaxNodes = 1
    MaxCycles = 3
INVARIANTS MovesAlone MarkingIsComplete TasksOfThisMarking CountIsExact
PROPERTIES WaitsEnd
