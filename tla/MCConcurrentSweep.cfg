CONSTANTS
    r1 = r1
    r2 = r2
    r3 = r3
    NoSet = {"nullptr"}
    NoRegion = NoRegion
    Regions <- MCOneRegion
    SpaceOf <- MCSpaceOfOne
    FreeListNum = 2
    NumWorkers = 1
    MaxSweeps = 2
    Collections = {TRUE, FALSE}
    StoredSlots = {"live", "dying"}
    Switches = {"ENABLE", "DISABLE"}
SPECIFICATION FairSpec
INVARIANTS NoSlotForgotten FreedSlotForgotten
PROPERTY WaitsEnd
