CONSTANTS
    r1 = r1
    r2 = r2
    r3 = r3
    NoSet = {"nullptr"}
    NoRegion = NoRegion
    Regions <- MCRegions
    SpaceOf <- MCSpaceOf
    FreeListNum = 2
    NumWorkers = 2
    MaxSweeps = 2
    Collections = {TRUE, FALSE}
    StoredSlots = {}
    Switches = {"ENABLE", "DISABLE"}
SYMMETRY MCSymmetry
SPECIFICATION Spec
INVARIANTS SweptByOne MarkedUntilSwept ClosedSweepIsComplete
