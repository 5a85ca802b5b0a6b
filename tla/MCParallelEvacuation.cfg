CONSTANTS
    a = a
    b = b
    Objects = {a, b}
    NumWorkers = 1
    Undefined = Undefined
SPECIFICATION Spec
INVARIANT PhasesAreApart
INVARIANT NothingDangles
INVARIANT ReferencesAreKept
INVARIANT YoungSlotsAreRemembered
PROPERTY EvacuationEnds
