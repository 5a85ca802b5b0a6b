SPECIFICATION Spec
CONSTANTS
    a = a
    b = b
    s = s
    Objects = {a, b, s}
    Fields = {f}
    SnapshotObjects = {s}
    Workers = {w1}
    MarkTypes = {"MARK_YOUNG", "MARK_FULL"}
    MaxStores = 2
    Undefined = Undefined
SYMMETRY Symmetry
INVARIANTS ReachableIsMarked MovedSlotsAreRecorded WeakSlotsAreRecorded
