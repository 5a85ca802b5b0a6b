SPECIFICATION Spec
CONSTANTS
    a = a
    b = b
    s = s
    Objects = {a, b}
    Fields = {f}
    SnapshotObjects = {}
    Workers = {w1}
    MarkTypes = {"MARK_FULL"}
    MaxStores = 2
    Undefined = Undefined
INVARIANT DeadWeakSlotsAreCleared
