CONSTANTS
  k1 = k1
  k1b = k1b
  k2 = k2
  k3 = k3
  Keys <- MCKeys
  Class <- MCClass
  Hash <- MCHash
  Cursors = {c1}
  Unused = Unused
  Closed = Closed
  KeyHole = KeyHole
  MIN_CAPACITY = 2
  MIN_SHRINK_CAPACITY = 2
  MaxTables = 3
SPECIFICATION TableSpec
INVARIANT LookupIsExact
PROPERTY IsOrderedTable
