CONSTANTS
  VMs = {v1, v2, v3}
  Locations = {l1}
  Values = {0, 1}
  NoNode = NoNode
  Free = Free
  MaxCalls = 4
SPECIFICATION Spec
INVARIANT ListIsLinked
PROPERTY IsWaiterQueue
PROPERTY WaitReturns
