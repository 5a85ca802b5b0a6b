SPECIFICATION Spec
CONSTANTS
    MaxCalls = 4
    MaxBodies = 2
INVARIANT OneResolver
INVARIANT ReactsOnce
INVARIANT InOrder
INVARIANT ReportedAreUnhandled
PROPERTY DerivedIsResolved
CHECK_DEADLOCK FALSE
