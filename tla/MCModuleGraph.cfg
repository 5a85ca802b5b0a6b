SPECIFICATION Spec
CONSTANTS
    Modules = {a, b, c}
    MaxRequests = 2
INVARIANT CompleteWithImports
INVARIANT RunsAfterImports
PROPERTY LoadReturns
