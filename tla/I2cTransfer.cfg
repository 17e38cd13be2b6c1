SPECIFICATION Spec
CONSTANTS
    N = 4
    Depth = 2
    PollLimit = 3
INVARIANTS
    OkIsExact
PROPERTIES
    KeepsWrite
    WriteReturns
