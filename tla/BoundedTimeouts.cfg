SPECIFICATION Spec
CONSTANTS
    N = 4
    Depth = 2
    PollLimit = 3
PROPERTY
    BoundedTimeouts
