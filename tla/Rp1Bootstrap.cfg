SPECIFICATION Spec
CONSTANTS
    PayloadLen = 5
    ChunkSize = 2
    ClearTries = 3
    ProbeTries = 2
INVARIANTS
    TypeOK
    StartsWhole
PROPERTIES
    HandsOffProc0
    
    ImplementsReload
