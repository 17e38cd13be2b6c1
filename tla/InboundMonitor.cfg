SPECIFICATION Spec
CONSTANTS
    Builds = {"block", "protect4k", "hole64k", "interior", "iatu", "focused"}
    Ops = 3
    Polls = 2
INVARIANTS
    TypeOK
    NoGuardLeft
    OnlyRacyModesPark
    VerdictIsReal
    AckIsItsOwn
    FallbackIsClean
PROPERTIES
    Ends
