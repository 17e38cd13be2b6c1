SPECIFICATION Spec
CONSTANTS
    Addresses = {s, p}
    Sram = {s}
    Values = {v0, v1}
    Blank = v0
    SmokeLen = 2
    Base = 4
    PollLimit = 2
    MaxPackets = 4
INVARIANTS
    TypeOK
    CleanAnswers
    CarriedOutOnce
PROPERTIES
    AnswerIsFresh
    Answers
