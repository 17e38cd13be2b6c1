CONSTANTS
  ColdPolls = 2
  Samples = 4
  Light = 1
  Attempts = 2
  MaxSeq = 3
  Tries = 2
  Anchors = 2
  Radix = 2
  High = 3
  FinalPolls = 3
  AckPolls = 3
  DogPolls = 4
SPECIFICATION Spec
INVARIANTS
  TypeOK
  AdmissionIsEarned
  VerdictIsWhole
  AckIsEarned
PROPERTIES
  Ends
  ImplementsObserver
CHECK_DEADLOCK FALSE
