SPECIFICATION Spec
CONSTANTS
    Builds <- EveryBuild
    FirstPort = 1
    LastPort = 7
PROPERTY
    ObservedRecovery
