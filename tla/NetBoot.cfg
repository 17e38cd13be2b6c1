SPECIFICATION Spec
CONSTANTS
    Builds <- EveryBuild
    FirstPort = 1
    LastPort = 7
INVARIANTS
    TypeOK
    NicOnLiveLink
    LinuxReady
    FirmwareMatchesPolicy
    FreshPorts
    ScmiFailClosed
PROPERTIES
    LinkTimeoutFinal
    KeepsPromise
