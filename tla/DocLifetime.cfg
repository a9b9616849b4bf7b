CONSTANTS
    Codes <- SomeCodes
    CopyAttempts = 2
    Timeout = 2
    MaxCuts = 0
    MaxFaults = 0
    HostMayDie = TRUE
    PodMayDie = FALSE
SPECIFICATION FairSpec
CHECK_DEADLOCK FALSE
PROPERTY PodLifetimeBounded
