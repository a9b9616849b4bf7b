CONSTANTS
    Codes <- SomeCodes
    CopyAttempts = 2
    Timeout = 2
    MaxCuts = 1
    MaxFaults = 2
    HostMayDie = TRUE
    PodMayDie = TRUE
SPECIFICATION FairSpec
CHECK_DEADLOCK FALSE
INVARIANT TypeOK
INVARIANT SuccessIsReal
INVARIANT SuccessInv
INVARIANT AliveForCopy
INVARIANT ReportedIsActual
PROPERTY ImplementsContract
PROPERTY HostReturns
PROPERTY TimeoutStopsCommand
