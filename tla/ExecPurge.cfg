CONSTANTS
    e1 = e1
    e2 = e2
    qPlain = qPlain
    qAll = qAll
    Execs <- TwoExecs
    Purges <- AllPurge
    PurgeAll <- AllPurge
    HostOf <- SameHost
    UserLabels <- NoUserLabels
    UsePDB <- TwoExecs
    MaxSignals = 0
    MaxFaults = 0
    AllowEvictions = TRUE
SPECIFICATION Spec
CHECK_DEADLOCK FALSE
SYMMETRY SwapExecs
INVARIANT Protected
INVARIANT OnlyOwnPods
