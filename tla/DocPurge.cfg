CONSTANTS
    e1 = e1
    e2 = e2
    qPlain = qPlain
    qAll = qAll
    Execs <- OneExec
    Purges <- PlainPurge
    PurgeAll <- NoPurge
    HostOf <- SameHost
    UserLabels <- NoUserLabels
    UsePDB <- OneExec
    MaxSignals = 1
    MaxFaults = 0
    AllowEvictions = FALSE
SPECIFICATION Spec
CHECK_DEADLOCK FALSE
PROPERTY PurgeFindsLeftovers
