CONSTANTS
    e1 = e1
    e2 = e2
    qPlain = qPlain
    qAll = qAll
    Execs <- OneExec
    Purges <- AllPurge
    PurgeAll <- AllPurge
    HostOf <- SameHost
    UserLabels <- NoUserLabels
    UsePDB <- OneExec
    MaxSignals = 3
    MaxFaults = 1
    AllowEvictions = FALSE
SPECIFICATION FairSpec
CHECK_DEADLOCK FALSE
INVARIANT TypeOK
INVARIANT OrphansOnlyWithoutPdb
INVARIANT CleanupComplete
INVARIANT CleanupInv
INVARIANT OrphanInv
INVARIANT NoPdbLeak
PROPERTY Terminates
PROPERTY CleanupTakesEffect
PROPERTY InterruptEndsWait
