CONSTANTS
    s1 = s1
    s2 = s2
    q1 = q1
    q2 = q2
    old = old
    Setups <- TwoSetups
    Purges <- TwoPurges
    PurgeAll <- AllPurge
    Leftovers <- OldPods
    MaxFaults = 1
SPECIFICATION Spec
CHECK_DEADLOCK FALSE
INVARIANT TypeOK
INVARIANT SetupInv
INVARIANT OnlyFaultsFail
INVARIANT BoundUnlessPurged
INVARIANT PurgeDeletesLeftovers
