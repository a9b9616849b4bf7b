CONSTANTS
    s1 = s1
    s2 = s2
    stop = stop
    x1 = x1
    x2 = x2
    NoPod = NoPod
    Starts <- TwoStarts
    Forced <- ForcedStart
    UsePDB <- TwoStarts
    Stops <- None
    Runs <- OneRun
    MaxFaults = 1
    AllowEvictions = FALSE
SPECIFICATION FairSpec
CHECK_DEADLOCK FALSE
INVARIANT TypeOK
INVARIANT AnnotationsKept
PROPERTY SessionsEnd
