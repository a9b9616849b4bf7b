CONSTANTS
    s1 = s1
    s2 = s2
    stop = stop
    x1 = x1
    x2 = x2
    NoPod = NoPod
    Starts <- OneStart
    Forced <- None
    UsePDB <- OneStart
    Stops <- None
    Runs <- TwoRuns
    MaxFaults = 0
    AllowEvictions = FALSE
SPECIFICATION Spec
CHECK_DEADLOCK FALSE
INVARIANT SuccessIsOwn
