CONSTANTS
    s1 = s1
    s2 = s2
    stop = stop
    x1 = x1
    x2 = x2
    NoPod = NoPod
    Starts <- TwoStarts
    Forced <- ForcedStart
    UsePDB <- TwoStarts
    Stops <- OneStop
    Runs <- OneRun
    MaxFaults = 0
    AllowEvictions = FALSE
SPECIFICATION Spec
CHECK_DEADLOCK FALSE
INVARIANT OldPodGone
INVARIANT DaemonProtected
INVARIANT SuccessIsOwn
