CONSTANTS
    Name <- MCName
    Givens <- HereGivens
    Results <- MCResults
    Attempts = 2
    MaxFaults = 0
SPECIFICATION Spec
CHECK_DEADLOCK FALSE
INVARIANT CopyFromArrives
