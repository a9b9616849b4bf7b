CONSTANTS
    Name <- MCName
    Givens <- MCGivens
    Results <- MCResults
    Attempts = 2
    MaxFaults = 2
SPECIFICATION FairSpec
CHECK_DEADLOCK FALSE
INVARIANT TypeOK
INVARIANT FilesReady
INVARIANT NothingStale
INVARIANT ReposReady
INVARIANT CopiedBack
INVARIANT HostUntouched
INVARIANT ArtifactsDespiteFailure
INVARIANT RequestsFit
INVARIANT ScriptParameters
PROPERTY SessionEnds
