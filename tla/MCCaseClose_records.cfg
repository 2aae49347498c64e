CONSTANTS
    Closer = c
    Sessions = {c}
    Backends <- BothBackends
    MaxIssue = 1
    MaxTime = 6
    MaxFaults = 0
    Overlap = FALSE
    Careful = TRUE
    MaxAttempts = 2
    Shaky = {}
    MaxTroubles = 0
    QuietTime = 0
SPECIFICATION FairSpec
INVARIANT PermittedIsNotRefused
CHECK_DEADLOCK FALSE
