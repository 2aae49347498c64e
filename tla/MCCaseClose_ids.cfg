CONSTANTS
    Closer = c
    Sessions = {c, s}
    Backends = {"local"}
    MaxIssue = 1
    MaxTime = 4
    MaxFaults = 0
    Overlap = FALSE
    Careful = TRUE
    MaxAttempts = 2
    Shaky = {}
    MaxTroubles = 0
    QuietTime = 4
SPECIFICATION Spec
INVARIANT IdsNameOneComment
CHECK_DEADLOCK FALSE
