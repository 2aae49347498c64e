CONSTANTS
    Closer = c
    Sessions = {c, s}
    Backends <- BothBackends
    MaxIssue = 2
    MaxTime = 6
    MaxFaults = 1
    Overlap = FALSE
    Careful = TRUE
    MaxAttempts = 2
    Shaky <- SomeTroubles
    MaxTroubles = 1
    QuietTime = 2
SPECIFICATION FairSpec
INVARIANTS
    TypeOK IssueWhole CommentsKept CommentIdsDistinct ClosedAsAccepted LatestDecides
    PermittedIsOnRecord
PROPERTIES ClosesInTheEnd KeepsCaseContract
CHECK_DEADLOCK FALSE
