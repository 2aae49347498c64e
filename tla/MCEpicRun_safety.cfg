CONSTANTS
    a = a
    b = b
    c = c
    Order <- ThreeRows
    DependsOn <- LastNeedsFirst
    Wave <- TwoWaves
    MaxActive = 1
    Merging = {c}
    Outcomes = {"blocked", "failed", "delegation-unavailable"}
    MaxTroubles = 2
SPECIFICATION FairSpec
INVARIANTS
    TypeOK OneExecution CompletedIsAccepted
PROPERTIES
    KeepsContract EpicClosesInTheEnd
CHECK_DEADLOCK FALSE
