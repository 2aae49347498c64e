CONSTANTS
    p1 = p1
    p2 = p2
    p3 = p3
    Dir = Dir
    Url = Url
    Old = Old
    UnitDir = UnitDir
    Elsewhere = Elsewhere
    Port = Port
    Self = Self
    Probe = Probe
    None = None
    Pids <- ThreePids
    SelfStart = 2
    MaxStarts = 3
    RecordedKeys <- TwoWays
    Urls <- TheRemote
    Inside <- NoPairs
    Mentions <- NoPairs
    CaseNamed <- NoPairs
SPECIFICATION Spec
SYMMETRY AnyPid
INVARIANTS
    TypeOK PermittedMeansGone NothingUnrecorded CleanPasses
