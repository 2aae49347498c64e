SPECIFICATION FairSpec
CONSTANTS
    wide = wide
    narrow = narrow
    Calls <- OneCall
    Targets <- ThreeTargets
    Owner <- ThreeOwner
    Requested <- OneRequested
    Lanes = {1, 2, 3}
    CreateMayFail = TRUE
    LintMayCrash = TRUE
    MaxEdits = 1
    Pending = Pending
    Retry = Retry
    Uninspectable = Uninspectable
    Broken = Broken
    None = None
PROPERTIES
    KeepsPromise
    CallsReturn
