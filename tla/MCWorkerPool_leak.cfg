SPECIFICATION Spec
CONSTANTS
    wide = wide
    narrow = narrow
    Calls <- TwoCalls
    Targets <- FourTargets
    Owner <- FourOwner
    Requested <- TwoRequested
    Lanes = {1, 2, 3, 4, 5, 6}
    CreateMayFail = TRUE
    LintMayCrash = FALSE
    MaxEdits = 0
    Pending = Pending
    Retry = Retry
    Uninspectable = Uninspectable
    Broken = Broken
    None = None
INVARIANTS
    LanesServeThePool
