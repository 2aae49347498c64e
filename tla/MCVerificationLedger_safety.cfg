SPECIFICATION Spec
CONSTANTS
    first = first
    clone = clone
    server = server
    Processes = {first}
    Resources = {clone, server}
    MaxCrashes = 2
    Missing = Missing
    Damaged = Damaged
    None = None
SYMMETRY Symmetry
CHECK_DEADLOCK FALSE
INVARIANTS
    TypeOK
    ReportsKept
PROPERTIES
    DamageStays
    ReclaimedAsReviewed
    KeepsLedgerContract
