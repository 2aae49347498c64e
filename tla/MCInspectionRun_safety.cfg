SPECIFICATION Spec
CONSTANTS
    final = final
    independent = independent
    tool = tool
    worded = worded
    only = only
    other = other
    Gates = {final, independent}
    Purpose <- PurposeOfGates
    Hooks = {tool}
    Planned <- PlannedByTool
    Files = {1,2}
    Texts = {worded, other}
    Dictionaries = {only}
    Violating <- WordForbidden
    MaxEntries = 1
    MaxEdits = 1
    MaxRuns = 2
    Absent = Absent
    Standard = Standard
    Uninspectable = Uninspectable
    Untracked = Untracked
INVARIANTS
    TypeOK
    StoredUnderItsRules
    StoreBounded
PROPERTIES
    AcceptedForCurrentFiles
    AcceptedIsClean
    IndependentIsClean
