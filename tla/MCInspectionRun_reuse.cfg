SPECIFICATION Spec
CONSTANTS
    final = final
    independent = independent
    tool = tool
    worded = worded
    only = only
    other = other
    Gates = {final}
    Purpose <- FinalAlone
    Hooks = {tool}
    Planned <- PlannedByTool
    Files = {1, 2}
    Texts = {worded}
    Dictionaries = {only}
    Violating <- WordForbidden
    MaxEntries = 2
    MaxEdits = 2
    MaxRuns = 2
    Absent = Absent
    Standard = Standard
    Uninspectable = Uninspectable
    Untracked = Untracked
PROPERTIES
    ReuseReproduces
