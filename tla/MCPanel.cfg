SPECIFICATION PanelSpec
CONSTANTS
    Jobs = {j1, j2}
    Packages = {p1, p2}
    Bare = {p2}
    First = First
    Versions = {v1, v2}
    MaxCrashes = 2
    MaxOld = 3
    Missing = Missing
SYMMETRY Symmetry
INVARIANTS InstalledWhole ActiveThemeServed ServerRunnable PreviousKept
CHECK_DEADLOCK FALSE
