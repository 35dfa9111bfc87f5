SPECIFICATION Spec
CONSTANTS
    Works = {w1, w2}
    Procs = {p1, p2}
    Contents = {c1, c2}
    Products = {d1}
    Tracked = {}
    Unguarded = {}
    Nothing = Nothing
    MaxOps = 1
    MaxEdits = 1
    MaxCrashes = 1
SYMMETRY Symmetry
VIEW View
INVARIANTS BoardSound
PROPERTIES JournalKept ImplementsBoard
CHECK_DEADLOCK FALSE
