SPECIFICATION StorySpec
CONSTANTS
    Works = {w1, w2}
    Procs = {p1}
    Contents = {c1, c2, c3}
    Products = {d1, d2}
    Tracked = {w1}
    Unguarded = {w1}
    Nothing = Nothing
    MaxOps = 1
    MaxEdits = 1
    MaxCrashes = 1
PROPERTIES OpenResolved
CHECK_DEADLOCK FALSE
