SPECIFICATION Spec
CONSTANTS
    w1 = w1
    w2 = w2
    lead = lead
    child = child
    x = x
    y = y
    Nothing = Nothing
    Works = {w1, w2}
    Primary = {lead}
    Children = {child}
    Parent <- OneParent
    Calls = {x, y}
    CallOf <- OneCallEach
    Writing = {x, y}
    Limits <- Profiles
SYMMETRY Symmetry
CHECK_DEADLOCK FALSE
INVARIANTS HistorySound EffectsAccounted
PROPERTIES AttachedInOrder WritesInBounds
