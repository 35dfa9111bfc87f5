CONSTANTS
    w1 = w1
    w2 = w2
    r1 = r1
    r2 = r2
    c1 = c1
    p1 = p1
    p2 = p2
    Works = {w1, w2}
    Runs = {r1, r2}
    Calls = {c1}
    Processes = {p1, p2}
    Nothing = Nothing
    Limits <- Profiles
SPECIFICATION Spec
PROPERTIES RepairNeedsExecution
SYMMETRY Alike
CHECK_DEADLOCK FALSE
