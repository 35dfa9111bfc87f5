SPECIFICATION Spec
CONSTANTS
    a = a
    b = b
    c1 = c1
    c2 = c2
    Nothing = Nothing
    Items = {a, b}
    Closers = {c1, c2}
    Limits <- Profiles
INVARIANTS RecordsSound
PROPERTIES CompletedIsEarned NothingUnfinished LateResultsChangeNothing
CHECK_DEADLOCK FALSE
