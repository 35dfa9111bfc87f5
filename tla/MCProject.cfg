SPECIFICATION ProjectSpec
CONSTANTS
    Works = {w1, w2}
    Scopes <- AllScopes
    Stacks = {stackA, stackB}
    Identities = {i1, i2}
    Processes = {p1, p2}
    Nothing = Nothing
    Limits <- Profiles
    w1 = w1
    w2 = w2
    stackA = stackA
    stackB = stackB
    i1 = i1
    i2 = i2
    p1 = p1
    p2 = p2
INVARIANTS FilesAgree ChecksSound
PROPERTIES ChangeContained BaselineHolds
CHECK_DEADLOCK FALSE
