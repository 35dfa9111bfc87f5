CONSTANTS
    p1 = p1
    p2 = p2
    q1 = q1
    s1 = s1
    s2 = s2
    Primary = {p1, p2}
    Questions = {q1}
    Reviewers = {s1, s2}
    Nothing = Nothing
    Limits <- Profiles
SPECIFICATION Spec
SYMMETRY Alike
CHECK_DEADLOCK FALSE
INVARIANTS HumanDecides ReviewsSound
PROPERTY RepliesApproveWhatWasAsked
