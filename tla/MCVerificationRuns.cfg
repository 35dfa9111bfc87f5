SPECIFICATION StorySpec
CONSTANTS
    Runs = {r1, r2}
    Inputs = {i1, i2}
    Nobody = Nobody
    Nothing = Nothing
    MaxGen = 1
    MaxEdits = 1
INVARIANTS WellFormed PassedIsBacked
PROPERTIES AcceptsOnlyNewest VerdictStands VerdictReached
CHECK_DEADLOCK FALSE
