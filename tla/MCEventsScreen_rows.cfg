SPECIFICATION Spec
CONSTANTS
    e1 = e1
    e2 = e2
    f1 = f1
    f2 = f2
    s1 = s1
    s2 = s2
    Me = Me
    Event = {e1, e2}
    Mine = {e2}
    Date <- TwoDays
    Matches = {e2}
    Fetch = {f1}
    Swipe = {s1, s2}
    MaxChanges = 1
SYMMETRY CallSymmetry
INVARIANTS TypeOK RowsWellFormed
PROPERTIES OthersEventsSurvive
CHECK_DEADLOCK FALSE
