SPECIFICATION Spec
CONSTANTS
    e1 = e1
    e2 = e2
    f1 = f1
    f2 = f2
    s1 = s1
    s2 = s2
    Me = Me
    Event = {e1, e2}
    Mine = {e1, e2}
    Date <- OneDay
    Matches = {e2}
    Fetch = {f1}
    Swipe = {s1}
    MaxChanges = 0
SYMMETRY CallSymmetry
INVARIANTS IndexInRange
CHECK_DEADLOCK FALSE
