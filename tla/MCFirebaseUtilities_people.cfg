SPECIFICATION Spec
CONSTANTS
    c1 = c1
    c2 = c2
    u1 = u1
    u2 = u2
    s1 = s1
    s2 = s2
    e1 = e1
    Client = {c1, c2}
    User = {u1, u2}
    Columbia = {u1}
    Event = {e1}
    NoUser = NoUser
    UserOf <- TwoPeople
    Slot <- Slots
    MayFail = {"event", "union"}
    Redelivery = FALSE
    MaxQueue = 2
    MaxTaps = 4
    MaxCrashes = 1
SYMMETRY SlotSymmetry
INVARIANTS TypeOK
PROPERTIES ImplementsBoard
CHECK_DEADLOCK FALSE
