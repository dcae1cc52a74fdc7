SPECIFICATION Spec
CONSTANTS
    c1 = c1
    c2 = c2
    u1 = u1
    u2 = u2
    s1 = s1
    s2 = s2
    e1 = e1
    Client = {c1, c2}
    User = {u1}
    Columbia = {u1}
    Event = {e1}
    NoUser = NoUser
    UserOf <- TwoDevices
    Slot <- Slots
    MayFail = {"read", "event", "union", "remove", "delete"}
    Redelivery = TRUE
    MaxQueue = 2
    MaxTaps = 3
    MaxCrashes = 0
SYMMETRY DeviceSymmetry
CHECK_DEADLOCK FALSE
INVARIANTS AttendeesHaveAccounts ReadsShowPendingWrites
PROPERTIES ImplementsRepeatingBoard
