SPECIFICATION FairSpec
CONSTANTS
    c1 = c1
    c2 = c2
    u1 = u1
    u2 = u2
    s1 = s1
    s2 = s2
    e1 = e1
    Client = {c1, c2}
    User = {u1}
    Columbia = {u1}
    Event = {e1}
    NoUser = NoUser
    UserOf <- TwoDevices
    Slot <- Slots
    MayFail = {}
    Redelivery = FALSE
    MaxQueue = 2
    MaxTaps = 2
    MaxCrashes = 0
CHECK_DEADLOCK FALSE
PROPERTIES SignInGivesAccount CreatorAttends OwnerCanDelete ImplementsBoard
