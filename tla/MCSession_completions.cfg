SPECIFICATION Spec
CONSTANTS
    a1 = a1
    a2 = a2
    s1 = s1
    s2 = s2
    s3 = s3
    Account = {a1}
    NoUser = NoUser
    Slot = {s1, s2}
    Failures = FALSE
    MaxTaps = 1
    MaxKills = 0
INVARIANTS EveryCompletionIsCalled
CHECK_DEADLOCK FALSE
