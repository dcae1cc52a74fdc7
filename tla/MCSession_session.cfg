SPECIFICATION FairSpec
CONSTANTS
    a1 = a1
    a2 = a2
    s1 = s1
    s2 = s2
    s3 = s3
    Account = {a1, a2}
    NoUser = NoUser
    Slot = {s1, s2, s3}
    Failures = TRUE
    MaxTaps = 3
    MaxKills = 1
INVARIANTS TypeOK OneOpeningPerPress
PROPERTIES ProfileComes
CHECK_DEADLOCK FALSE
