SPECIFICATION FairSpec
CONSTANTS
    User = {u1, u2}
    MaxPending = 1
    MaxWrites = 2
    MaxSwitches = 1
    MaxBreaks = 1
    MaxRestarts = 1
INVARIANTS TypeOK
PROPERTIES WritesSettle
CHECK_DEADLOCK FALSE
