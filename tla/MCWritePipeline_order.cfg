SPECIFICATION Spec
CONSTANTS
    User = {u1, u2}
    MaxPending = 2
    MaxWrites = 2
    MaxSwitches = 1
    MaxBreaks = 1
    MaxRestarts = 1
SYMMETRY Symmetry
INVARIANTS AnswersMatchPipeline AssertionsHold
PROPERTIES ImplementsWriteQueue
CHECK_DEADLOCK FALSE
