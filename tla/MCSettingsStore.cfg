CONSTANTS
    Threads <- MCBoth
    LastObject = 2
    Values = {v1}
    Default = default
    Files = 5
    MaxWrites = 3
    MaxCrashes = 2
SPECIFICATION Spec
INVARIANT InSync
PROPERTY BootIsAllOrNothing
CHECK_DEADLOCK FALSE
