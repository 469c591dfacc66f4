CONSTANTS
    Capacity = 5
    MaxTries = 3
    MaxSessions = 4
SPECIFICATION PortFairSpec
INVARIANTS HomeBetweenSessions SameRateInSession
PROPERTY EverySignOnServed
CHECK_DEADLOCK FALSE
