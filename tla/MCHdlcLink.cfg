CONSTANTS
    Kinds <- MCKinds
    MaxRequests = 6
    MaxTries = 2
    MaxSessions = 6
    MaxFaults = 2
SPECIFICATION FairSpec
INVARIANT Whole
PROPERTIES ImplementsSession EveryRequestAnswered
CHECK_DEADLOCK FALSE
