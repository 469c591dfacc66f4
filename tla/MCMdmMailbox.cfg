CONSTANTS
    Scenarios <- MCScenarios
    MaxConnections = 7
SPECIFICATION FairSpec
INVARIANTS InOrder MuteOnlyLater
PROPERTY AllAnswered
CHECK_DEADLOCK FALSE
