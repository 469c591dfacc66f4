SPECIFICATION FairSpec
CONSTANTS
    InactivityOn = TRUE
    MaxUpsets = 6
INVARIANTS
    ConnectedIsConnected
    FreshSession
PROPERTY
    Settles
CHECK_DEADLOCK FALSE
