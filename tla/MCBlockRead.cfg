CONSTANTS
    Lists <- MCLists
    Rooms = {2, 3}
    Scenarios <- MCScenarios
SPECIFICATION FairSpec
INVARIANT ReadIsWhole
PROPERTY EveryReadEnds
CHECK_DEADLOCK FALSE
