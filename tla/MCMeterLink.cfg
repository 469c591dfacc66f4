SPECIFICATION FairLinkSpec
CONSTANTS
    Requests <- MCRequests
    Frames <- MCFrames
    Data <- MCData
    MaxSeq = 1
    StackSeq <- AnyStackSeq
    MaxCount = 1
    MaxSegments = 9
    ZeroRequest <- MCZeroRequest
    ZeroFrame <- MCZeroFrame
    None = None
    Scenarios <- MCScenarios
    MaxScript = 5
    MaxFaults = 2
INVARIANTS
    AnswerInOrder
    AnswerIsOwn
    InStep
    FreshAssociation
PROPERTIES
    Recovers
    EveryRequestAnswered
CHECK_DEADLOCK FALSE
