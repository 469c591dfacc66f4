SPECIFICATION Spec
CONSTANTS
    Requests <- MCRequests
    Frames <- MCFrames
    Data <- MCData
    MaxSeq = 0
    StackSeq <- MCStackSeq
    MaxCount = 1
    MaxSegments = 1
    ZeroRequest <- MCZeroRequest
    ZeroFrame <- MCZeroFrame
    None = None
INVARIANTS
    TypeOK
    BufferInStep
    AddressChecked
    ReleaseOnly
PROPERTIES
    ImplementsExchange
CHECK_DEADLOCK FALSE
