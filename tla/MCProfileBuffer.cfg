SPECIFICATION Spec
CONSTANTS
    Columns <- AllColumns
    DefaultColumns <- MCDefaultColumns
    FileSize = 12
    UInt16 = 64
    UInt32 = 256
    MaxCaptures = 5
INVARIANTS
    TypeOK
    NewestKept
    InUseIsRows
    NeverOvercounts
CHECK_DEADLOCK FALSE
