SPECIFICATION SearchSpec
CONSTANTS
    Buffers <- MCBuffers
    Bounds <- MCBounds
INVARIANT
    RangeFound
CHECK_DEADLOCK FALSE
