SPECIFICATION Spec
CONSTANTS
    Bytes <- MCBytes
    MaxLen = 3
    Span = 2
INVARIANTS TypeOK IsRemainder SameAsTraditional BurstDetected
CHECK_DEADLOCK FALSE
