SPECIFICATION Spec
CONSTANTS
    Bytes <- MCBytes
    Behind <- MCBehind
    Lookalike <- MCLookalike
    MaxLen = 3
    Stack = 1
    ByteLosses = 2
    RecvErrors = 0
    WriteErrors = 1
    Overlaps = 0
    Baud = 115200
CHECK_DEADLOCK FALSE
PROPERTY RelaysInOrder
INVARIANT Resynchronises
