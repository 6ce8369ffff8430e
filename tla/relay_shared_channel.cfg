SPECIFICATION Spec
CONSTANTS
    Bytes <- OneBytes
    Behind <- OneBehind
    Lookalike <- OneLookalike
    MaxLen = 3
    Stack = 1
    ByteLosses = 0
    RecvErrors = 0
    WriteErrors = 0
    Overlaps = 0
    Baud = 115200
CHECK_DEADLOCK FALSE
INVARIANT ForwardsOnceReceived
