SPECIFICATION FairSpec
CONSTANTS
    Bytes <- OneBytes
    Behind <- OneBehind
    Lookalike <- OneLookalike
    MaxLen = 3
    Stack = 1
    ByteLosses = 0
    RecvErrors = 1
    WriteErrors = 1
    Overlaps = 1
    Baud = 115200
CHECK_DEADLOCK FALSE
INVARIANT TypeOK
INVARIANT WireHasPrefixes
PROPERTY LoopTerminates
