SPECIFICATION Spec
CONSTANTS
    First = 1
    CharMin = 0
    CharMax = 3
    Counts = {0, 1, 2, 3}
    MaxRuns = 3
    MaxFaults = 2
CHECK_DEADLOCK FALSE
INVARIANT TypeOK
INVARIANT NoticesDamage
INVARIANT MissesAtMostTheLate
PROPERTY Ends
