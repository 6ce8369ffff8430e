SPECIFICATION FairSpec
CONSTANTS
    Tables = {"gpt", "dos", "none"}
    InitSystems = {"systemd", "sysv"}
    RootEnd = 1
    NextStart = 9
    DiskEnd = 4
    BackupTable = 1
    MaxCuts = 2
    MaxFaults = 2
CHECK_DEADLOCK FALSE
INVARIANTS TypeOK CleanRunFills
PROPERTY ExpandsUnlessCutLate
