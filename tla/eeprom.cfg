SPECIFICATION Spec
CONSTANTS
    FabSize = 3
    VarSize = 2
    SetSize = 2
    Character = {65, 66}
    Boards <- MCBoards
    Fabs <- MCFabs
    Variables <- MCVariables
    Settings <- MCSettings
    MaxFailures = 1
    MaxCuts = 1
INVARIANT TypeOK
PROPERTY FieldsApart
PROPERTY Described
