SPECIFICATION Spec
CONSTANTS
    User = {u1, u2}
    Options = {"hflip", "itp", "ledc"}
    Typed = {"x", "y"}
    Missing = "missing"
    Params <- MCParams
    MaxFailures = 1
INVARIANT TypeOK
PROPERTY ChosenAsAWhole
