SPECIFICATION Spec
CONSTANTS
    Digit = {"1"}
    Other = {"g"}
    Texts <- MCTexts
    Behind <- MCBehind
CHECK_DEADLOCK FALSE
INVARIANT TypeOK
INVARIANT FitsWhenEscaped
INVARIANT LoopShowsWhatWasTyped
