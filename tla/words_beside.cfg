CONSTANTS
    Letters    = {"a", "b", "c"}
    Fonts      <- BendingFont
    Texts      <- Documents
    Languages  = {"x", "y"}
    Patterns   <- PatternSet
    Exceptions <- ExceptionSet
    MaxGiven   = 1
    LeftMin    = 1
    RightMin   = 1
SPECIFICATION Spec
INVARIANT LettersKept
CHECK_DEADLOCK FALSE
