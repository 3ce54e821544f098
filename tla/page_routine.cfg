SPECIFICATION FairSpec
CONSTANTS
    Items <- Prose
    MaxItems = 4
    VSize = 4
    TopSkip = 1
    MaxDepth = 0
    Classes <- Feet
    Limit = 2
    Factor = 1000
    ClassSkip = 1
    FloatCost = 10000
    SplitTopSkip = 1
    SplitMaxDepth = 0
    Routine = TRUE
    Holdings = {TRUE, FALSE}
    MaxDeadCycles = 1
INVARIANTS
    NothingLostOrDoubled
    TextInOrder
    LinesInOrder
    PageFitsUnlessLeft
    MarksAreThePages
PROPERTIES
    DocumentEnds
CHECK_DEADLOCK FALSE
