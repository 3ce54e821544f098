CONSTANTS
    BaselineSkip <- Baseline
    LineSkip <- Lineskip
    LineSkipLimit = 0
    SplitTopSkip <- Topskip
    BoxMaxDepth = 1
    SplitMaxDepth = 0
    HFuzz = 1
    VFuzz = 0
    HBadness = 100
    VBadness = 100
    OverfullRule = 1
    Registers = {0}
    Across <- HItems
    Down <- VItems
    LeaderGlues <- Fill
    LeaderKinds = {"aligned"}
    Specs <- Sizes
    Shifts = {1}
    Parts <- DiscParts
    Heights = {4, 6}
    TakesBoxes = TRUE
    MaxNest = 2
    Documents <- All
    HalfBuffer = 48
    HOffset = 7
    VOffset = 5
    MaxDimen = 100000000
    Digits = 2
    PageWidth = 0
    PageHeight = 0
    HOrigin = 500000
    VOrigin = 400000
    LinkMargin = 65536
    FontSize <- Sizes3
    FontFile <- Files3
    Colours = {"red", "blue", "black"}
    PageStack = TRUE
SPECIFICATION Spec
INVARIANTS
    FilledOrReported
    ListsKeepTheirOwn
    
    PdfShowsTheBoxes
CHECK_DEADLOCK FALSE
