SPECIFICATION Spec
CONSTANTS
    p = p
    b = b
    gd = gd
    cs1 = cs1
    cs2 = cs2
    mark = mark
    t1 = t1
    t2 = t2
    Names <- TwoNames
    Regs <- None
    Params <- None
    Boxes <- None
    GlobalDefs = gd
    Settings <- None
    Values <- Numbers
    Void = 0
    Bodies <- MCBodies
    Tokens <- MCTokens
    AfterGroup = mark
    MaxDefs = 2
    MaxLevel = 2
    MaxSaves = 2
    MaxInput = 2
INVARIANTS
    RecordsHold
PROPERTIES
    ImplementsScopes
CHECK_DEADLOCK FALSE
