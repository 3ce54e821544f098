SPECIFICATION Spec
CONSTANTS
    p = p
    b = b
    gd = gd
    cs1 = cs1
    cs2 = cs2
    mark = mark
    t1 = t1
    t2 = t2
    Names <- NoNames
    Regs <- None
    Params <- OneParam
    Boxes <- OneBox
    GlobalDefs = gd
    Settings <- Settled
    Values <- Numbers
    Void = 0
    Bodies <- None
    Tokens <- None
    AfterGroup = mark
    MaxDefs = 0
    MaxLevel = 2
    MaxSaves = 3
    MaxInput = 0
INVARIANTS
    NoLocalOutlives
PROPERTIES
    BindingsAreScopes
CHECK_DEADLOCK FALSE
