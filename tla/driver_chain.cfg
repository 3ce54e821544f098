SPECIFICATION Spec
CONSTANTS
    R = 2
    FileOf <- MCFileOf
    Labels = {1}
    Versions = {1, 2}
    Draft <- MCDraft
    Depth = 2
    MaxPasses = 2
    Declined <- MCDeclined
    MaxEvents = 3
    None = None
    Mixed = Mixed
INVARIANT
    PrefixIsKept
CHECK_DEADLOCK FALSE
