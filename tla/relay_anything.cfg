SPECIFICATION Spec
CONSTANTS
    N = 2
    Wrong <- MCWrong
    Faults <- AllFaults
INVARIANTS
    OneCarrier
    
    SingleWriterUnlessLate
    TrueUnlessHurt
CHECK_DEADLOCK FALSE
