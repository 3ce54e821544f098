SPECIFICATION FairSpec
CONSTANTS
    N = 2
    Rounds = 2
    Faults <- Apart
INVARIANTS
    OneCarrier
    DirectorySpeaksTrue
    NobodyWritesAfterIt
PROPERTIES
    EveryRoundEnds
CHECK_DEADLOCK FALSE
