SPECIFICATION FairSpec
CONSTANTS
    N = 3
    Wrong <- MCWrong
    Faults <- Clean
PROPERTIES
    EveryoneLeaves
    ImplementsSettlementLive
