SPECIFICATION FairSpec
CONSTANTS
    None = None
    MaxMoves = 3
INVARIANTS
    IndInv
    RestsWhenDone
PROPERTIES
    NeverReverts
    Converges
CHECK_DEADLOCK FALSE
