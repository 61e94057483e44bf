SPECIFICATION FairSpec
CONSTANTS
    None = None
    MaxEdits = 2
    MaxTrouble = 1
INVARIANT
    TypeOK
    IndInv
PROPERTIES
    NeverReverts
    Converges
CHECK_DEADLOCK FALSE
