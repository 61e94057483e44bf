SPECIFICATION FairSpec
CONSTANTS
    None = None
    MaxEdits = 1
    MaxTrouble = 1
PROPERTY
    MappingRestored
CHECK_DEADLOCK FALSE
