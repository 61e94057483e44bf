SPECIFICATION Spec
CONSTANTS
    None = None
    v1 = v1
    v2 = v2
    Version <- MCVersion
    Length <- MCLength
    Jupyter <- MCJupyter
    MaxMoves = 6
    MaxTries = 1
INVARIANTS
    IndInv
    OkMeansConfigured
    InitMeansAsked
    FailsWithReason
    GenerateKeeps
CHECK_DEADLOCK FALSE
