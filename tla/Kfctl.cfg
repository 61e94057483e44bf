SPECIFICATION Spec
CONSTANTS
    a1 = a1
    a2 = a2
    user = user
    r1 = r1
    r2 = r2
    App = {a1, a2}
    Run = {r1, r2}
    Command <- Most
    Component = {"core", "endpoints"}
    Extra = {}
    UseIstio = FALSE
    UseBasicAuth = FALSE
    NoApp = NoApp
    GoneApp = GoneApp
    IapAccount <- UserEverywhere
    Other = Other
    MaxMoves = 3
SYMMETRY Symmetry
INVARIANTS
    IndInv
    AppliesAgree
    OkMeansApplied
    DeletedMeansGone
PROPERTIES
    OthersKept
    ApplyStaysHome
CHECK_DEADLOCK FALSE
