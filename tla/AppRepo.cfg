SPECIFICATION MCFairSpec
CONSTANTS
    p1 = p1
    p2 = p2
    a1 = a1
    a2 = a2
    c1 = c1
    c2 = c2
    r1 = r1
    r2 = r2
    m1 = m1
    m2 = m2
    NoRequest = NoRequest
    Conf = {c1, c2}
    Comps = {m1, m2}
    MaxTries = 2
    Project = {p1, p2}
    Request = {r1, r2}
    App = {a1, a2}
    Job <- MCJob
    MaxOutside <- MCOutside
INVARIANTS
    SavedInOneProject
    PublishedWhole
    IndInv
PROPERTIES
    PushesOwnApp
    PushesStayHome
    Answered
CHECK_DEADLOCK FALSE
