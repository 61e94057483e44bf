SPECIFICATION MCSpec
CONSTANTS
    p1 = p1
    c1 = c1
    c2 = c2
    sa1 = sa1
    sa2 = sa2
    user = user
    bot = bot
    other = other
    editor = editor
    viewer = viewer
    admin = admin
    iap = iap
    r1 = r1
    r2 = r2
    r3 = r3
    NoRequest = NoRequest
    Project <- MCProject
    Request = {r1, r2}
    Role <- MCRole
    Member <- MCMember
    Cluster <- MCCluster
    Placeholder <- MCPlaceholder
    IapAccount = iap
    Account <- MCAccount
    IamConf <- MCIamConf
    AdminRole = editor
    Job <- MCJob
    MaxTries = 2
    MaxOutside = 0
    MaxCrashes = 0
INVARIANT
    OkMeansUpdated
CHECK_DEADLOCK FALSE
