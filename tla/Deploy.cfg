SPECIFICATION FairSpec
CONSTANTS
    r1 = r1
    r2 = r2
    r3 = r3
    NoRequest = NoRequest
    Request = {r1, r2}
    Job <- EitherJob
    MaxPolls = 2
    MaxDeletes = 1
    MaxRestarts = 1
INVARIANTS
    TypeOK
    KeysAccountedFor
    SecretHoldsKey
    OkMeansComplete
    CountedOnce
    IndInv
PROPERTY
    Ends
CHECK_DEADLOCK FALSE
