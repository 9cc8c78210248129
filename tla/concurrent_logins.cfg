SPECIFICATION FairSpec
CONSTANTS
    Users = {u1}
    Reqs = {r1,r2}
    MaxSid = 4
    MaxClock = 0
    LIFETIME = 1
    ACCESS = 1
    GRACE = 1
    CACHE_TTL = 1
    DEVICE_LIMIT = 1
    PkRank <- Descending
    Nil = Nil
    Forever = Forever
    Ops = {"login","logout","delete"}
    Faults = {}
CHECK_DEADLOCK FALSE
INVARIANT OverrunBounded
PROPERTY Termination
