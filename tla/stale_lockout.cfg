SPECIFICATION Spec
CONSTANTS
    Users = {u1}
    Reqs = {r1, r2}
    MaxSid = 1
    MaxClock = 0
    LIFETIME = 1
    ACCESS = 1
    GRACE = 1
    CACHE_TTL = 1
    DEVICE_LIMIT = 2
    PkRank <- Descending
    Nil = Nil
    Forever = Forever
    Ops = {"login","gate","change"}
    Faults = {}
SYMMETRY Symmetry
CHECK_DEADLOCK FALSE
INVARIANT GateHonoursLockout
