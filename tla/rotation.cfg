SPECIFICATION Spec
CONSTANTS
    Users = {u1}
    Reqs = {r1, r2}
    MaxSid = 4
    MaxClock = 2
    LIFETIME = 1
    ACCESS = 1
    GRACE = 1
    CACHE_TTL = 1
    DEVICE_LIMIT = 3
    PkRank <- Descending
    Nil = Nil
    Forever = Forever
    Ops = {"login","refresh"}
    Faults = {"db","cache"}
SYMMETRY Symmetry
CHECK_DEADLOCK FALSE
INVARIANT LineageSound
INVARIANT ForkBounded
INVARIANT GraceEntrySound
INVARIANT TypeOK
PROPERTY ImplementsLedger
