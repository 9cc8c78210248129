SPECIFICATION HistorySpec
CONSTANTS
    Users = {u1}
    Reqs = {r1, r2}
    MaxSid = 3
    MaxClock = 3
    LIFETIME = 3
    ACCESS = 1
    GRACE = 1
    CACHE_TTL = 1
    DEVICE_LIMIT = 4
    PkRank <- Descending
    Nil = Nil
    Forever = Forever
    Ops = {"login","refresh"}
    Faults = {"cache"}
SYMMETRY Symmetry
CHECK_DEADLOCK FALSE
INVARIANT GraceReplayAvailable
PROPERTY BreachNeedsReuse
