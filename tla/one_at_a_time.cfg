SPECIFICATION Spec
CONSTANTS
    Users = {u1}
    Reqs = {r1}
    MaxSid = 3
    MaxClock = 2
    LIFETIME = 1
    ACCESS = 1
    GRACE = 1
    CACHE_TTL = 1
    DEVICE_LIMIT = 1
    PkRank <- Descending
    Nil = Nil
    Forever = Forever
    Ops = {"login", "refresh", "logout", "logout_all", "gate", "change", "delete"}
    Faults = {"db","cache"}
CHECK_DEADLOCK FALSE
INVARIANT AtMostOneSuccessor
INVARIANT DeviceLimit
INVARIANT GateHonoursRevocation
INVARIANT LockoutEndsSessions
 
 
