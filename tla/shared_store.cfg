SPECIFICATION Spec
CONSTANTS
    Users = {u1,u2}
    Reqs = {r1,r2}
    MaxSid = 2
    MaxClock = 0
    LIFETIME = 1
    ACCESS = 1
    GRACE = 1
    CACHE_TTL = 1
    DEVICE_LIMIT = 1
    PkRank <- Descending
    Nil = Nil
    Forever = Forever
    Ops = {"login","refresh","logout_all","delete"}
    Faults = {"db"}
SYMMETRY Symmetry
CHECK_DEADLOCK FALSE
INVARIANT SystemInv
 
PROPERTY ImplementsLedger
PROPERTY NoCollateral
PROPERTY RevocationPermanent
