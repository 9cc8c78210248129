SPECIFICATION FairCacheSpec
CONSTANTS
    p1 = p1
    Procs = {p1}
    Coros = {c1, c2}
    ProcOf <- OneProcess
    Keys = {k1}
    Values = {v1, v2}
    MaxConn = 3
    CacheFaults = {"outage", "restart"}
    Nil = Nil
INVARIANT CacheInv
PROPERTY NoResurrection
PROPERTY Answered
