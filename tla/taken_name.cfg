SPECIFICATION Spec
CONSTANTS
    Emails = {e1, e2}
    Usernames = {n1, n2}
    Reqs = {r1, r2}
    MaxUid = 3
    AccountOps = {"create","delete"}
    PageSize = 1
    MaxInFlight = 2
    DbFaults = FALSE
    Nil = Nil
SYMMETRY Symmetry
PROPERTY ConflictAnswered
