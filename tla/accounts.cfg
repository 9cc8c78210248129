SPECIFICATION Spec
CONSTANTS
    Emails = {e1, e2, e3}
    Usernames = {n1, n2}
    Reqs = {r1, r2}
    MaxUid = 3
    AccountOps = {"create","update","password","delete"}
    PageSize = 1
    MaxInFlight = 2
    DbFaults = TRUE
    Nil = Nil
SYMMETRY Symmetry
INVARIANT AccountsInv
PROPERTY DeletedForGood
PROPERTY ChangesAuthorized
PROPERTY ImplementsRegistry
PROPERTY FewMissed
