--------------------------- MODULE AuthContractProofs ------------------------
(***************************************************************************)
(* What AuthSystem promises its callers, proved: first what each action    *)
(* makes of its request, field by field, so that the arguments about what  *)
(* a request has done and still has to do never unfold a record; then the  *)
(* device limit, the way of each operation, and, one request at a time as  *)
(* the promises are stated, the lockout of accounts, the completeness of a *)
(* logout-all and the gate over its cache.                                 *)
(***************************************************************************)
EXTENDS AuthTableProofs

\* p and q are the same call.
Task(p, q) == p.op = q.op /\ p.user = q.user /\ p.sid = q.sid /\ p.target = q.target

\* They differ in their place at most.
Same(p, q) ==
    /\ Task(p, q) /\ p.new = q.new /\ p.at = q.at /\ p.ttl = q.ttl
    /\ p.todo = q.todo /\ p.purge = q.purge /\ p.seen = q.seen /\ p.loaded = q.loaded

\* A call of this operation, with nothing done yet.
Fresh(q, op, u, s, pc) ==
    /\ q \in Request /\ q.op = op /\ q.user = u /\ q.sid = s /\ q.pc = pc
    /\ q.new = Nil /\ q.todo = {} /\ q.at = 0 /\ q.ttl = 0 /\ q.seen = Nil /\ q.loaded = Nil

\* What Begin makes.
LEMMA FreshBegin ==
    ASSUME NEW op \in AllOps, NEW u \in Users, NEW s \in Sids \cup {Nil}, NEW pc \in Places
    PROVE  LET q == Begin(op, u, s, pc)
           IN Fresh(q, op, u, s, pc) /\ q.purge = {} /\ q.target = Nil
  BY DEF Begin, Idle, Request, Time, Fresh, Places

\* A move.
LEMMA GotoEffect ==
    ASSUME SystemInv, NEW r \in Reqs, NEW pc \in Places, Goto(r, pc)
    PROVE  req'[r].pc = pc /\ Same(req[r], req'[r]) /\ OthersStay(r)
  <1> DEFINE q == [req[r] EXCEPT !.pc = pc]
  <1>1. Become(r, q)
    BY GotoBecomes DEF SystemInv
  <1>2. q.pc = pc /\ Same(req[r], q)
    BY Facts DEF Request, Same, Task
  <1> HIDE DEF q
  <1>3. QED
    BY <1>1, <1>2, BecomesIt DEF SystemInv

\* An answer.
LEMMA ReturnEffect ==
    ASSUME SystemInv, NEW r \in Reqs, Return(r)
    PROVE  req'[r] = Idle /\ OthersStay(r)
  BY BecomesIt DEF Return, SystemInv

\* The calls of the clients: authenticate, ...
LEMMA LoginEffect ==
    ASSUME SystemInv, NEW r \in Reqs, NEW u \in Users, Login(r, u)
    PROVE  Fresh(req'[r], "login", u, Nil, "list") /\ req'[r].purge = {} /\ req'[r].target = Nil
           /\ OthersStay(r)
  BY FreshBegin, BecomesIt DEF Login, SystemInv, AllOps, Places, PreCommit

\* refresh_token takes one of its three branches by what it read of the row.
LEMMA RefreshEffect ==
    ASSUME SystemInv, NEW r \in Reqs, NEW s \in Sids, Refresh(r, s), NEW q, q = req'[r]
    PROVE  /\ Fresh(q, "refresh", sess[s].user, s, q.pc) /\ q.purge = {} /\ q.target = Nil
              /\ OthersStay(r)
           /\ \/ q.pc = "replay" /\ Revoked(sess[s])
              \/ q.pc = "list_active" /\ Revoked(sess[s]) /\ clock - sess[s].revoked > GRACE
              \/ q.pc = "user" /\ Active(sess[s])
           /\ Stored(s) /\ s \in issued /\ sess[s].user \in Users
  <1>1. Stored(s) /\ s \in issued /\ sess[s].user \in Users
    BY DEF Refresh, SystemInv, TypeOK, StoreTypeOK, TokensSound, Stored, Row
  <1>2. PICK pc \in {"replay", "list_active", "user"} :
          /\ Become(r, Begin("refresh", sess[s].user, s, pc))
          /\ \/ pc = "replay" /\ Revoked(sess[s])
             \/ pc = "list_active" /\ Revoked(sess[s]) /\ clock - sess[s].revoked > GRACE
             \/ pc = "user" /\ Active(sess[s])
    BY DEF Refresh
  <1> DEFINE x == Begin("refresh", sess[s].user, s, pc)
  <1>3. Fresh(x, "refresh", sess[s].user, s, pc) /\ x.purge = {} /\ x.target = Nil
    BY <1>1, FreshBegin DEF AllOps, Places, PreCommit, Other
  <1>4. Become(r, x)
    BY <1>2
  <1> HIDE DEF x
  <1>5. q = x /\ OthersStay(r)
    BY <1>4, BecomesIt DEF SystemInv
  <1>6. QED
    BY <1>1, <1>2, <1>3, <1>5 DEF Fresh

\* ... logout, ...
LEMMA LogoutEffect ==
    ASSUME SystemInv, NEW r \in Reqs, NEW s \in Sids, Logout(r, s), NEW q, q = req'[r]
    PROVE  /\ q.op = "logout" /\ q.user = sess[s].user /\ q.sid = s /\ q.new = Nil
           /\ q.todo = {} /\ q.purge = {s} /\ q.at = clock /\ q.target = Nil /\ OthersStay(r)
           /\ \/ q.pc = "revoke" /\ ~Revoked(sess[s])
              \/ q.pc = "purge" /\ Revoked(sess[s])
           /\ Stored(s) /\ s \in issued /\ sess[s].user \in Users
  <1> DEFINE b == Begin("logout", sess[s].user, s, "revoke")
             m == [b EXCEPT !.purge = {s}]
             x == [m EXCEPT !.at = clock]
             y == [x EXCEPT !.pc = "purge"]
  <1>1. Stored(s) /\ s \in issued /\ sess[s].user \in Users /\ clock \in Time
    BY DEF Logout, SystemInv, TypeOK, StoreTypeOK, TokensSound, Stored, Row
  <1>2. Fresh(b, "logout", sess[s].user, s, "revoke") /\ b.target = Nil
    BY <1>1, FreshBegin DEF AllOps, Places, PreCommit
  <1>3. Become(r, IF Revoked(sess[s]) THEN Purging(x) ELSE x)
    BY DEF Logout
  <1> HIDE DEF b
  <1>4. /\ m \in Request /\ m.op = "logout" /\ m.user = sess[s].user /\ m.sid = s /\ m.new = Nil
        /\ m.todo = {} /\ m.purge = {s} /\ m.pc = "revoke" /\ m.target = Nil
    BY <1>2 DEF Fresh, Request
  <1> HIDE DEF m
  <1>5. /\ x \in Request /\ x.op = "logout" /\ x.user = sess[s].user /\ x.sid = s /\ x.new = Nil
        /\ x.todo = {} /\ x.purge = {s} /\ x.at = clock /\ x.pc = "revoke" /\ x.target = Nil
    BY <1>1, <1>4 DEF Request
  <1>6. Purging(x) = y
    BY <1>5 DEF Purging
  <1> HIDE DEF x
  <1>7. /\ y.op = "logout" /\ y.user = sess[s].user /\ y.sid = s /\ y.new = Nil
        /\ y.todo = {} /\ y.purge = {s} /\ y.at = clock /\ y.pc = "purge" /\ y.target = Nil
    BY <1>5 DEF Request
  <1> HIDE DEF y
  <1>8. QED
    BY <1>1, <1>3, <1>5, <1>6, <1>7, BecomesIt DEF SystemInv

\* ... a protected route, logout-all among them, ...
LEMMA GateEffect ==
    ASSUME SystemInv, NEW r \in Reqs, NEW s \in Sids, NEW op \in {"gate", "logout_all"},
           Gate(r, s, op), NEW q, q = req'[r]
    PROVE  /\ Fresh(q, op, sess[s].user, s, q.pc) /\ q.purge = {} /\ q.target = Nil /\ OthersStay(r)
           /\ \/ q.pc = "session_db" /\ skey[s] = Nil
              \/ q.pc = "user_cache" /\ skey[s] # Nil
           /\ Stored(s) /\ s \in issued /\ sess[s].user \in Users
  <1>1. Stored(s) /\ s \in issued /\ sess[s].user \in Users
    BY DEF Gate, SystemInv, TypeOK, StoreTypeOK, TokensSound, Stored, Row
  <1>2. PICK pc \in {"session_db", "user_cache"} :
          /\ Become(r, Begin(op, sess[s].user, s, pc))
          /\ pc = "session_db" <=> skey[s] = Nil
    BY DEF Gate
  <1> DEFINE x == Begin(op, sess[s].user, s, pc)
  <1>3. Fresh(x, op, sess[s].user, s, pc) /\ x.purge = {} /\ x.target = Nil
    BY <1>1, FreshBegin DEF AllOps, Places, Other
  <1>4. Become(r, x)
    BY <1>2
  <1> HIDE DEF x
  <1>5. q = x /\ OthersStay(r)
    BY <1>4, BecomesIt DEF SystemInv
  <1>6. QED
    BY <1>1, <1>2, <1>3, <1>5 DEF Fresh

\* ... and the two account operations.
LEMMA ChangeStatusEffect ==
    ASSUME SystemInv, NEW r \in Reqs, NEW u \in Users, NEW to \in Statuses, ChangeStatus(r, u, to)
    PROVE  /\ Fresh(req'[r], "change", u, Nil, "select_status") /\ req'[r].purge = {}
           /\ req'[r].target = to /\ OthersStay(r)
  <1> DEFINE b == Begin("change", u, Nil, "select_status")
             x == [b EXCEPT !.target = to]
  <1>1. Fresh(b, "change", u, Nil, "select_status") /\ b.purge = {}
    BY FreshBegin DEF AllOps, Places, PreCommit
  <1>2. Become(r, x)
    BY DEF ChangeStatus
  <1> HIDE DEF b
  <1>3. Fresh(x, "change", u, Nil, "select_status") /\ x.purge = {} /\ x.target = to
    BY <1>1 DEF Fresh, Request
  <1> HIDE DEF x
  <1>4. QED
    BY <1>2, <1>3, BecomesIt DEF SystemInv

LEMMA DeleteUserEffect ==
    ASSUME SystemInv, NEW r \in Reqs, NEW u \in Users, DeleteUser(r, u)
    PROVE  Fresh(req'[r], "delete", u, Nil, "write_deleted") /\ req'[r].purge = {}
           /\ req'[r].target = Nil /\ OthersStay(r)
  BY FreshBegin, BecomesIt DEF DeleteUser, SystemInv, AllOps, Places, PreCommit

\* The insertion of q's session.
LEMMA InsertEffect ==
    ASSUME SystemInv, NEW r \in Reqs, NEW q \in Request, NEW ttl \in Time, Insert(r, q, ttl),
           NEW x, x = req'[r]
    PROVE  /\ Task(q, x) /\ x.todo = q.todo /\ x.purge = q.purge /\ x.seen = q.seen
              /\ x.loaded = q.loaded
           /\ x.pc = "commit" /\ x.new = nextSid /\ x.at = clock /\ x.ttl = ttl
           /\ nextSid \in Sids /\ nextSid # Nil /\ OthersStay(r)
  <1> DEFINE y == [q EXCEPT !.new = nextSid, !.at = clock, !.ttl = ttl, !.pc = "commit"]
  <1>1. Become(r, y) /\ nextSid \in Sids
    BY DEF Insert
  <1>2. nextSid # Nil
    BY <1>1, NatAssumption, NilAssumption DEF Sids
  <1>3. /\ Task(q, y) /\ y.todo = q.todo /\ y.purge = q.purge /\ y.seen = q.seen
           /\ y.loaded = q.loaded
        /\ y.pc = "commit" /\ y.new = nextSid /\ y.at = clock /\ y.ttl = ttl
    BY DEF Request, Task
  <1> HIDE DEF y
  <1>4. QED
    BY <1>1, <1>2, <1>3, BecomesIt DEF SystemInv

\* The sessions a login evicts.
Surplus(u) == Oldest(ActiveSessions(u), Overflow(ActiveSessions(u)))

\* authenticate: insert, or evict the surplus first, ...
LEMMA ListSessionsEffect ==
    ASSUME SystemInv, NEW r \in Reqs, ListSessions(r), NEW p, p = req[r], NEW q, q = req'[r]
    PROVE  /\ Task(p, q) /\ q.purge = p.purge /\ q.at = clock /\ OthersStay(r)
           /\ p.op = "login" /\ p.pc = "list"
           /\ \/ /\ Surplus(p.user) = {} /\ q.todo = p.todo
                 /\ q.pc = "commit" /\ q.new = nextSid /\ nextSid \in Sids /\ nextSid # Nil
              \/ /\ Surplus(p.user) # {} /\ q.todo = Surplus(p.user)
                 /\ q.pc = "evict" /\ q.new = p.new
  <1>1. req[r] \in Request /\ LIFETIME \in Time /\ clock \in Time /\ p.op = "login" /\ p.pc = "list"
    BY Facts, NatAssumption, StoredTypes DEF Time, ListSessions, At, RequestSound
  <1> DEFINE evict == Surplus(req[r].user)
             m == [req[r] EXCEPT !.todo = evict]
             n == [m EXCEPT !.at = clock]
             x == [n EXCEPT !.pc = "evict"]
  <1>2. evict \in SUBSET Sids
    BY DEF Surplus, Oldest, ActiveSessions, SessionsOf
  <1>3. CASE evict = {}
    <2>1. Insert(r, req[r], LIFETIME)
      BY <1>3 DEF ListSessions, Surplus
    <2>2. QED
      BY <1>1, <1>3, <2>1, InsertEffect DEF Task
  <1>4. CASE evict # {}
    <2>1. Become(r, x)
      BY <1>4 DEF ListSessions, Surplus
    <2> HIDE DEF evict
    <2>2. m \in Request /\ Task(p, m) /\ m.new = p.new /\ m.purge = p.purge /\ m.todo = evict
      BY <1>1, <1>2 DEF Request, Task
    <2> HIDE DEF m
    <2>3. n \in Request /\ Task(p, n) /\ n.new = p.new /\ n.purge = p.purge /\ n.todo = evict
          /\ n.at = clock
      BY <1>1, <2>2 DEF Request, Task
    <2> HIDE DEF n
    <2>4. Task(p, x) /\ x.new = p.new /\ x.purge = p.purge /\ x.todo = evict /\ x.at = clock
          /\ x.pc = "evict"
      BY <2>3 DEF Request, Task
    <2> HIDE DEF x
    <2>5. QED
      BY <1>1, <1>4, <2>1, <2>4, BecomesIt DEF SystemInv, evict
  <1>5. QED
    BY <1>3, <1>4

\* ... one session after the other.
LEMMA UncacheEvictedEffect ==
    ASSUME SystemInv, NEW r \in Reqs, UncacheEvicted(r), NEW p, p = req[r], NEW q, q = req'[r]
    PROVE  /\ Task(p, q) /\ q.purge = p.purge /\ q.at = clock /\ OthersStay(r)
           /\ p.op = "login" /\ p.pc = "evicted" /\ q.todo = p.todo \ {Min(p.todo)}
           /\ \/ /\ q.todo = {} /\ q.pc = "commit"
                 /\ q.new = nextSid /\ nextSid \in Sids /\ nextSid # Nil
              \/ q.todo # {} /\ q.pc = "evict" /\ q.new = p.new
  <1> DEFINE rest == p.todo \ {Min(p.todo)}
  <1>1. p \in Request /\ LIFETIME \in Time /\ clock \in Time /\ p.op = "login" /\ p.pc = "evicted"
    BY Facts, NatAssumption, StoredTypes DEF Time, UncacheEvicted, At, RequestSound
  <1> DEFINE m == [p EXCEPT !.todo = rest]
             n == [m EXCEPT !.at = clock]
             x == [n EXCEPT !.pc = "evict"]
  <1>2. rest \in SUBSET Sids
    BY <1>1 DEF Request
  <1>3. m \in Request /\ Task(p, m) /\ m.new = p.new /\ m.purge = p.purge /\ m.todo = rest
    BY <1>1, <1>2 DEF Request, Task
  <1>4. (rest = {} /\ Insert(r, m, LIFETIME)) \/ (rest # {} /\ Become(r, x))
    BY DEF UncacheEvicted
  <1> HIDE DEF m, rest
  <1>5. CASE rest = {} /\ Insert(r, m, LIFETIME)
    BY <1>1, <1>3, <1>5, InsertEffect DEF Task, rest
  <1>6. CASE rest # {} /\ Become(r, x)
    <2>1. n \in Request /\ Task(p, n) /\ n.new = p.new /\ n.purge = p.purge /\ n.todo = rest
          /\ n.at = clock
      BY <1>1, <1>3 DEF Request, Task
    <2> HIDE DEF n
    <2>2. Task(p, x) /\ x.new = p.new /\ x.purge = p.purge /\ x.todo = rest /\ x.at = clock
          /\ x.pc = "evict"
      BY <2>1 DEF Request, Task
    <2> HIDE DEF x
    <2>3. QED
      BY <1>1, <1>6, <2>2, BecomesIt DEF SystemInv, rest
  <1>7. QED
    BY <1>4, <1>5, <1>6

\* A rotation checks its user ...
LEMMA CheckUserEffect ==
    ASSUME SystemInv, NEW r \in Reqs, CheckUser(r), NEW p, p = req[r], NEW q, q = req'[r]
    PROVE  /\ OthersStay(r) /\ p.op = "refresh" /\ p.pc = "user"
           /\ \/ q = Idle
              \/ /\ Found(p.user) /\ ~LockedOut(users[p.user].status)
                 /\ Task(p, q) /\ q.new = p.new /\ q.todo = p.todo /\ q.purge = p.purge
                 /\ q.at = clock /\ q.pc = "revoke"
  <1>1. p \in Request /\ clock \in Time /\ p.op = "refresh" /\ p.pc = "user"
    BY Facts, StoredTypes DEF CheckUser, At, RequestSound
  <1> DEFINE m == [p EXCEPT !.at = clock]
             x == [m EXCEPT !.pc = "revoke"]
  <1>2. m \in Request /\ Task(p, m) /\ m.new = p.new /\ m.purge = p.purge /\ m.todo = p.todo
        /\ m.at = clock
    BY <1>1 DEF Request, Task
  <1>3. Return(r) \/ (Become(r, x) /\ Found(p.user) /\ ~LockedOut(users[p.user].status))
    BY DEF CheckUser, Found
  <1> HIDE DEF m
  <1>4. Task(p, x) /\ x.new = p.new /\ x.purge = p.purge /\ x.todo = p.todo /\ x.at = clock
        /\ x.pc = "revoke"
    BY <1>2 DEF Request, Task
  <1> HIDE DEF x
  <1>5. QED
    BY <1>1, <1>3, <1>4, BecomesIt, ReturnEffect DEF SystemInv

\* ... and inserts, with the old row locked.
LEMMA UncacheRotatedEffect ==
    ASSUME SystemInv, NEW r \in Reqs, UncacheRotated(r), NEW p, p = req[r], NEW q, q = req'[r]
    PROVE  /\ OthersStay(r) /\ p.op = "refresh" /\ p.pc = "revoked"
           /\ Task(p, q) /\ q.todo = p.todo /\ q.purge = p.purge /\ q.pc = "commit"
           /\ q.new = nextSid /\ nextSid \in Sids /\ nextSid # Nil /\ q.at = clock
  <1>1. /\ req[r] \in Request /\ p.op = "refresh" /\ p.pc = "revoked" /\ req[r].sid \in Sids
        /\ sess[req[r].sid] \in Row /\ clock \in Time
    BY Facts, StoredTypes
       DEF UncacheRotated, At, RequestSound, SessionsOf, SystemInv, TypeOK, StoreTypeOK
  <1>2. Remaining(req[r].sid) \in Time
    BY <1>1 DEF Remaining, Row, Time
  <1>3. Insert(r, req[r], Remaining(req[r].sid))
    BY DEF UncacheRotated
  <1>4. QED
    BY <1>1, <1>2, <1>3, InsertEffect

\* A logout-all lists the keys it is to delete, ...
LEMMA ListActiveEffect ==
    ASSUME SystemInv, NEW r \in Reqs, ListActive(r), NEW p, p = req[r], NEW q, q = req'[r]
    PROVE  /\ OthersStay(r) /\ p.pc = "list_active" /\ Task(p, q) /\ q.new = p.new /\ q.at = p.at
           /\ q.todo = p.todo /\ q.loaded = p.loaded
           /\ q.purge = ActiveSessions(p.user) /\ q.pc = "select_all"
  <1> DEFINE a == ActiveSessions(p.user)
             m == [p EXCEPT !.purge = a]
             x == [m EXCEPT !.pc = "select_all"]
  <1>1. p \in Request /\ p.pc = "list_active" /\ Become(r, x)
    BY Facts DEF ListActive, At
  <1>2. a \in SUBSET Sids
    BY DEF ActiveSessions, SessionsOf
  <1> HIDE DEF a
  <1>3. /\ m \in Request /\ Task(p, m) /\ m.new = p.new /\ m.purge = a /\ m.todo = p.todo
        /\ m.at = p.at /\ m.loaded = p.loaded
    BY <1>1, <1>2 DEF Request, Task
  <1> HIDE DEF m
  <1>4. /\ Task(p, x) /\ x.new = p.new /\ x.purge = a /\ x.todo = p.todo
        /\ x.at = p.at /\ x.loaded = p.loaded /\ x.pc = "select_all"
    BY <1>3 DEF Request, Task
  <1> HIDE DEF x
  <1>5. QED
    BY <1>1, <1>4, BecomesIt DEF SystemInv, a

\* Where Writing and Purging lead.
PurgingTo(q, x) ==
    \/ q.purge # {} /\ x.pc = "purge" /\ Same(q, x)
    \/ q.purge = {} /\ q.op \in {"change", "delete"} /\ x.pc = "commit" /\ Same(q, x)
    \/ q.purge = {} /\ q.op \notin {"change", "delete"} /\ x = Idle

WritingTo(q, x) ==
    \/ q.todo # {} /\ x.pc = "write_all" /\ Same(q, x)
    \/ q.todo = {} /\ q.op \notin {"change", "delete"} /\ x.pc = "commit" /\ Same(q, x)
    \/ q.todo = {} /\ q.op \in {"change", "delete"} /\ PurgingTo(q, x)

LEMMA PlaceFields ==
    ASSUME NEW q \in Request, NEW pc
    PROVE  LET x == [q EXCEPT !.pc = pc] IN x.pc = pc /\ Same(q, x)
  BY DEF Request, Same, Task

LEMMA PurgingLeads ==
    ASSUME NEW q \in Request
    PROVE  PurgingTo(q, Purging(q))
  BY PlaceFields, Zenon DEF Purging, PurgingTo

LEMMA WritingLeads ==
    ASSUME NEW q \in Request
    PROVE  WritingTo(q, Writing(q))
  BY PlaceFields, PurgingLeads, Zenon DEF Writing, WritingTo

\* ... selects the rows, ...
LEMMA SelectAllEffect ==
    ASSUME SystemInv, NEW r \in Reqs, SelectAll(r), NEW p, p = req[r], NEW q, q = req'[r]
    PROVE  /\ OthersStay(r) /\ p.pc = "select_all"
           /\ \E m : /\ Task(p, m) /\ m.new = p.new /\ m.purge = p.purge /\ m.loaded = p.loaded
                     /\ m.todo = NonRevoked(p.user) /\ m.at = clock /\ WritingTo(m, q)
  <1> DEFINE a == NonRevoked(p.user)
             m == [p EXCEPT !.todo = a]
             n == [m EXCEPT !.at = clock]
  <1>1. p \in Request /\ p.pc = "select_all" /\ clock \in Time /\ Become(r, Writing(n))
    BY Facts, StoredTypes DEF SelectAll, At
  <1>2. a \in SUBSET Sids
    BY DEF NonRevoked, SessionsOf
  <1> HIDE DEF a
  <1>3. /\ m \in Request /\ Task(p, m) /\ m.new = p.new /\ m.purge = p.purge /\ m.todo = a
        /\ m.loaded = p.loaded
    BY <1>1, <1>2 DEF Request, Task
  <1> HIDE DEF m
  <1>4. /\ n \in Request /\ Task(p, n) /\ n.new = p.new /\ n.purge = p.purge /\ n.todo = a
        /\ n.loaded = p.loaded /\ n.at = clock
    BY <1>1, <1>3 DEF Request, Task
  <1> HIDE DEF n
  <1>5. QED
    BY <1>1, <1>4, WritingLeads, BecomesIt DEF SystemInv, a

\* ... writes them one by one, ...
LEMMA WriteAllEffect ==
    ASSUME SystemInv, NEW r \in Reqs, WriteAll(r), NEW p, p = req[r], NEW q, q = req'[r]
    PROVE  /\ OthersStay(r) /\ p.pc = "write_all"
           /\ \E m : /\ Task(p, m) /\ m.new = p.new /\ m.purge = p.purge /\ m.loaded = p.loaded
                     /\ m.todo = p.todo \ {FirstByPk(p.todo)} /\ m.at = p.at /\ WritingTo(m, q)
  <1> DEFINE s == FirstByPk(p.todo)
             m == [p EXCEPT !.todo = @ \ {s}]
  <1>1. p \in Request /\ p.pc = "write_all" /\ Become(r, Writing(m))
    BY Facts DEF WriteAll, At
  <1>2. /\ m \in Request /\ Task(p, m) /\ m.new = p.new /\ m.purge = p.purge
           /\ m.todo = p.todo \ {s}
        /\ m.loaded = p.loaded /\ m.at = p.at
    BY <1>1 DEF Request, Task
  <1> HIDE DEF m, s
  <1>3. QED
    BY <1>1, <1>2, WritingLeads, BecomesIt DEF SystemInv, s

\* ... commits, and deletes the keys.
LEMMA CommitRevocationsEffect ==
    ASSUME SystemInv, NEW r \in Reqs, CommitRevocations(r)
    PROVE  PurgingTo(req[r], req'[r]) /\ OthersStay(r)
  BY Facts, PurgingLeads, BecomesIt DEF CommitRevocations, SystemInv

LEMMA PurgeGraceEffect ==
    ASSUME SystemInv, NEW r \in Reqs, PurgeGrace(r), NEW p, p = req[r], NEW q, q = req'[r]
    PROVE  /\ OthersStay(r) /\ p.pc = "purge_grace"
           /\ \E m : /\ Task(p, m) /\ m.new = p.new /\ m.todo = p.todo /\ m.loaded = p.loaded
                     /\ m.purge = p.purge \ {Min(p.purge)} /\ m.at = p.at /\ PurgingTo(m, q)
  <1> DEFINE s == Min(p.purge)
             m == [p EXCEPT !.purge = @ \ {Min(@)}]
  <1>1. p \in Request /\ p.pc = "purge_grace" /\ Become(r, Purging(m))
    BY Facts DEF PurgeGrace, At
  <1>2. m = [p EXCEPT !.purge = p.purge \ {s}]
    BY <1>1 DEF Request
  <1> HIDE DEF m, s
  <1>3. /\ m \in Request /\ Task(p, m) /\ m.new = p.new /\ m.todo = p.todo
           /\ m.purge = p.purge \ {s}
        /\ m.loaded = p.loaded /\ m.at = p.at
    BY <1>1, <1>2 DEF Request, Task
  <1>4. QED
    BY <1>1, <1>3, PurgingLeads, BecomesIt DEF SystemInv, s

\* The reads of the gate and of an account operation.
LEMMA ReadSessionEffect ==
    ASSUME SystemInv, NEW r \in Reqs, ReadSession(r), NEW p, p = req[r], NEW q, q = req'[r]
    PROVE  /\ OthersStay(r) /\ p.pc = "session_db" /\ Task(p, q) /\ q.new = p.new /\ q.at = p.at
           /\ q.todo = p.todo /\ q.purge = p.purge /\ q.pc = "session_warm"
              /\ q.seen = sess[p.sid].revoked
  <1> DEFINE a == sess[p.sid].revoked
             m == [p EXCEPT !.seen = a]
             x == [m EXCEPT !.pc = "session_warm"]
  <1>1. p \in Request /\ p.pc = "session_db" /\ Become(r, x) /\ sess[p.sid] \in Row
    BY Facts DEF ReadSession, At, RequestSound, SessionsOf, SystemInv, TypeOK, StoreTypeOK
  <1>2. a \in Time \cup {Nil}
    BY <1>1 DEF Row
  <1> HIDE DEF a
  <1>3. /\ m \in Request /\ Task(p, m) /\ m.new = p.new /\ m.purge = p.purge /\ m.todo = p.todo
        /\ m.at = p.at /\ m.seen = a
    BY <1>1, <1>2 DEF Request, Task
  <1> HIDE DEF m
  <1>4. /\ Task(p, x) /\ x.new = p.new /\ x.purge = p.purge /\ x.todo = p.todo
        /\ x.at = p.at /\ x.seen = a /\ x.pc = "session_warm"
    BY <1>3 DEF Request, Task
  <1> HIDE DEF x
  <1>5. QED
    BY <1>1, <1>4, BecomesIt DEF SystemInv, a

LEMMA ReadUserEffect ==
    ASSUME SystemInv, NEW r \in Reqs, ReadUser(r), NEW p, p = req[r], NEW q, q = req'[r]
    PROVE  /\ OthersStay(r) /\ p.pc = "user_db"
           /\ \/ q = Idle
              \/ /\ Found(p.user) /\ Task(p, q) /\ q.new = p.new /\ q.at = p.at
                 /\ q.todo = p.todo /\ q.purge = p.purge /\ q.pc = "user_warm"
                 /\ q.loaded = users[p.user].status
  <1> DEFINE a == users[p.user].status
             m == [p EXCEPT !.loaded = a]
             x == [m EXCEPT !.pc = "user_warm"]
  <1>1. p \in Request /\ p.pc = "user_db" /\ p.user \in Users
    BY Facts DEF ReadUser, At, RequestSound, Request
  <1>2. Return(r) \/ (Found(p.user) /\ Become(r, x))
    BY DEF ReadUser, Found
  <1>3. a \in Statuses
    BY <1>1, StoredTypes
  <1> HIDE DEF a
  <1>4. /\ m \in Request /\ Task(p, m) /\ m.new = p.new /\ m.purge = p.purge /\ m.todo = p.todo
        /\ m.at = p.at /\ m.loaded = a
    BY <1>1, <1>3 DEF Request, Task
  <1> HIDE DEF m
  <1>5. /\ Task(p, x) /\ x.new = p.new /\ x.purge = p.purge /\ x.todo = p.todo
        /\ x.at = p.at /\ x.loaded = a /\ x.pc = "user_warm"
    BY <1>4 DEF Request, Task
  <1> HIDE DEF x
  <1>6. QED
    BY <1>1, <1>2, <1>5, BecomesIt, ReturnEffect DEF SystemInv, a

LEMMA SelectStatusEffect ==
    ASSUME SystemInv, NEW r \in Reqs, SelectStatus(r), NEW p, p = req[r], NEW q, q = req'[r]
    PROVE  /\ OthersStay(r) /\ p.pc = "select_status" /\ Task(p, q) /\ q.new = p.new /\ q.at = p.at
           /\ q.todo = p.todo /\ q.purge = p.purge /\ q.pc = "write_status"
           /\ q.loaded = users[p.user].status
  <1> DEFINE a == users[p.user].status
             m == [p EXCEPT !.loaded = a]
             x == [m EXCEPT !.pc = "write_status"]
  <1>1. p \in Request /\ p.pc = "select_status" /\ p.user \in Users /\ Become(r, x)
    BY Facts DEF SelectStatus, At, RequestSound, Request
  <1>2. a \in Statuses
    BY <1>1, StoredTypes
  <1> HIDE DEF a
  <1>3. /\ m \in Request /\ Task(p, m) /\ m.new = p.new /\ m.purge = p.purge /\ m.todo = p.todo
        /\ m.at = p.at /\ m.loaded = a
    BY <1>1, <1>2 DEF Request, Task
  <1> HIDE DEF m
  <1>4. /\ Task(p, x) /\ x.new = p.new /\ x.purge = p.purge /\ x.todo = p.todo
        /\ x.at = p.at /\ x.loaded = a /\ x.pc = "write_status"
    BY <1>3 DEF Request, Task
  <1> HIDE DEF x
  <1>5. QED
    BY <1>1, <1>4, BecomesIt DEF SystemInv, a

-----------------------------------------------------------------------------
(* What a step does to the clock and to the row locks *)

\* What a client's call leaves alone.
LEMMA ArrivalStays ==
    ASSUME NEW r \in Reqs, Arrival(r)
    PROVE  UNCHANGED <<storeVars, issued>>
  BY DEF Arrival, AuthArrival, GateArrival, StatusArrival, Login, Refresh, Logout, Gate,
     ChangeStatus, DeleteUser

\* Every step is of one request, of the clock or of the cache.
Acts(r) == Arrival(r) \/ Step(r) \/ Locking(r) \/ DbError(r)

LEMMA StepActs ==
    ASSUME [Next]_vars
    PROVE  \/ \E r \in Reqs : Acts(r)
           \/ Tick /\ UNCHANGED <<req, issued>>
           \/ CacheOutage /\ UNCHANGED <<req, issued>>
           \/ UNCHANGED vars
  BY DEF Next, Environment, DeadlockVictim, Acts

\* A request acts within an instant.
LEMMA ActsInTime ==
    ASSUME NEW r \in Reqs, Acts(r)
    PROVE  clock' = clock
  <1>1. Arrival(r) => clock' = clock
    BY ArrivalStays DEF storeVars
  <1>2. Locking(r) => clock' = clock
    BY DEF Locking, LockStep, Evict, Revoke, WriteAll, WriteUser
  <1>3. AuthStep(r) => clock' = clock
    BY DEF AuthStep, ListSessions, UncacheEvicted, Replay, CheckUser, UncacheRotated,
       CommitNew, Warm, SetGrace, ListActive, SelectAll, CommitRevocations, Purge, PurgeGrace,
       storeVars
  <1>4. GateStep(r) \/ StatusStep(r) => clock' = clock
    BY DEF GateStep, ReadSession, WarmSession, ReadUserCache, ReadUser, WarmUser, Handle,
       StatusStep, SelectStatus, CommitUser, UncacheUser, storeVars
  <1>5. DbError(r) => clock' = clock
    BY DEF DbError
  <1>6. QED
    BY <1>1, <1>2, <1>3, <1>4, <1>5 DEF Acts, Step

\* Time passes in ticks only.
LEMMA ClockSteps ==
    ASSUME SystemInv, [Next]_vars
    PROVE  /\ clock' = clock \/ (Tick /\ UNCHANGED <<req, issued>> /\ clock' = clock + 1)
           /\ clock \in Nat /\ clock' \in Nat /\ clock <= clock'
  <1>1. clock \in Nat
    BY StoredTypes DEF Time
  <1>2. clock' = clock \/ (Tick /\ UNCHANGED <<req, issued>> /\ clock' = clock + 1)
    BY StepActs, ActsInTime DEF Tick, CacheOutage, vars, storeVars
  <1>3. QED
    BY <1>1, <1>2

\* A step of r takes one row lock, releases those of r, or leaves the locks.
LEMMA LockSteps ==
    ASSUME SystemInv, NEW r \in Reqs, Acts(r)
    PROVE  /\ \A p \in Reqs \ {r}, s \in Sids : HeldBy(p, s)' <=> HeldBy(p, s)
           /\ ~Commits(r) /\ ~DbError(r) => \A s \in Sids : HeldBy(r, s) => HeldBy(r, s)'
           /\ Commits(r) \/ DbError(r) => \A s \in Sids : ~HeldBy(r, s)'
  <1>0. locks \in [Sids -> Lock \cup {Nil}]
    BY DEF SystemInv, TypeOK, StoreTypeOK
  <1>1. CASE Commits(r) \/ DbError(r)
    <2>1. locks' = Unlocked(r)
      BY <1>1 DEF Commits, CommitNew, CommitRevocations, CommitUser, PublishSessions,
         PublishWithInsert, DbError, Rollback
    <2>2. QED
      BY <1>1, <2>1, UnlockedFields
  <1>2. CASE ~Commits(r) /\ ~DbError(r)
    <2>1. Arrival(r) => UNCHANGED locks
      BY ArrivalStays DEF storeVars, db
    <2>2. AuthStep(r) => UNCHANGED locks
      BY <1>2 DEF Commits, AuthStep, ListSessions, UncacheEvicted, Replay, CheckUser,
         UncacheRotated, Warm, SetGrace, ListActive, SelectAll, Purge, PurgeGrace, storeVars, db
    <2>3. GateStep(r) => UNCHANGED locks
      BY DEF GateStep, ReadSession, WarmSession, ReadUserCache, ReadUser, WarmUser, Handle,
         storeVars, db
    <2>4. StatusStep(r) => UNCHANGED locks
      BY <1>2 DEF Commits, StatusStep, SelectStatus, UncacheUser, storeVars, db
    <2>5. Locking(r) => UNCHANGED locks \/ \E s \in Sids : \E at : UpdateRevoked(r, s, at)
      BY Facts, MinIn, FirstByPkIn
         DEF Locking, LockStep, Evict, Revoke, WriteAll, WriteUser, At, RequestSound, Request
    <2>6. CASE UNCHANGED locks
      BY <1>2, <2>6 DEF HeldBy
    <2>7. ASSUME NEW s \in Sids, NEW at, UpdateRevoked(r, s, at)
          PROVE  /\ \A p \in Reqs \ {r}, t \in Sids : HeldBy(p, t)' <=> HeldBy(p, t)
                 /\ \A t \in Sids : HeldBy(r, t) => HeldBy(r, t)'
      BY <1>0, <2>7, NilAssumption DEF UpdateRevoked, HeldBy
    <2>8. QED
      BY <1>2, <2>1, <2>2, <2>3, <2>4, <2>5, <2>6, <2>7 DEF Acts, Step
  <1>3. QED
    BY <1>1, <1>2

-----------------------------------------------------------------------------
(* The device limit *)

\* A request that has decided to insert a session: a login from its count of
\* the active ones on, a rotation from its check of the row on.
Deciding(q) ==
    \/ q.op = "login" /\ (q.pc \in {"evict", "evicted"} \/ Inserting(q))
    \/ q.op = "refresh" /\ (q.pc \in {"user", "revoke", "revoked"} \/ Inserting(q))

\* A login is under way even before.
Begun(q) == Deciding(q) \/ q.pc = "list"

\* ... that will be active.
Due(q) == Deciding(q) /\ (q.op = "refresh" => sess[q.sid].expires > clock)

Pending(u) == {r \in Reqs : req[r].user = u /\ Due(req[r])}

\* The sessions that request r will have ended by then.
Doomed(r) ==
    IF req[r].op = "refresh" THEN {req[r].sid}
    ELSE {s \in Sids : HeldBy(r, s) \/ (req[r].pc \in {"evict", "evicted"} /\ s \in req[r].todo)}

\* The active ones that no request of Q has doomed.
Spared(u, Q) == {s \in ActiveSessions(u) : \A r \in Q : s \notin Doomed(r)}

\* Whichever of the pending requests are counted as done, the limit is overrun
\* by less than the number of requests.
LimitInv ==
    \A u \in Users : \A Q \in SUBSET Pending(u) :
        Cardinality(Spared(u, Q)) + Cardinality(Q) <= DEVICE_LIMIT + Cardinality(Reqs) - 1

\* The eviction just made is still to be taken off the list.
EvictedHeld == \A r \in Reqs : At(r, "evicted") => HeldBy(r, Min(req[r].todo))

\* A session is unrevoked that was, with the expiry it had, or that is
\* committed now.
LEMMA NonRevokedKept ==
    ASSUME SystemInv, [Next]_vars, NEW u, NEW s \in NonRevoked(u)'
    PROVE  \/ /\ s \in NonRevoked(u) /\ \A r \in Reqs : Commits(r) => ~HeldBy(r, s)
              /\ sess'[s].expires = sess[s].expires /\ sess[s].expires \in Nat
           \/ \E r \in Reqs : /\ CommitNew(r) /\ s = req[r].new /\ u = req[r].user
                              /\ req[r].op = "refresh" => sess'[s].expires = sess[req[r].sid].expires
  <1>1. s \in Sids /\ sess'[s] # Nil /\ sess'[s].user = u /\ sess'[s].revoked = Nil
    BY DEF NonRevoked, SessionsOf, Revoked
  <1>2. CASE Stored(s)
    <2>1. sess'[s] = [sess[s] EXCEPT !.revoked = sess'[s].revoked] /\ sess[s] \in Row
          /\ (Revoked(sess[s]) => Revoked(sess'[s]))
      BY <1>1, <1>2, RowsKept DEF SystemInv, TypeOK, StoreTypeOK, Stored
    <2>2. PICK at : sess'[s] = [sess[s] EXCEPT !.revoked = at]
      BY <2>1
    <2>3. sess'[s].user = sess[s].user /\ sess'[s].expires = sess[s].expires
          /\ sess[s].expires \in Nat
      BY <2>1, <2>2 DEF Row, Time
    <2>4. ASSUME NEW r \in Reqs, Commits(r), HeldBy(r, s) PROVE FALSE
      <3>1. sess'[s] = [sess[s] EXCEPT !.revoked = locks[s].at] /\ locks[s].at \in Time
        BY <1>1, <1>2, <2>4, CommitKeepsRow
      <3>2. sess'[s].revoked = locks[s].at
        BY <2>1, <3>1 DEF Row
      <3>3. QED
        BY <1>1, <3>1, <3>2, NilAssumption DEF Time
    <2>5. s \in NonRevoked(u)
      BY <1>1, <1>2, <2>1, <2>3 DEF NonRevoked, SessionsOf, Stored, Revoked
    <2>6. QED
      BY <2>3, <2>4, <2>5
  <1>3. CASE ~Stored(s)
    <2>1. PICK r \in Reqs : Commits(r)
      BY <1>1, <1>3, TableSteps DEF Stored
    <2>2. CommitNew(r)
      BY <1>1, <1>3, <2>1, StampedFields
         DEF Commits, CommitRevocations, CommitUser, PublishSessions, Stored
    <2>3. /\ req[r].new \in Sids /\ At(r, "commit") /\ req[r].new # Nil
          /\ req[r].op # "login" => req[r].op = "refresh"
      BY <2>2, Facts DEF CommitNew, Request, At, RequestSound
    <2>4. s = req[r].new /\ sess'[s] = NewRow(req[r])
      BY <1>1, <1>3, <2>2, <2>3, StampedFields DEF CommitNew, PublishWithInsert, Stored
    <2>5. NewRow(req[r]).user = req[r].user
      BY <2>3, NewRowFields
    <2>6. req[r].op = "refresh" => NewRow(req[r]).expires = sess[req[r].sid].expires
      BY DEF NewRow
    <2>7. QED
      BY <1>1, <2>2, <2>3, <2>4, <2>5, <2>6
  <1>4. QED
    BY <1>2, <1>3

\* ... and so for the active ones.
LEMMA ActiveKept ==
    ASSUME SystemInv, [Next]_vars, NEW u, NEW s \in ActiveSessions(u)'
    PROVE  \/ s \in ActiveSessions(u) /\ \A r \in Reqs : Commits(r) => ~HeldBy(r, s)
           \/ \E r \in Reqs : /\ CommitNew(r) /\ s = req[r].new /\ u = req[r].user
                              /\ req[r].op = "refresh" => sess[req[r].sid].expires > clock
  <1>1. s \in NonRevoked(u)' /\ sess'[s].expires > clock'
    BY DEF ActiveSessions, NonRevoked, SessionsOf
  <1>2. CASE /\ s \in NonRevoked(u) /\ \A r \in Reqs : Commits(r) => ~HeldBy(r, s)
             /\ sess'[s].expires = sess[s].expires /\ sess[s].expires \in Nat
    BY <1>1, <1>2, ClockSteps DEF ActiveSessions, NonRevoked
  <1>3. ASSUME NEW r \in Reqs, CommitNew(r), s = req[r].new, u = req[r].user,
               req[r].op = "refresh" => sess'[s].expires = sess[req[r].sid].expires
        PROVE  req[r].op = "refresh" => sess[req[r].sid].expires > clock
    BY <1>1, <1>3 DEF CommitNew
  <1>4. QED
    BY <1>1, <1>2, <1>3, NonRevokedKept

\* What a step of r makes of its decision: none, or the decision to insert, or
\* a further step towards it that spares no more sessions.
Decides(r) ==
    /\ UNCHANGED sess
    /\ \/ /\ Surplus(req[r].user) \subseteq Doomed(r)'
          /\ req'[r].op = "login" /\ req'[r].user = req[r].user
       \/ /\ "refresh" \in Ops /\ req'[r].op = "refresh" /\ req'[r].sid \in Sids
          /\ Active(sess[req'[r].sid]) /\ req'[r].user = sess[req'[r].sid].user
             /\ Stored(req'[r].sid)

GoesOn(r) ==
    /\ UNCHANGED sess /\ Deciding(req[r]) /\ Task(req[r], req'[r]) /\ Doomed(r) \subseteq Doomed(r)'

\* A rotation goes on to its commit with the same session.
LEMMA RotationGoesOn ==
    ASSUME SystemInv, NEW r \in Reqs,
           CheckUser(r) \/ (Revoke(r) /\ req[r].op = "refresh") \/ UncacheRotated(r)
    PROVE  ~Deciding(req'[r]) \/ GoesOn(r)
  <1>1. UNCHANGED sess /\ req[r].pc \in {"user", "revoke", "revoked"}
    BY DEF CheckUser, Revoke, UncacheRotated, storeVars, db, At
  <1>2. req'[r] = Idle => ~Deciding(req'[r])
    BY IdleFields DEF Deciding, Inserting
  <1>3. req'[r] = Idle \/ (req[r].op = "refresh" /\ Task(req[r], req'[r]))
    BY CheckUserEffect, UncacheRotatedEffect, GotoEffect DEF Revoke, Places, PreCommit, Same
  <1>4. req[r].op = "refresh" /\ Task(req[r], req'[r]) => Doomed(r) \subseteq Doomed(r)'
    BY DEF Doomed, Task
  <1>5. QED
    BY <1>1, <1>2, <1>3, <1>4 DEF GoesOn, Deciding

\* A login decides when it has listed the active sessions ...
LEMMA LoginDecides ==
    ASSUME SystemInv, NEW r \in Reqs, ListSessions(r)
    PROVE  Decides(r)
  <1>1. UNCHANGED sess
    BY DEF ListSessions, db
  <1>2. Surplus(req[r].user) \subseteq Sids
    BY DEF Surplus, Oldest, ActiveSessions, SessionsOf
  <1>3. req'[r].op = "login" /\ req'[r].user = req[r].user
    BY ListSessionsEffect DEF Task
  <1>4. Surplus(req[r].user) = {} \/ (req'[r].pc = "evict" /\ req'[r].todo = Surplus(req[r].user))
    BY ListSessionsEffect
  <1>5. QED
    BY <1>1, <1>2, <1>3, <1>4 DEF Decides, Doomed

\* ... and evicts what it has decided to.
LEMMA LoginGoesOn ==
    ASSUME SystemInv, EvictedHeld, NEW r \in Reqs, Evict(r) \/ UncacheEvicted(r)
    PROVE  GoesOn(r)
  <1>1. /\ UNCHANGED sess /\ req[r].pc \in {"evict", "evicted"} /\ req[r].op = "login"
        /\ req[r] \in Request
    BY Facts DEF Evict, UncacheEvicted, db, At, RequestSound
  <1>2. Task(req[r], req'[r])
    <2>1. CASE Evict(r)
      BY <2>1, GotoEffect DEF Evict, Places, PreCommit, Same
    <2>2. CASE UncacheEvicted(r)
      BY <2>2, UncacheEvictedEffect
    <2>3. QED
      BY <2>1, <2>2
  <1>3. \A s \in Sids : HeldBy(r, s) => HeldBy(r, s)'
    <2>1. locks \in [Sids -> Lock \cup {Nil}]
      BY DEF SystemInv, TypeOK, StoreTypeOK
    <2>2. CASE Evict(r)
      BY <2>1, <2>2, NilAssumption DEF Evict, UpdateRevoked, HeldBy
    <2>3. CASE UncacheEvicted(r)
      BY <2>3 DEF UncacheEvicted, db, HeldBy
    <2>4. QED
      BY <2>2, <2>3
  <1>4. ASSUME NEW s \in Sids, s \in req[r].todo
        PROVE  HeldBy(r, s)' \/ (req'[r].pc \in {"evict", "evicted"} /\ s \in req'[r].todo)
    <2>1. CASE Evict(r)
      BY <1>4, <2>1, GotoEffect DEF Evict, Places, PreCommit, Same
    <2>2. CASE UncacheEvicted(r)
      <3> PICK m : m = Min(req[r].todo)
        OBVIOUS
      <3>1. m \in Sids /\ HeldBy(r, m)
        BY <1>1, <2>2, MinIn, Facts DEF RequestSound, Request, EvictedHeld, UncacheEvicted, At
      <3>2. HeldBy(r, m)'
        BY <1>3, <3>1
      <3> PICK todo : todo = req'[r].todo
        OBVIOUS
      <3>3. todo = req[r].todo \ {m} /\ (todo # {} => req'[r].pc = "evict")
        BY <2>2, UncacheEvictedEffect
      <3>4. CASE s = m
        BY <3>2, <3>4
      <3>5. CASE s # m
        <4>1. s \in todo /\ todo # {}
          BY <1>4, <3>3, <3>5
        <4>2. QED
          BY <3>3, <4>1
      <3>6. QED
        BY <3>4, <3>5
    <2>3. QED
      BY <1>1, <2>1, <2>2
  <1>5. QED
    BY <1>1, <1>2, <1>3, <1>4 DEF GoesOn, Deciding, Doomed, Task

\* A step of r is its own.
LEMMA ActsAlone ==
    ASSUME SystemInv, NEW r \in Reqs, Acts(r)
    PROVE  OthersStay(r)
  <1>1. CASE Arrival(r)
    BY <1>1, ArrivalMoves
  <1>2. CASE AuthStep(r)
    BY <1>2, LoginMoves, RotationMoves, RevocationMoves, AnswerMoves, CommitMoves DEF AuthStep
  <1>3. CASE GateStep(r) \/ StatusStep(r)
    BY <1>3, GateMoves, AccountMoves
  <1>4. CASE Locking(r)
    BY <1>4, RotationMoves, RevocationMoves, AccountMoves DEF Locking, LockStep
  <1>5. CASE DbError(r)
    BY <1>5, ReturnEffect DEF DbError
  <1>6. QED
    BY <1>1, <1>2, <1>3, <1>4, <1>5 DEF Acts, Step

\* A call decides to insert only where it begins a rotation.
LEMMA ArrivalDecides ==
    ASSUME SystemInv, NEW r \in Reqs, Arrival(r)
    PROVE  ~Deciding(req'[r]) \/ Decides(r)
  <1>0. UNCHANGED sess
    BY ArrivalReads
  <1>1. ASSUME NEW u \in Users, Login(r, u) PROVE ~Deciding(req'[r])
    BY <1>1, LoginEffect DEF Fresh, Deciding, Inserting
  <1>2. ASSUME NEW s \in Sids, Refresh(r, s) PROVE ~Deciding(req'[r]) \/ Decides(r)
    <2>1. PICK q : q = req'[r]
      OBVIOUS
    <2>2. /\ Fresh(q, "refresh", sess[s].user, s, q.pc) /\ Stored(s)
          /\ q.pc = "user" => Active(sess[s])
          /\ q.pc \in {"replay", "list_active", "user"}
      BY <1>2, <2>1, RefreshEffect
    <2>3. "refresh" \in Ops
      BY <1>2 DEF Refresh
    <2>4. CASE q.pc = "user"
      BY <1>0, <2>1, <2>2, <2>3, <2>4 DEF Decides, Fresh
    <2>5. CASE q.pc # "user"
      BY <2>1, <2>2, <2>5 DEF Deciding, Inserting
    <2>6. QED
      BY <2>4, <2>5
  <1>3. ASSUME NEW s \in Sids, Logout(r, s) PROVE ~Deciding(req'[r])
    BY <1>3, LogoutEffect DEF Deciding
  <1>4. ASSUME NEW s \in Sids, NEW op \in {"gate", "logout_all"}, Gate(r, s, op)
        PROVE  ~Deciding(req'[r])
    BY <1>4, GateEffect DEF Fresh, Deciding
  <1>5. ASSUME NEW u \in Users, NEW to \in Statuses, ChangeStatus(r, u, to)
        PROVE  ~Deciding(req'[r])
    BY <1>5, ChangeStatusEffect DEF Fresh, Deciding
  <1>6. ASSUME NEW u \in Users, DeleteUser(r, u) PROVE ~Deciding(req'[r])
    BY <1>6, DeleteUserEffect DEF Fresh, Deciding
  <1>7. QED
    BY <1>1, <1>2, <1>3, <1>4, <1>5, <1>6 DEF Arrival, AuthArrival, GateArrival, StatusArrival

\* A logout-all, whoever runs it, inserts nothing.
LEMMA RevokerUndecided ==
    ASSUME SystemInv, NEW r \in Reqs,
           \/ ListActive(r) \/ SelectAll(r) \/ WriteAll(r) \/ CommitRevocations(r)
           \/ Purge(r) \/ PurgeGrace(r) \/ DbError(r)
    PROVE  ~Begun(req'[r])
  <1> PICK q : q = req'[r]
    OBVIOUS
  <1>1. ~Begun(Idle)
    BY IdleFields DEF Begun, Deciding, Inserting
  <1>2. ListActive(r) => q.pc = "select_all"
    BY ListActiveEffect
  <1>3. ASSUME SelectAll(r) \/ WriteAll(r) \/ CommitRevocations(r) \/ PurgeGrace(r)
        PROVE  req[r].new = Nil
    BY <1>3, NothingNew DEF SelectAll, WriteAll, CommitRevocations, PurgeGrace, At
  <1>4. ASSUME NEW m, m.new = Nil, PurgingTo(m, q) PROVE ~Begun(q)
    BY <1>1, <1>4 DEF PurgingTo, Same, Begun, Deciding, Inserting
  <1>5. ASSUME NEW m, m.new = Nil, WritingTo(m, q) PROVE ~Begun(q)
    BY <1>4, <1>5 DEF WritingTo, Same, Begun, Deciding, Inserting
  <1>6. SelectAll(r) => ~Begun(q)
    BY <1>3, <1>5, SelectAllEffect
  <1>7. WriteAll(r) => ~Begun(q)
    BY <1>3, <1>5, WriteAllEffect
  <1>8. CommitRevocations(r) => ~Begun(q)
    BY <1>3, <1>4, CommitRevocationsEffect
  <1>9. PurgeGrace(r) => ~Begun(q)
    BY <1>3, <1>4, PurgeGraceEffect
  <1>10. Purge(r) => q.pc = "purge_grace"
    BY GotoEffect DEF Purge, Places, Other
  <1>11. DbError(r) => q = Idle
    BY ReturnEffect DEF DbError
  <1>12. QED
    BY <1>1, <1>2, <1>6, <1>7, <1>8, <1>9, <1>10, <1>11 DEF Begun, Deciding, Inserting

\* Nor does an answer, the gate or an account operation.
LEMMA AnswerUndecided ==
    ASSUME SystemInv, NEW r \in Reqs,
           \/ Replay(r) \/ CommitNew(r) \/ Warm(r) \/ SetGrace(r)
           \/ GateStep(r) \/ StatusStep(r) \/ WriteUser(r)
    PROVE  ~Begun(req'[r])
  <1> PICK q : q = req'[r]
    OBVIOUS
  <1>1. ~Begun(Idle)
    BY IdleFields DEF Begun, Deciding, Inserting
  <1>2. Return(r) => q = Idle
    BY ReturnEffect
  <1>3. ASSUME NEW pc \in Places \ {"commit"},
               pc \notin {"list", "user", "revoke", "revoked", "evict", "evicted"},
               Goto(r, pc)
        PROVE  ~Begun(q)
    BY <1>3, GotoEffect DEF Begun, Deciding, Inserting
  <1>4. CASE Replay(r) \/ SetGrace(r)
    BY <1>1, <1>2, <1>4 DEF Replay, SetGrace
  <1>5. CASE CommitNew(r)
    BY <1>3, <1>5 DEF CommitNew, Places, PostCommit
  <1>6. CASE Warm(r)
    BY <1>1, <1>2, <1>3, <1>6 DEF Warm, Places, PostCommit
  <1>7. CASE GateStep(r)
    <2>1. ReadSession(r) => q.pc = "session_warm"
      BY ReadSessionEffect
    <2>2. ReadUser(r) => q = Idle \/ q.pc = "user_warm"
      BY ReadUserEffect
    <2>3. CASE WarmSession(r)
      BY <1>1, <1>2, <1>3, <2>3 DEF WarmSession, Places, Other
    <2>4. CASE ReadUserCache(r) \/ WarmUser(r)
      BY <1>1, <1>2, <1>3, <2>4 DEF ReadUserCache, WarmUser, Decide, Places, Other
    <2>5. CASE Handle(r)
      BY <1>1, <1>2, <1>3, <2>5 DEF Handle, Places, PreCommit
    <2>6. QED
      BY <1>1, <1>7, <2>1, <2>2, <2>3, <2>4, <2>5 DEF GateStep, Begun, Deciding, Inserting
  <1>8. CASE StatusStep(r) \/ WriteUser(r)
    <2>1. SelectStatus(r) => q.pc = "write_status"
      BY SelectStatusEffect
    <2>2. CASE CommitUser(r)
      BY <1>3, <2>2 DEF CommitUser, Places, PostCommit
    <2>3. CASE UncacheUser(r)
      BY <1>1, <1>2, <2>3 DEF UncacheUser
    <2>4. CASE WriteUser(r)
      <3>1. req[r].new = Nil
        BY <2>4, NothingNew DEF WriteUser
      <3>2. q.new = Nil /\ q.pc \in {"list_active", "commit"}
        BY <2>4, <3>1, GotoEffect DEF WriteUser, Places, PreCommit, Same
      <3>3. QED
        BY <3>2 DEF Begun, Deciding, Inserting
    <2>5. QED
      BY <1>8, <2>1, <2>2, <2>3, <2>4 DEF StatusStep, Begun, Deciding, Inserting
  <1>9. QED
    BY <1>4, <1>5, <1>6, <1>7, <1>8

\* Every step of r taken together.
LEMMA DecisionMoves ==
    ASSUME SystemInv, EvictedHeld, NEW r \in Reqs, Acts(r)
    PROVE  ~Deciding(req'[r]) \/ GoesOn(r) \/ Decides(r)
  <1>1. Revoke(r) /\ req[r].op # "refresh" => ~Deciding(req'[r])
    <2> SUFFICES ASSUME Revoke(r), req[r].op # "refresh"  PROVE ~Deciding(req'[r])
      OBVIOUS
    <2>1. req[r].new = Nil
      BY NothingNew DEF Revoke, At
    <2>2. req'[r].new = Nil /\ req'[r].pc = "commit"
      BY <2>1, GotoEffect DEF Revoke, Places, PreCommit, Same
    <2>3. QED
      BY <2>2 DEF Deciding, Inserting
  <1>2. QED
    BY <1>1, ArrivalDecides, RevokerUndecided, AnswerUndecided, RotationGoesOn, LoginDecides,
       LoginGoesOn
       DEF Begun, Acts, Step, AuthStep, Locking, LockStep

\* Sets of sessions and of requests can be counted.
LEMMA Counted ==
    /\ \A S \in SUBSET Sids : IsFiniteSet(S) /\ Cardinality(S) \in Nat
    /\ \A S \in SUBSET Reqs : IsFiniteSet(S) /\ Cardinality(S) \in Nat
                              /\ Cardinality(S) <= Cardinality(Reqs)
    /\ IsFiniteSet(Reqs) /\ Cardinality(Reqs) \in Nat
  <1>1. IsFiniteSet(Sids)
    BY NatAssumption, FS_Interval DEF Sids
  <1>2. QED
    BY <1>1, ReqsAssumption, FS_Subset, FS_CardinalityType

\* What an eviction leaves: with the surplus gone there is room for one more.
LEMMA RoomForOne ==
    ASSUME NEW u
    PROVE  Cardinality(ActiveSessions(u) \ Surplus(u)) <= DEVICE_LIMIT - 1
  <1> DEFINE S == ActiveSessions(u)
             R == S \ Surplus(u)
  <1>1. S \in SUBSET Sids /\ R \in SUBSET S /\ DEVICE_LIMIT \in Nat /\ DEVICE_LIMIT >= 1
    BY NatAssumption DEF ActiveSessions, SessionsOf
  <1>2. R = {s \in S : ~(Cardinality({t \in S : t < s}) < Overflow(S))}
    BY DEF Surplus, Oldest
  <1>3. /\ IsFiniteSet(S) /\ IsFiniteSet(R) /\ Cardinality(S) \in Nat /\ Cardinality(R) \in Nat
        /\ Cardinality(R) <= Cardinality(S)
    BY <1>1, Counted, FS_Subset
  <1>4. CASE Cardinality(S) < DEVICE_LIMIT
    BY <1>1, <1>3, <1>4
  <1>5. CASE R = {}
    BY <1>1, <1>5, FS_EmptySet
  <1>6. CASE Cardinality(S) >= DEVICE_LIMIT /\ R # {}
    <2>1. Overflow(S) = Cardinality(S) - (DEVICE_LIMIT - 1)
      BY <1>6 DEF Overflow
    <2>2. R \in SUBSET Nat
      BY <1>1, NatAssumption DEF Sids
    <2>3. PICK m \in R : \A t \in R : m <= t
      BY <1>6, <2>2, SmallestNat
    <2> DEFINE L == {t \in S : t < m}
    <2>4. /\ L \in SUBSET S /\ IsFiniteSet(L) /\ Cardinality(L) \in Nat
      BY <1>3, FS_Subset, FS_CardinalityType
    <2>5. Cardinality(L) >= Overflow(S)
      <3>1. m \in S /\ ~(Cardinality(L) < Overflow(S))
        BY <1>2, <2>3, Zenon
      <3> HIDE DEF L, S
      <3>2. QED
        BY <1>1, <1>3, <2>1, <2>4, <3>1
    <2>6. L \cap R = {}
      BY <2>2, <2>3
    <2>7. Cardinality(L \cup R) = Cardinality(L) + Cardinality(R)
      <3>1. Cardinality(L \cup R) = Cardinality(L) + Cardinality(R) - Cardinality(L \cap R)
        BY <1>3, <2>4, FS_Union, Zenon
      <3>2. Cardinality(L \cap R) = 0
        BY <2>6, FS_EmptySet, Zenon
      <3> HIDE DEF L, R
      <3>3. QED
        BY <1>3, <2>4, <3>1, <3>2
    <2>8. Cardinality(L \cup R) <= Cardinality(S)
      BY <1>1, <1>3, <2>4, FS_Subset
    <2>9. Cardinality(R) <= DEVICE_LIMIT - 1
      <3> HIDE DEF L, R, S
      <3>1. QED
        BY <1>1, <1>3, <2>1, <2>4, <2>5, <2>7, <2>8
    <2>10. QED
      BY <2>9
  <1>7. QED
    BY <1>1, <1>3, <1>4, <1>5, <1>6

\* Only an eviction leads to where it is to be taken off the list.
LEMMA EvictedByEvict ==
    ASSUME SystemInv, SystemInv', NEW r \in Reqs, Acts(r), req'[r].pc = "evicted"
    PROVE  Evict(r)
  <1>1. Deciding(req'[r])
    BY Facts DEF SystemInv, RequestSound, Deciding
  <1>2. ~Arrival(r)
    <2>1. ASSUME NEW u \in Users PROVE ~Login(r, u) /\ ~DeleteUser(r, u)
      BY LoginEffect, DeleteUserEffect DEF Fresh
    <2>2. ASSUME NEW s \in Sids PROVE ~Refresh(r, s)
      BY RefreshEffect
    <2>3. ASSUME NEW s \in Sids PROVE ~Logout(r, s)
      BY LogoutEffect
    <2>4. ASSUME NEW s \in Sids, NEW op \in {"gate", "logout_all"} PROVE ~Gate(r, s, op)
      BY GateEffect
    <2>5. ASSUME NEW u \in Users, NEW to \in Statuses PROVE ~ChangeStatus(r, u, to)
      BY ChangeStatusEffect DEF Fresh
    <2>6. QED
      BY <2>1, <2>2, <2>3, <2>4, <2>5 DEF Arrival, AuthArrival, GateArrival, StatusArrival
  <1>3. ~ListSessions(r) /\ ~UncacheEvicted(r)
    BY ListSessionsEffect, UncacheEvictedEffect
  <1>4. ~CheckUser(r) /\ ~UncacheRotated(r)
    BY CheckUserEffect, UncacheRotatedEffect, IdleFields
  <1>5. ~Revoke(r)
    BY GotoEffect DEF Revoke, Places, PreCommit
  <1>6. QED
    BY <1>1, <1>2, <1>3, <1>4, <1>5, RevokerUndecided, AnswerUndecided
       DEF Begun, Acts, Step, AuthStep, Locking, LockStep

\* An eviction is still to be taken off the list only just after it.
LEMMA EvictedHeldKept ==
    ASSUME SystemInv, SystemInv', EvictedHeld, [Next]_vars
    PROVE  EvictedHeld'
  <1> SUFFICES ASSUME NEW p \in Reqs, req'[p].pc = "evicted", NEW m, m = Min(req'[p].todo)
               PROVE  HeldBy(p, m)'
    BY DEF EvictedHeld, At
  <1>0. ASSUME req'[p] = req[p] PROVE HeldBy(p, m) /\ m \in Sids
    <2>1. req[p].todo \in SUBSET Sids /\ req[p].todo # {} /\ req[p].pc = "evicted"
      BY <1>0, Facts DEF RequestSound, Request
    <2>2. QED
      BY <1>0, <2>1, MinIn DEF EvictedHeld, At
  <1>1. CASE UNCHANGED <<req, locks>>
    BY <1>0, <1>1 DEF HeldBy
  <1>2. ASSUME NEW r \in Reqs, Acts(r) PROVE HeldBy(p, m)'
    <2>1. CASE r # p
      BY <1>0, <1>2, <2>1, ActsAlone, LockSteps DEF OthersStay
    <2>2. CASE r = p
      <3>1. Evict(p)
        BY <1>2, <2>2, EvictedByEvict
      <3>2. req[p].todo = req'[p].todo /\ req[p].todo \in SUBSET Sids /\ req[p].todo # {}
        BY <3>1, GotoEffect, Facts DEF Evict, Places, PreCommit, Same, RequestSound, Request, At
      <3>3. /\ m \in Sids /\ UpdateRevoked(p, m, req[p].at)
            /\ UNCHANGED <<clock, nextSid, users, sess, ulocks, cache, issued>>
            /\ req[p].at \in Time
        BY <3>1, <3>2, MinIn, Facts DEF Evict, Request
      <3>4. QED
        BY <3>3, LockTaken
    <2>3. QED
      BY <2>1, <2>2
  <1>3. QED
    BY <1>1, <1>2, StepActs DEF Tick, CacheOutage, vars, storeVars, db

\* A request that is due after a step of others was due before it.
LEMMA WasPending ==
    ASSUME SystemInv, [Next]_vars, NEW u, NEW p \in Reqs, req'[p] = req[p], p \in Pending(u)'
    PROVE  p \in Pending(u)
  <1>1. req[p].user = u /\ Deciding(req[p])
    BY DEF Pending, Due, Deciding, Inserting
  <1>2. CASE req[p].op = "refresh"
    <2>1. req[p].sid \in Sids /\ Stored(req[p].sid) /\ sess'[req[p].sid].expires > clock'
      BY <1>1, <1>2, Facts DEF RequestSound, Deciding, Inserting, SessionsOf, Stored, Pending, Due
    <2>2. PICK s \in Sids : s = req[p].sid
      BY <2>1
    <2>3. PICK at : sess'[s] = [sess[s] EXCEPT !.revoked = at]
      BY <2>1, <2>2, RowsKept
    <2>4. sess[s] \in Row
      BY <2>1, <2>2 DEF SystemInv, TypeOK, StoreTypeOK, Stored
    <2>5. sess'[s].expires = sess[s].expires /\ sess[s].expires \in Nat
      BY <2>3, <2>4 DEF Row, Time
    <2>6. sess[s].expires > clock
      BY <2>1, <2>2, <2>5, ClockSteps
    <2>7. QED
      BY <1>1, <2>2, <2>6 DEF Pending, Due
  <1>3. QED
    BY <1>1, <1>2 DEF Pending, Due

\* Others' decisions stand.
LEMMA DoomedStays ==
    ASSUME SystemInv, NEW r \in Reqs, Acts(r), NEW p \in Reqs \ {r}
    PROVE  Doomed(p)' = Doomed(p)
  BY ActsAlone, LockSteps DEF OthersStay, Doomed

\* Unless a session is committed, none becomes active.
LEMMA NoneSpared ==
    ASSUME SystemInv, [Next]_vars, NEW u, NEW Q \in SUBSET Reqs,
           \A r \in Reqs : ~CommitNew(r),
           \A p \in Q : Doomed(p) \subseteq Doomed(p)'
    PROVE  Spared(u, Q)' \subseteq Spared(u, Q)
  BY ActiveKept DEF Spared

\* The commit of a login or a rotation: what it has doomed is ended, and its
\* session appears.
LEMMA CommitSpared ==
    ASSUME SystemInv, [Next]_vars, NEW r \in Reqs, CommitNew(r), NEW u,
           NEW Q \in SUBSET (Reqs \ {r})
    PROVE  /\ r \in Pending(u) => Spared(u, Q)' \subseteq Spared(u, Q \cup {r}) \cup {req[r].new}
           /\ r \notin Pending(u) => Spared(u, Q)' \subseteq Spared(u, Q)
  <1>1. Acts(r)
    BY DEF Acts, Step, AuthStep
  <1>2. \A p \in Q : Doomed(p)' = Doomed(p)
    BY <1>1, DoomedStays
  <1>3. req[r].pc = "commit" /\ req[r].new # Nil /\ req[r].op \in {"login", "refresh"}
    BY Facts DEF CommitNew, At, RequestSound
  <1>4. Doomed(r) = {s \in Sids : HeldBy(r, s)}
    <2>1. CASE req[r].op = "login"
      BY <1>3, <2>1 DEF Doomed
    <2>2. CASE req[r].op = "refresh"
      <3>1. req[r].sid \in Sids
        BY <1>3, <2>2, Facts DEF RequestSound, SessionsOf
      <3>2. \A s \in Sids : HeldBy(r, s) <=> s = req[r].sid
        BY <1>3, <2>2, Facts DEF LocksFor, Rotating
      <3>3. QED
        BY <2>2, <3>1, <3>2 DEF Doomed
    <2>3. QED
      BY <1>3, <2>1, <2>2
  <1>5. ASSUME NEW p \in Reqs, CommitNew(p) PROVE p = r
    <2>1. req'[p].pc = "warm" /\ req[p].pc = "commit"
      BY <1>5, GotoEffect DEF CommitNew, Places, PostCommit, At
    <2>2. QED
      BY <1>1, <2>1, ActsAlone DEF OthersStay
  <1>6. ASSUME NEW s \in Spared(u, Q)'
        PROVE  s \in Spared(u, Q \cup {r}) \/ (s = req[r].new /\ r \in Pending(u))
    <2>1. s \in ActiveSessions(u)' /\ \A p \in Q : s \notin Doomed(p)
      BY <1>2, <1>6 DEF Spared
    <2>2. CASE s \in ActiveSessions(u) /\ ~HeldBy(r, s)
      BY <1>4, <2>1, <2>2 DEF Spared
    <2>3. CASE s = req[r].new /\ u = req[r].user
                  /\ (req[r].op = "refresh" => sess[req[r].sid].expires > clock)
      BY <1>3, <2>3 DEF Pending, Due, Deciding, Inserting
    <2>4. QED
      BY <1>5, <2>1, <2>2, <2>3, ActiveKept DEF Commits
  <1>7. Spared(u, Q \cup {r}) \subseteq Spared(u, Q)
    BY DEF Spared
  <1>8. QED
    BY <1>6, <1>7

\* A request due after its own step: it has decided in that step, or was due.
LEMMA DueMoves ==
    ASSUME SystemInv, EvictedHeld, NEW r \in Reqs, Acts(r), NEW u, r \in Pending(u)', clock' = clock
    PROVE  Decides(r) \/ (r \in Pending(u) /\ GoesOn(r))
  <1>1. Deciding(req'[r]) /\ req'[r].user = u
    BY DEF Pending, Due
  <1>2. CASE GoesOn(r)
    BY <1>1, <1>2 DEF GoesOn, Task, Pending, Due
  <1>3. QED
    BY <1>1, <1>2, DecisionMoves

\* The rotation that has just begun will replace an active session.
LEMMA RotationLeavesRoom ==
    ASSUME SystemInv, LimitInv, NEW r \in Reqs, Cardinality(Reqs) = 1, NEW u \in Users,
           r \in Pending(u)', UNCHANGED <<sess, clock>>, req'[r].op = "refresh",
           Active(sess[req'[r].sid]), u = sess[req'[r].sid].user, Stored(req'[r].sid),
           req'[r].sid \in Sids, NEW Q \in SUBSET Reqs, r \in Q
    PROVE  Cardinality(Spared(u, Q)') <= DEVICE_LIMIT - 1
  <1> PICK s : s = req'[r].sid
    OBVIOUS
  <1> DEFINE A == ActiveSessions(u)
  <1>1. sess[s].expires > clock
    BY DEF Pending, Due
  <1>2. s \in A
    BY <1>1 DEF ActiveSessions, SessionsOf, Active, Stored
  <1>3. Spared(u, Q)' \in SUBSET (A \ {s})
    BY DEF Spared, ActiveSessions, SessionsOf, Doomed, Revoked
  <1>4. Spared(u, {}) = A
    BY DEF Spared
  <1>5. A \in SUBSET Sids
    BY DEF ActiveSessions, SessionsOf
  <1> HIDE DEF A
  <1>6. IsFiniteSet(A) /\ Cardinality(A) \in Nat
    BY <1>5, Counted
  <1>7. Cardinality(A) + Cardinality({}) <= DEVICE_LIMIT + Cardinality(Reqs) - 1
    BY <1>4 DEF LimitInv
  <1>8. Cardinality(A) <= DEVICE_LIMIT
    BY <1>6, <1>7, FS_EmptySet, NatAssumption
  <1>9. Cardinality(Spared(u, Q)') <= Cardinality(A) - 1
    BY <1>2, <1>3, <1>6, OneLess
  <1> PICK n : n = Cardinality(Spared(u, Q)')
    OBVIOUS
  <1>10. Spared(u, Q)' \in SUBSET Sids
    BY <1>3, <1>5
  <1>11. n \in Nat
    BY <1>10, Counted
  <1>12. QED
    BY <1>6, <1>8, <1>9, <1>11, NatAssumption

\* Where the bound is claimed: rotations run one at a time.
RotationsAlone == "refresh" \notin Ops \/ Cardinality(Reqs) = 1

\* Fewer spared, fewer pending.
LEMMA BoundCarries ==
    ASSUME LimitInv, NEW u \in Users, NEW Q \in SUBSET Pending(u),
           NEW S \in SUBSET Spared(u, Q)
    PROVE  Cardinality(S) + Cardinality(Q) <= DEVICE_LIMIT + Cardinality(Reqs) - 1
  <1>1. Cardinality(Spared(u, Q)) + Cardinality(Q) <= DEVICE_LIMIT + Cardinality(Reqs) - 1
    BY DEF LimitInv
  <1>2. Spared(u, Q) \in SUBSET Sids /\ Q \in SUBSET Reqs
    BY DEF Spared, ActiveSessions, SessionsOf, Pending
  <1> PICK P : P = Spared(u, Q)
    OBVIOUS
  <1>3. IsFiniteSet(P) /\ Cardinality(P) \in Nat /\ Cardinality(Q) \in Nat
        /\ Cardinality(Reqs) \in Nat
    BY <1>2, Counted
  <1>4. Cardinality(S) <= Cardinality(P) /\ Cardinality(S) \in Nat
    BY <1>3, FS_Subset, FS_CardinalityType
  <1>5. QED
    BY <1>1, <1>3, <1>4, NatAssumption

\* The bound outlives the commit of an insertion, ...
LEMMA CommitBounded ==
    ASSUME SystemInv, LimitInv, [Next]_vars, NEW r \in Reqs, CommitNew(r),
           NEW u \in Users, NEW Q \in SUBSET Pending(u), r \notin Q, NEW S, S = Spared(u, Q)'
    PROVE  Cardinality(S) + Cardinality(Q) <= DEVICE_LIMIT + Cardinality(Reqs) - 1
  <1>0. Q \in SUBSET (Reqs \ {r})
    BY DEF Pending
  <1>1. CASE r \notin Pending(u)
    BY <1>0, <1>1, CommitSpared, BoundCarries
  <1>2. CASE r \in Pending(u)
    <2> DEFINE P == Spared(u, Q \cup {r})
    <2>1. S \in SUBSET (P \cup {req[r].new})
      BY <1>0, <1>2, CommitSpared
    <2>2. P \in SUBSET Sids
      BY DEF Spared, ActiveSessions, SessionsOf
    <2>3. Cardinality(P) + Cardinality(Q \cup {r}) <= DEVICE_LIMIT + Cardinality(Reqs) - 1
      BY <1>2, BoundCarries
    <2> HIDE DEF P
    <2>4. /\ IsFiniteSet(P) /\ Cardinality(P) \in Nat
          /\ IsFiniteSet(Q) /\ Cardinality(Q) \in Nat /\ Cardinality(Reqs) \in Nat
      BY <1>0, <2>2, Counted
    <2>5. Cardinality(Q \cup {r}) = Cardinality(Q) + 1
      BY <2>4, FS_AddElement
    <2>6. Cardinality(S) <= Cardinality(P) + 1
      BY <2>1, <2>4, AtMostOneMore
    <2>7. IsFiniteSet(P \cup {req[r].new})
      BY <2>4, FS_AddElement
    <2>8. Cardinality(S) \in Nat
      BY <2>1, <2>7, FS_Subset, FS_CardinalityType
    <2>9. QED
      BY <2>3, <2>4, <2>5, <2>6, <2>8, NatAssumption
  <1>3. QED
    BY <1>1, <1>2

\* ... the decision to insert one more, ...
LEMMA DecisionBounded ==
    ASSUME SystemInv, LimitInv, RotationsAlone, [Next]_vars, NEW r \in Reqs, Acts(r), Decides(r),
           NEW u \in Users, r \in Pending(u)', clock' = clock,
           NEW Q \in SUBSET Reqs, r \in Q, NEW S, S = Spared(u, Q)'
    PROVE  Cardinality(S) + Cardinality(Q) <= DEVICE_LIMIT + Cardinality(Reqs) - 1
  <1>1. Cardinality(S) <= DEVICE_LIMIT - 1
    <2>1. CASE Surplus(req[r].user) \subseteq Doomed(r)' /\ req'[r].user = req[r].user
      <3> DEFINE T == ActiveSessions(u) \ Surplus(u)
      <3>1. u = req[r].user
        BY <2>1 DEF Pending
      <3>2. S \in SUBSET T
        BY <2>1, <3>1 DEF Spared, Decides, ActiveSessions, SessionsOf, Revoked
      <3>3. T \in SUBSET Sids /\ Cardinality(T) <= DEVICE_LIMIT - 1
        BY RoomForOne DEF ActiveSessions, SessionsOf
      <3> HIDE DEF T
      <3>4. IsFiniteSet(T) /\ Cardinality(T) \in Nat
        BY <3>3, Counted
      <3>5. Cardinality(S) <= Cardinality(T) /\ Cardinality(S) \in Nat
        BY <3>2, <3>4, FS_Subset, FS_CardinalityType
      <3>6. QED
        BY <3>3, <3>4, <3>5, NatAssumption
    <2>2. CASE /\ "refresh" \in Ops /\ req'[r].op = "refresh" /\ req'[r].sid \in Sids
               /\ Active(sess[req'[r].sid]) /\ req'[r].user = sess[req'[r].sid].user
               /\ Stored(req'[r].sid)
      <3>1. u = sess[req'[r].sid].user
        BY <2>2 DEF Pending
      <3>2. QED
        BY <2>2, <3>1, RotationLeavesRoom DEF RotationsAlone, Decides
    <2>3. QED
      BY <2>1, <2>2 DEF Decides
  <1>2. S \in SUBSET Sids
    BY DEF Spared, ActiveSessions, SessionsOf
  <1>3. /\ Cardinality(S) \in Nat /\ Cardinality(Q) \in Nat /\ Cardinality(Reqs) \in Nat
        /\ Cardinality(Q) <= Cardinality(Reqs)
    BY <1>2, Counted
  <1>4. QED
    BY <1>1, <1>3, NatAssumption

\* ... and every other step.
LEMMA LimitKept ==
    ASSUME SystemInv, EvictedHeld, LimitInv, RotationsAlone, [Next]_vars
    PROVE  LimitInv'
  <1> SUFFICES ASSUME NEW u \in Users, NEW Q \in SUBSET Pending(u)', NEW S, S = Spared(u, Q)'
               PROVE  Cardinality(S) + Cardinality(Q) <= DEVICE_LIMIT + Cardinality(Reqs) - 1
    BY DEF LimitInv
  <1>0. Q \in SUBSET Reqs
    BY DEF Pending
  <1>1. CASE UNCHANGED <<req, locks>> /\ \A r \in Reqs : ~CommitNew(r)
    <2>1. Q \in SUBSET Pending(u)
      BY <1>0, <1>1, WasPending
    <2>2. \A p \in Reqs : Doomed(p)' = Doomed(p)
      BY <1>1 DEF Doomed, HeldBy
    <2>3. QED
      BY <1>0, <1>1, <2>1, <2>2, NoneSpared, BoundCarries
  <1>2. ASSUME NEW r \in Reqs, Acts(r)
        PROVE  Cardinality(S) + Cardinality(Q) <= DEVICE_LIMIT + Cardinality(Reqs) - 1
    <2>1. \A p \in Reqs \ {r} : p \in Q => p \in Pending(u) /\ Doomed(p)' = Doomed(p)
      BY <1>0, <1>2, ActsAlone, WasPending, DoomedStays DEF OthersStay
    <2>2. clock' = clock
      BY <1>2, ActsInTime
    <2>3. CASE CommitNew(r)
      <3>1. r \notin Q
        BY <2>3, AnswerUndecided DEF Begun, Pending, Due
      <3>2. Q \in SUBSET Pending(u)
        BY <1>0, <2>1, <3>1
      <3>3. QED
        BY <2>3, <3>1, <3>2, CommitBounded
    <2>4. CASE ~CommitNew(r)
      <3>1. \A p \in Reqs : ~CommitNew(p)
        <4>1. SUFFICES ASSUME NEW p \in Reqs, CommitNew(p) PROVE FALSE
          OBVIOUS
        <4>2. req'[p].pc = "warm" /\ req[p].pc = "commit"
          BY <4>1, GotoEffect DEF CommitNew, Places, PostCommit, At
        <4>3. QED
          BY <1>2, <2>4, <4>1, <4>2, ActsAlone DEF OthersStay
      <3>2. CASE r \notin Q
        BY <1>0, <2>1, <3>1, <3>2, NoneSpared, BoundCarries
      <3>3. CASE r \in Q /\ Decides(r)
        BY <1>0, <1>2, <2>2, <3>3, DecisionBounded
      <3>4. CASE r \in Q /\ r \in Pending(u) /\ GoesOn(r)
        <4>1. Q \in SUBSET Pending(u) /\ \A p \in Q : Doomed(p) \subseteq Doomed(p)'
          BY <1>0, <2>1, <3>4 DEF GoesOn
        <4>2. QED
          BY <1>0, <3>1, <4>1, NoneSpared, BoundCarries
      <3>5. QED
        BY <1>2, <2>2, <3>2, <3>3, <3>4, DueMoves
    <2>5. QED
      BY <2>3, <2>4
  <1>3. CASE (Tick \/ CacheOutage) /\ UNCHANGED req
    <2>1. UNCHANGED <<sess, locks>>
      BY <1>3 DEF Tick, CacheOutage, db
    <2>2. \A r \in Reqs : ~CommitNew(r)
      BY <1>3, GotoEffect DEF CommitNew, Places, PostCommit, At
    <2>3. QED
      BY <1>1, <1>3, <2>1, <2>2
  <1>4. CASE UNCHANGED vars
    <2>1. UNCHANGED <<req, locks>>
      BY <1>4 DEF vars, storeVars, db
    <2>2. \A r \in Reqs : ~CommitNew(r)
      BY <2>1, GotoEffect DEF CommitNew, Places, PostCommit, At
    <2>3. QED
      BY <1>1, <2>1, <2>2
  <1>5. QED
    BY <1>2, <1>3, <1>4, StepActs

\* No session is active in the first state.
LEMMA LimitInit == Init => LimitInv /\ EvictedHeld
  <1> SUFFICES ASSUME Init PROVE LimitInv /\ EvictedHeld
    OBVIOUS
  <1>1. req = [r \in Reqs |-> Idle] /\ sess = [s \in Sids |-> Nil]
    BY DEF Init, AuthInit, StoreInit
  <1>2. \A r \in Reqs : req[r].pc = "idle"
    BY <1>1, IdleFields
  <1>3. EvictedHeld
    BY <1>2 DEF EvictedHeld, At
  <1>4. ASSUME NEW u \in Users, NEW Q \in SUBSET Pending(u)
        PROVE  Cardinality(Spared(u, Q)) + Cardinality(Q) <= DEVICE_LIMIT + Cardinality(Reqs) - 1
    <2>1. Q = {} /\ Spared(u, Q) = {}
      BY <1>1, <1>2 DEF Pending, Due, Deciding, Inserting, Spared, ActiveSessions, SessionsOf
    <2>2. Cardinality(Reqs) \in Nat /\ DEVICE_LIMIT \in Nat /\ DEVICE_LIMIT >= 1
      BY Counted, NatAssumption
    <2>3. QED
      BY <2>1, <2>2, FS_EmptySet
  <1>5. QED
    BY <1>3, <1>4 DEF LimitInv

\* The bound for the sessions there are, with nothing pending counted.
LEMMA LimitBounds ==
    ASSUME LimitInv
    PROVE  OverrunBounded
  <1> SUFFICES ASSUME NEW u \in Users
               PROVE  Cardinality(ActiveSessions(u)) <= DEVICE_LIMIT + Cardinality(Reqs) - 1
    BY DEF OverrunBounded
  <1>1. Spared(u, {}) = ActiveSessions(u)
    BY DEF Spared
  <1>2. Cardinality(ActiveSessions(u)) + Cardinality({}) <= DEVICE_LIMIT + Cardinality(Reqs) - 1
    BY <1>1 DEF LimitInv
  <1>3. ActiveSessions(u) \in SUBSET Sids
    BY DEF ActiveSessions, SessionsOf
  <1>4. QED
    BY <1>2, <1>3, Counted, FS_EmptySet, NatAssumption

\* So both invariants hold throughout.
LEMMA LimitInvariant ==
    ASSUME RotationsAlone
    PROVE  Spec => [](SystemInv /\ EvictedHeld /\ LimitInv)
  <1>1. Init => SystemInv /\ EvictedHeld /\ LimitInv
    BY InitSound, LimitInit
  <1>2. SystemInv /\ EvictedHeld /\ LimitInv /\ [Next]_vars
        => (SystemInv /\ EvictedHeld /\ LimitInv)'
    BY NextKeeps, StutterKeeps, EvictedHeldKept, LimitKept
  <1>3. QED
    BY <1>1, <1>2, PTL DEF Spec

\* Logins overrun the device limit by less than their number, however they
\* interleave with logouts, lockouts and outages: the surplus a login finds is
\* evicted whole (service.py:73-83).  With rotations in flight as well this
\* holds where one request runs at a time.
THEOREM OverrunsBounded ==
    ASSUME RotationsAlone
    PROVE  Spec => []OverrunBounded
  <1>1. SystemInv /\ EvictedHeld /\ LimitInv => OverrunBounded
    BY LimitBounds
  <1>2. QED
    BY <1>1, LimitInvariant, PTL

\* One request at a time, an account never has more active sessions than the
\* limit of AuthService.authenticate (service.py:73-83).
THEOREM DeviceLimitHolds ==
    ASSUME Cardinality(Reqs) = 1
    PROVE  Spec => []DeviceLimit
  <1>1. OverrunBounded => DeviceLimit
    BY NatAssumption DEF OverrunBounded, DeviceLimit
  <1>2. QED
    BY <1>1, OverrunsBounded, PTL DEF RotationsAlone

-----------------------------------------------------------------------------
(* The way of each operation *)

\* Where each operation leads, ...
Revoking == {"list_active", "select_all", "write_all", "commit", "purge", "purge_grace"}
AtTheGate == {"session_db", "session_warm", "user_cache", "user_db", "user_warm", "granted"}

Placed(q) ==
    \/ q.pc = "idle" /\ q.op = Nil
    \/ q.op = "login" /\ (q.pc \in {"list", "evict", "evicted", "warm"} \/ Inserting(q))
    \/ /\ q.op = "refresh"
       /\ q.pc \in {"replay", "user", "revoke", "revoked", "warm", "set_grace"} \cup Revoking
    \/ q.op = "logout" /\ q.pc \in {"revoke", "commit", "purge", "purge_grace"}
    \/ q.op = "gate" /\ q.pc \in AtTheGate
    \/ q.op = "logout_all" /\ q.pc \in AtTheGate \cup Revoking
    \/ q.op = "change" /\ q.pc \in {"select_status", "write_status", "uncache_user"} \cup Revoking
    \/ q.op = "delete" /\ q.pc \in {"write_deleted", "uncache_user"} \cup Revoking

\* ... and the keys it sets out with to delete.
Purposes(q) ==
    /\ \/ q.op = "login"
       \/ q.op = "refresh" /\ (q.pc \in {"user", "revoke", "revoked"} \/ Inserting(q))
       => q.purge = {}
    /\ q.op = "logout" /\ q.pc \in {"revoke", "commit"} => q.purge = {q.sid}

Routed(q) == Placed(q) /\ Purposes(q)

RoutedInv == \A r \in Reqs : Routed(req[r])

\* The routes are kept: an answer and a call, ...
LEMMA IdleRouted == Routed(Idle)
  BY IdleFields, OpsAssumption DEF Routed, Placed, Purposes, AllOps

LEMMA ArrivalRouted ==
    ASSUME SystemInv, NEW r \in Reqs, Arrival(r)
    PROVE  Routed(req'[r])
  <1> USE DEF Routed, Placed, Purposes, Revoking, AtTheGate
  <1>1. ASSUME NEW u \in Users, Login(r, u) PROVE Routed(req'[r])
    BY <1>1, LoginEffect DEF Fresh
  <1>2. ASSUME NEW s \in Sids, Refresh(r, s) PROVE Routed(req'[r])
    BY <1>2, RefreshEffect DEF Fresh
  <1>3. ASSUME NEW s \in Sids, Logout(r, s) PROVE Routed(req'[r])
    BY <1>3, LogoutEffect
  <1>4. ASSUME NEW s \in Sids, NEW op \in {"gate", "logout_all"}, Gate(r, s, op)
        PROVE  Routed(req'[r])
    BY <1>4, GateEffect DEF Fresh
  <1>5. ASSUME NEW u \in Users, NEW to \in Statuses, ChangeStatus(r, u, to) PROVE Routed(req'[r])
    BY <1>5, ChangeStatusEffect DEF Fresh
  <1>6. ASSUME NEW u \in Users, DeleteUser(r, u) PROVE Routed(req'[r])
    BY <1>6, DeleteUserEffect DEF Fresh
  <1>7. QED
    BY <1>1, <1>2, <1>3, <1>4, <1>5, <1>6 DEF Arrival, AuthArrival, GateArrival, StatusArrival

\* login and rotation
LEMMA InsertionRouted ==
    ASSUME SystemInv, RoutedInv, NEW r \in Reqs,
           \/ ListSessions(r) \/ Evict(r) \/ UncacheEvicted(r)
           \/ CheckUser(r) \/ Revoke(r) \/ UncacheRotated(r)
           \/ CommitNew(r) \/ Warm(r) \/ SetGrace(r) \/ Replay(r)
    PROVE  Routed(req'[r])
  <1> PICK p : p = req[r]
    OBVIOUS
  <1> PICK q : q = req'[r]
    OBVIOUS
  <1>0. Routed(p) /\ RequestSound(p)
    BY Facts DEF RoutedInv
  <1>1. CASE ListSessions(r)
    <2>1. Task(p, q) /\ q.purge = p.purge /\ p.op = "login" /\ (q.pc = "evict" \/ Inserting(q))
      BY <1>1, ListSessionsEffect DEF Inserting
    <2>2. QED
      BY <1>0, <2>1 DEF Task, Routed, Placed, Purposes, Inserting
  <1>2. CASE UncacheEvicted(r)
    <2>1. Task(p, q) /\ q.purge = p.purge /\ p.op = "login" /\ (q.pc = "evict" \/ Inserting(q))
      BY <1>2, UncacheEvictedEffect DEF Inserting
    <2>2. QED
      BY <1>0, <2>1 DEF Task, Routed, Placed, Purposes, Inserting
  <1>3. CASE Evict(r)
    <2>1. p.op = "login"
      BY <1>0, <1>3 DEF Evict, At, RequestSound
    <2>2. Same(p, q) /\ q.pc = "evicted"
      BY <1>3, GotoEffect DEF Evict, Places, PreCommit
    <2>3. QED
      BY <1>0, <2>1, <2>2 DEF Same, Task, Routed, Placed, Purposes, Inserting
  <1>4. CASE CheckUser(r)
    <2>1. \/ q = Idle
          \/ Task(p, q) /\ q.purge = p.purge /\ p.op = "refresh" /\ p.pc = "user" /\ q.pc = "revoke"
      BY <1>4, CheckUserEffect
    <2>2. QED
      BY <1>0, <2>1, IdleRouted DEF Task, Routed, Placed, Purposes, Inserting
  <1>5. CASE Revoke(r)
    <2>1. Same(p, q) /\ p.pc = "revoke" /\ q.pc = IF p.op = "refresh" THEN "revoked" ELSE "commit"
      BY <1>5, GotoEffect DEF Revoke, Places, PreCommit, At
    <2>2. p.op \in {"refresh", "logout"}
      BY <1>0, <2>1 DEF Routed, Placed, Revoking, AtTheGate, Inserting
    <2>3. QED
      BY <1>0, <2>1, <2>2 DEF Same, Task, Routed, Placed, Purposes, Inserting
  <1>6. CASE UncacheRotated(r)
    <2>1. Task(p, q) /\ q.purge = p.purge /\ p.op = "refresh" /\ p.pc = "revoked" /\ Inserting(q)
      BY <1>6, UncacheRotatedEffect DEF Inserting
    <2>2. QED
      BY <1>0, <2>1 DEF Task, Routed, Placed, Purposes, Inserting, Revoking
  <1>7. CASE CommitNew(r)
    <2>1. Same(p, q) /\ q.pc = "warm" /\ Inserting(p)
      BY <1>7, GotoEffect DEF CommitNew, Places, PostCommit, Inserting, At
    <2>2. p.op \in {"login", "refresh"}
      BY <1>0, <2>1 DEF RequestSound, Inserting
    <2>3. QED
      BY <1>0, <2>1, <2>2 DEF Same, Task, Routed, Placed, Purposes, Inserting
  <1>8. CASE Warm(r)
    <2>1. p.pc = "warm" /\ (q = Idle \/ (p.op # "login" /\ Same(p, q) /\ q.pc = "set_grace"))
      BY <1>8, GotoEffect, ReturnEffect DEF Warm, Places, PostCommit, At
    <2>2. p.op \in {"login", "refresh"}
      BY <1>0, <2>1 DEF RequestSound
    <2>3. QED
      BY <1>0, <2>1, <2>2, IdleRouted DEF Same, Task, Routed, Placed, Purposes, Inserting
  <1>9. CASE SetGrace(r) \/ Replay(r)
    BY <1>9, IdleRouted, ReturnEffect DEF SetGrace, Replay
  <1>10. QED
    BY <1>1, <1>2, <1>3, <1>4, <1>5, <1>6, <1>7, <1>8, <1>9

\* Where a logout-all has got to, and whose it is.
LEMMA RevokingFrom ==
    ASSUME NEW p, Placed(p), RequestSound(p),
           p.pc \in {"list_active", "select_all", "write_all", "purge", "purge_grace"}
              \/ (p.pc = "commit" /\ p.new = Nil)
    PROVE  /\ p.op \in {"refresh", "logout", "logout_all", "change", "delete"} /\ p.new = Nil
           /\ p.op = "logout" => p.pc \in {"commit", "purge", "purge_grace"}
  BY DEF Placed, Revoking, AtTheGate, Inserting, RequestSound

\* It stays on its route.
LEMMA RevokingTo ==
    ASSUME NEW p, NEW q, p.op \in {"refresh", "logout_all", "change", "delete"},
           Task(p, q), q.pc \in Revoking, q.new = Nil
    PROVE  Routed(q)
  BY DEF Task, Routed, Placed, Purposes, Inserting, Revoking

\* logout and logout-all
LEMMA RevocationRouted ==
    ASSUME SystemInv, RoutedInv, NEW r \in Reqs,
           \/ ListActive(r) \/ SelectAll(r) \/ WriteAll(r) \/ CommitRevocations(r)
           \/ Purge(r) \/ PurgeGrace(r)
    PROVE  Routed(req'[r])
  <1> PICK p : p = req[r]
    OBVIOUS
  <1> PICK q : q = req'[r]
    OBVIOUS
  <1>0. Placed(p) /\ RequestSound(p)
    BY Facts DEF RoutedInv, Routed
  <1>1. /\ p.op \in {"refresh", "logout", "logout_all", "change", "delete"} /\ p.new = Nil
        /\ p.op = "logout" => p.pc \in {"commit", "purge", "purge_grace"}
    BY <1>0, RevokingFrom
       DEF ListActive, SelectAll, WriteAll, CommitRevocations, Purge, PurgeGrace, At
  <1>2. ASSUME NEW m, Task(p, m), m.new = Nil, PurgingTo(m, q) PROVE Routed(q)
    <2>1. CASE q = Idle
      BY <2>1, IdleRouted
    <2>2. CASE Same(m, q) /\ (q.pc = "purge" \/ (q.pc = "commit" /\ m.op \in {"change", "delete"}))
      <3>1. Task(p, q) /\ q.new = Nil
        BY <1>2, <2>2 DEF Same, Task
      <3>2. CASE p.op = "logout"
        BY <1>2, <2>2, <3>1, <3>2 DEF Task, Routed, Placed, Purposes, Inserting
      <3>3. QED
        BY <1>1, <2>2, <3>1, <3>2, RevokingTo DEF Revoking
    <2>3. QED
      BY <1>2, <2>1, <2>2 DEF PurgingTo
  <1>3. ASSUME NEW m, p.op # "logout", Task(p, m), m.new = Nil, WritingTo(m, q) PROVE Routed(q)
    <2>1. CASE q.pc \in {"write_all", "commit"} /\ Same(m, q)
      <3>1. Task(p, q) /\ q.new = Nil
        BY <1>3, <2>1 DEF Same, Task
      <3>2. QED
        BY <1>1, <1>3, <2>1, <3>1, RevokingTo DEF Revoking
    <2>2. QED
      BY <1>2, <1>3, <2>1 DEF WritingTo
  <1>4. CASE ListActive(r)
    <2>1. Task(p, q) /\ q.new = p.new /\ q.pc = "select_all" /\ p.pc = "list_active"
      BY <1>4, ListActiveEffect
    <2>2. QED
      BY <1>1, <2>1, RevokingTo DEF Revoking
  <1>5. CASE SelectAll(r)
    <2>1. p.pc = "select_all" /\ \E m : Task(p, m) /\ m.new = p.new /\ WritingTo(m, q)
      BY <1>5, SelectAllEffect
    <2>2. QED
      BY <1>1, <1>3, <2>1
  <1>6. CASE WriteAll(r)
    <2>1. p.pc = "write_all" /\ \E m : Task(p, m) /\ m.new = p.new /\ WritingTo(m, q)
      BY <1>6, WriteAllEffect
    <2>2. QED
      BY <1>1, <1>3, <2>1
  <1>7. CASE CommitRevocations(r)
    BY <1>1, <1>2, <1>7, CommitRevocationsEffect DEF Task
  <1>8. CASE Purge(r)
    <2>1. Same(p, q) /\ q.pc = "purge_grace"
      BY <1>8, GotoEffect DEF Purge, Places, Other
    <2>2. CASE p.op = "logout"
      BY <2>1, <2>2 DEF Same, Task, Routed, Placed, Purposes, Inserting
    <2>3. QED
      BY <1>1, <2>1, <2>2, RevokingTo DEF Same, Revoking
  <1>9. CASE PurgeGrace(r)
    <2>1. \E m : Task(p, m) /\ m.new = p.new /\ PurgingTo(m, q)
      BY <1>9, PurgeGraceEffect
    <2>2. QED
      BY <1>1, <1>2, <2>1
  <1>10. QED
    BY <1>4, <1>5, <1>6, <1>7, <1>8, <1>9

\* the gate and the account operations
LEMMA AccountRouted ==
    ASSUME SystemInv, RoutedInv, NEW r \in Reqs, GateStep(r) \/ StatusStep(r) \/ WriteUser(r)
    PROVE  Routed(req'[r])
  <1> PICK p : p = req[r]
    OBVIOUS
  <1> PICK q : q = req'[r]
    OBVIOUS
  <1>0. Placed(p) /\ RequestSound(p)
    BY Facts DEF RoutedInv, Routed
  <1>1. CASE GateStep(r)
    <2>1. p.pc \in AtTheGate /\ (p.pc # "granted" \/ Handle(r))
      BY <1>1 DEF GateStep, ReadSession, WarmSession, ReadUserCache, ReadUser, WarmUser, Handle,
         At, AtTheGate
    <2>2. p.op \in {"gate", "logout_all"}
      BY <1>0, <2>1 DEF Placed, Revoking, AtTheGate, Inserting
    <2>3. ASSUME Task(p, q), q.pc \in AtTheGate PROVE Routed(q)
      BY <2>2, <2>3 DEF Task, Routed, Placed, Purposes, Inserting
    <2>4. ReadSession(r) => Task(p, q) /\ q.pc = "session_warm"
      BY ReadSessionEffect
    <2>5. ReadUser(r) => q = Idle \/ (Task(p, q) /\ q.pc = "user_warm")
      BY ReadUserEffect
    <2>6. WarmSession(r) => q = Idle \/ (Task(p, q) /\ q.pc = "user_cache")
      BY GotoEffect, ReturnEffect DEF WarmSession, Places, Other, Same
    <2>7. ReadUserCache(r) => q = Idle \/ (Task(p, q) /\ q.pc \in {"user_db", "granted"})
      BY GotoEffect, ReturnEffect DEF ReadUserCache, Decide, Places, Other, Same
    <2>8. WarmUser(r) => q = Idle \/ (Task(p, q) /\ q.pc = "granted")
      BY GotoEffect, ReturnEffect DEF WarmUser, Decide, Places, Other, Same
    <2>9. CASE Handle(r)
      <3>1. q = Idle \/ (p.op = "logout_all" /\ Same(p, q) /\ q.pc = "list_active")
        BY <2>9, GotoEffect, ReturnEffect DEF Handle, Places, PreCommit
      <3>2. QED
        BY <3>1, IdleRouted DEF Same, Task, Routed, Placed, Purposes, Inserting, Revoking
    <2>10. QED
      BY <1>1, <2>3, <2>4, <2>5, <2>6, <2>7, <2>8, <2>9, IdleRouted DEF GateStep, AtTheGate
  <1>2. CASE SelectStatus(r)
    <2>1. Task(p, q) /\ q.pc = "write_status" /\ p.pc = "select_status"
      BY <1>2, SelectStatusEffect
    <2>2. QED
      BY <1>0, <2>1 DEF Task, Routed, Placed, Purposes, Inserting, Revoking, AtTheGate
  <1>3. CASE CommitUser(r)
    <2>1. Same(p, q) /\ q.pc = "uncache_user" /\ p.op \in {"change", "delete"}
      BY <1>3, GotoEffect DEF CommitUser, Places, PostCommit
    <2>2. QED
      BY <2>1 DEF Same, Task, Routed, Placed, Purposes, Inserting
  <1>4. CASE UncacheUser(r)
    BY <1>4, IdleRouted, ReturnEffect DEF UncacheUser
  <1>5. CASE WriteUser(r)
    <2>1. Same(p, q) /\ q.pc \in {"list_active", "commit"}
          /\ p.pc \in {"write_status", "write_deleted"}
      BY <1>5, GotoEffect DEF WriteUser, Places, PreCommit
    <2>2. p.op \in {"change", "delete"}
      BY <1>0, <2>1 DEF Placed, Revoking, AtTheGate, Inserting
    <2>3. QED
      BY <2>1, <2>2 DEF Same, Task, Routed, Placed, Purposes, Inserting, Revoking
  <1>6. QED
    BY <1>1, <1>2, <1>3, <1>4, <1>5 DEF StatusStep

\* The routes from one state to the next, and in the first.
LEMMA RoutedKept ==
    ASSUME SystemInv, RoutedInv, [Next]_vars
    PROVE  RoutedInv'
  <1>1. CASE UNCHANGED req
    BY <1>1 DEF RoutedInv
  <1>2. ASSUME NEW r \in Reqs, Acts(r) PROVE RoutedInv'
    <2>1. DbError(r) => Routed(req'[r])
      BY IdleRouted, ReturnEffect DEF DbError
    <2>2. Routed(req'[r])
      BY <1>2, <2>1, ArrivalRouted, InsertionRouted, RevocationRouted, AccountRouted
         DEF Acts, Step, AuthStep, Locking, LockStep
    <2>3. QED
      BY <1>2, <2>2, ActsAlone DEF OthersStay, RoutedInv
  <1>3. QED
    BY <1>1, <1>2, StepActs DEF vars

LEMMA RoutedInit == Init => RoutedInv
  BY IdleRouted DEF Init, AuthInit, RoutedInv

-----------------------------------------------------------------------------
(* The accounts, one request at a time *)

\* What a change of status knows of its account.
Knows(q) ==
    q.op = "change" /\ q.pc # "uncache_user" =>
        /\ MayBecome(users[q.user].status, q.target)
        /\ q.pc # "select_status" => q.loaded = users[q.user].status

\* A request past the check of its account, with a session to insert.
Admitting(q) ==
    \/ q.op = "login" /\ Begun(q)
    \/ q.op = "refresh" /\ (q.pc \in {"revoke", "revoked"} \/ Inserting(q))

Barred(u) == users[u].deleted \/ LockedOut(users[u].status)

Admitted(q) == Admitting(q) => ~Barred(q.user)

\* Where every session of the account has been revoked, though the commit is
\* still to come.
Swept(q) ==
    \/ q.pc \in {"purge", "purge_grace"} /\ q.op \in {"change", "delete"}
    \/ q.pc = "commit" /\ q.new = Nil /\ q.op \in {"logout_all", "refresh"}
    \/ q.pc = "commit" /\ q.op \in {"change", "delete"} /\ Revokes(q)

Held(r) == {s \in Sids : HeldBy(r, s)}

Sweeps(q, H) ==
    /\ q.pc = "write_all" => NonRevoked(q.user) \subseteq q.todo \cup H
    /\ Swept(q) => NonRevoked(q.user) \subseteq H

LockoutInv ==
    /\ \A r \in Reqs : Knows(req[r]) /\ Admitted(req[r]) /\ Sweeps(req[r], Held(r))
    /\ \A u \in Users : Barred(u) => LiveSessions(u) = {}

\* Only the commit of an account operation changes an account, and only a
\* commit the sessions.
LEMMA TablesStay ==
    ASSUME NEW r \in Reqs, Acts(r)
    PROVE  /\ ~CommitUser(r) => UNCHANGED users
           /\ ~Commits(r) => UNCHANGED sess
  <1>1. Arrival(r) => UNCHANGED <<users, sess>>
    BY ArrivalStays DEF storeVars, db
  <1>2. Locking(r) => UNCHANGED <<users, sess>>
    BY DEF Locking, LockStep, Evict, Revoke, WriteAll, WriteUser
  <1>3. AuthStep(r) => UNCHANGED users
    BY DEF AuthStep, ListSessions, UncacheEvicted, Replay, CheckUser, UncacheRotated,
       CommitNew, Warm, SetGrace, ListActive, SelectAll, CommitRevocations, Purge, PurgeGrace,
       storeVars, db
  <1>4. GateStep(r) => UNCHANGED users
    BY DEF GateStep, ReadSession, WarmSession, ReadUserCache, ReadUser, WarmUser, Handle,
       storeVars, db
  <1>5. StatusStep(r) /\ ~CommitUser(r) => UNCHANGED users
    BY DEF StatusStep, SelectStatus, UncacheUser, storeVars, db
  <1>6. DbError(r) => UNCHANGED <<users, sess>>
    BY DEF DbError, Rollback
  <1>7. QED
    BY <1>1, <1>2, <1>3, <1>4, <1>5, <1>6, StepReads DEF Acts, Step

\* The one request there is.
LEMMA Alone ==
    ASSUME Cardinality(Reqs) = 1, NEW r \in Reqs, NEW p \in Reqs
    PROVE  p = r
  BY ReqsAssumption, FS_Singleton

\* A request is the same call until it is answered.
LEMMA TaskKept ==
    ASSUME SystemInv, NEW r \in Reqs, Acts(r), ~Arrival(r)
    PROVE  req'[r] = Idle \/ Task(req[r], req'[r])
  <1> PICK p : p = req[r]
    OBVIOUS
  <1> PICK q : q = req'[r]
    OBVIOUS
  <1>1. Return(r) => q = Idle
    BY ReturnEffect
  <1>2. ASSUME NEW pc \in Places, Goto(r, pc) PROVE Task(p, q)
    BY <1>2, GotoEffect DEF Same
  <1>3. ASSUME NEW m, Task(p, m), WritingTo(m, q) \/ PurgingTo(m, q) PROVE q = Idle \/ Task(p, q)
    BY <1>3 DEF WritingTo, PurgingTo, Same, Task
  <1>4. ListSessions(r) => Task(p, q)
    BY ListSessionsEffect
  <1>5. UncacheEvicted(r) => Task(p, q)
    BY UncacheEvictedEffect
  <1>6. CheckUser(r) => q = Idle \/ Task(p, q)
    BY CheckUserEffect
  <1>7. UncacheRotated(r) => Task(p, q)
    BY UncacheRotatedEffect
  <1>8. Evict(r) \/ Revoke(r) \/ CommitNew(r) \/ Purge(r) \/ CommitUser(r) \/ WriteUser(r)
        => Task(p, q)
    BY <1>2 DEF Evict, Revoke, CommitNew, Purge, CommitUser, WriteUser, Places, PreCommit,
       PostCommit, Other
  <1>9. Warm(r) \/ SetGrace(r) \/ Replay(r) \/ UncacheUser(r) \/ DbError(r)
        => q = Idle \/ Task(p, q)
    BY <1>1, <1>2 DEF Warm, SetGrace, Replay, UncacheUser, DbError, Places, PostCommit
  <1>10. ListActive(r) => Task(p, q)
    BY ListActiveEffect
  <1>11. SelectAll(r) => q = Idle \/ Task(p, q)
    BY <1>3, SelectAllEffect
  <1>12. WriteAll(r) => q = Idle \/ Task(p, q)
    BY <1>3, WriteAllEffect
  <1>13. CommitRevocations(r) => q = Idle \/ Task(p, q)
    BY <1>3, CommitRevocationsEffect DEF Task
  <1>14. PurgeGrace(r) => q = Idle \/ Task(p, q)
    BY <1>3, PurgeGraceEffect
  <1>15. ReadSession(r) => Task(p, q)
    BY ReadSessionEffect
  <1>16. ReadUser(r) => q = Idle \/ Task(p, q)
    BY ReadUserEffect
  <1>17. WarmSession(r) \/ ReadUserCache(r) \/ WarmUser(r) \/ Handle(r) => q = Idle \/ Task(p, q)
    BY <1>1, <1>2 DEF WarmSession, ReadUserCache, WarmUser, Handle, Decide, Places, PreCommit, Other
  <1>18. SelectStatus(r) => Task(p, q)
    BY SelectStatusEffect
  <1>19. QED
    BY <1>4, <1>5, <1>6, <1>7, <1>8, <1>9, <1>10, <1>11, <1>12, <1>13, <1>14, <1>15, <1>16,
       <1>17, <1>18 DEF Acts, Step, AuthStep, GateStep, StatusStep, Locking, LockStep

\* What an account operation can do next.
LEMMA AccountSteps ==
    ASSUME SystemInv, RoutedInv, NEW r \in Reqs, Acts(r), req[r].op \in {"change", "delete"}
    PROVE  \/ SelectStatus(r) \/ WriteUser(r) \/ ListActive(r) \/ SelectAll(r) \/ WriteAll(r)
           \/ CommitUser(r) \/ Purge(r) \/ PurgeGrace(r) \/ UncacheUser(r) \/ DbError(r)
  <1>1. /\ req[r].pc \in {"select_status", "write_status", "write_deleted", "uncache_user"}
                           \cup Revoking
        /\ req[r].new = Nil
    BY Facts, OpsAssumption DEF RoutedInv, Routed, Placed, RequestSound, AllOps
  <1>2. ~Arrival(r)
    BY <1>1 DEF Revoking, Arrival, AuthArrival, GateArrival, StatusArrival, Login, Refresh, Logout,
       Gate, ChangeStatus, DeleteUser, At
  <1>3. ~GateStep(r)
    BY <1>1 DEF Revoking, GateStep, ReadSession, WarmSession, ReadUserCache, ReadUser, WarmUser,
       Handle, At
  <1>4. /\ ~ListSessions(r) /\ ~UncacheEvicted(r) /\ ~Replay(r) /\ ~CheckUser(r)
           /\ ~UncacheRotated(r)
        /\ ~CommitNew(r) /\ ~Warm(r) /\ ~SetGrace(r) /\ ~CommitRevocations(r) /\ ~Evict(r)
           /\ ~Revoke(r)
    BY <1>1
       DEF Revoking, ListSessions, UncacheEvicted, Replay, CheckUser, UncacheRotated, CommitNew,
       Warm, SetGrace, CommitRevocations, Evict, Revoke, At
  <1>5. QED
    BY <1>2, <1>3, <1>4 DEF Acts, Step, AuthStep, StatusStep, Locking, LockStep

\* It knows its account to the end: nothing but its own commit changes it.
LEMMA KnowsKept ==
    ASSUME SystemInv, RoutedInv, NEW r \in Reqs, Acts(r), Knows(req[r])
    PROVE  Knows(req[r])'
  <1> PICK p : p = req[r]
    OBVIOUS
  <1> PICK q : q = req'[r]
    OBVIOUS
  <1>1. CASE Arrival(r)
    <2>1. q.op = "change" => \E u \in Users, to \in Statuses : ChangeStatus(r, u, to)
      BY <1>1, LoginEffect, RefreshEffect, LogoutEffect, GateEffect, DeleteUserEffect
         DEF Fresh, Arrival, AuthArrival, GateArrival, StatusArrival
    <2>2. CASE q.op # "change"
      BY <2>2 DEF Knows
    <2>3. ASSUME NEW u \in Users, NEW to \in Statuses, ChangeStatus(r, u, to) PROVE Knows(q)'
      <3>1. q.user = u /\ q.target = to /\ q.pc = "select_status"
        BY <2>3, ChangeStatusEffect DEF Fresh
      <3>2. MayBecome(users[u].status, to) /\ UNCHANGED users
        BY <2>3 DEF ChangeStatus, storeVars, db
      <3>3. QED
        BY <3>1, <3>2 DEF Knows, MayBecome
    <2>4. QED
      BY <2>1, <2>2, <2>3
  <1>2. CASE ~Arrival(r) /\ p.op # "change"
    <2>1. q.op # "change"
      BY <1>2, TaskKept, IdleFields, OpsAssumption DEF Task, AllOps
    <2>2. QED
      BY <2>1 DEF Knows
  <1>3. CASE p.op = "change"
    <2>1. CASE q = Idle
      BY <2>1, IdleFields, OpsAssumption DEF Knows, AllOps
    <2>2. CASE CommitUser(r)
      <3>1. q.pc = "uncache_user"
        BY <2>2, GotoEffect DEF CommitUser, Places, PostCommit
      <3>2. QED
        BY <3>1 DEF Knows
    <2>3. CASE SelectStatus(r)
      <3>1. /\ Task(p, q) /\ q.pc = "write_status" /\ q.loaded = users[p.user].status
            /\ p.pc = "select_status"
        BY <2>3, SelectStatusEffect
      <3>2. UNCHANGED users
        BY <2>3 DEF SelectStatus, storeVars, db
      <3>3. QED
        BY <1>3, <3>1, <3>2 DEF Task, Knows, MayBecome
    <2>4. CASE \/ WriteUser(r) \/ ListActive(r) \/ SelectAll(r) \/ WriteAll(r)
               \/ Purge(r) \/ PurgeGrace(r)
      <3>1. UNCHANGED users /\ p.pc \notin {"select_status", "uncache_user"}
        BY <2>4 DEF WriteUser, ListActive, SelectAll, WriteAll, Purge, PurgeGrace, storeVars, db, At
      <3>2. ASSUME Task(p, q), q.loaded = p.loaded PROVE Knows(q)'
        BY <1>3, <3>1, <3>2 DEF Task, Knows, MayBecome
      <3>3. WriteUser(r) \/ Purge(r) => Task(p, q) /\ q.loaded = p.loaded
        BY GotoEffect DEF WriteUser, Purge, Places, PreCommit, Other, Same
      <3>4. ListActive(r) => Task(p, q) /\ q.loaded = p.loaded
        BY ListActiveEffect
      <3>5. ASSUME NEW m, Task(p, m), m.loaded = p.loaded, WritingTo(m, q) \/ PurgingTo(m, q)
            PROVE  q = Idle \/ (Task(p, q) /\ q.loaded = p.loaded)
        BY <3>5 DEF WritingTo, PurgingTo, Same, Task
      <3>6. SelectAll(r) => q = Idle \/ (Task(p, q) /\ q.loaded = p.loaded)
        BY <3>5, SelectAllEffect
      <3>7. WriteAll(r) => q = Idle \/ (Task(p, q) /\ q.loaded = p.loaded)
        BY <3>5, WriteAllEffect
      <3>8. PurgeGrace(r) => q = Idle \/ (Task(p, q) /\ q.loaded = p.loaded)
        BY <3>5, PurgeGraceEffect
      <3>9. QED
        BY <2>1, <2>4, <3>2, <3>3, <3>4, <3>6, <3>7, <3>8
    <2>5. UncacheUser(r) \/ DbError(r) => q = Idle
      BY ReturnEffect DEF UncacheUser, DbError
    <2>6. QED
      BY <1>3, <2>1, <2>2, <2>3, <2>4, <2>5, AccountSteps
  <1>4. QED
    BY <1>1, <1>2, <1>3

\* A request is past the check of its account from the step that makes it on.
LEMMA AdmittedKept ==
    ASSUME SystemInv, RoutedInv, NEW r \in Reqs, Acts(r), Admitted(req[r])
    PROVE  Admitted(req[r])'
  <1> PICK p : p = req[r]
    OBVIOUS
  <1> PICK q : q = req'[r]
    OBVIOUS
  <1>1. ASSUME ~Admitting(q) PROVE Admitted(q)'
    BY <1>1 DEF Admitted, Admitting
  <1>2. ASSUME UNCHANGED users, ~Barred(q.user) PROVE Admitted(q)'
    BY <1>2 DEF Admitted, Barred
  <1>3. CASE Arrival(r)
    <2>1. ASSUME NEW u \in Users, Login(r, u) PROVE Admitted(q)'
      <3>1. q.user = u /\ ~Barred(u) /\ UNCHANGED users
        BY <2>1, LoginEffect DEF Fresh, Login, Found, Barred, storeVars, db
      <3>2. QED
        BY <1>2, <3>1
    <2>2. ASSUME NEW s \in Sids, Refresh(r, s) PROVE ~Admitting(q)
      BY <2>2, RefreshEffect DEF Fresh, Admitting, Inserting
    <2>3. ASSUME NEW s \in Sids, Logout(r, s) PROVE ~Admitting(q)
      BY <2>3, LogoutEffect DEF Admitting
    <2>4. ASSUME NEW s \in Sids, NEW op \in {"gate", "logout_all"}, Gate(r, s, op)
          PROVE  ~Admitting(q)
      BY <2>4, GateEffect DEF Fresh, Admitting
    <2>5. ASSUME NEW u \in Users, NEW to \in Statuses, ChangeStatus(r, u, to) PROVE ~Admitting(q)
      BY <2>5, ChangeStatusEffect DEF Fresh, Admitting
    <2>6. ASSUME NEW u \in Users, DeleteUser(r, u) PROVE ~Admitting(q)
      BY <2>6, DeleteUserEffect DEF Fresh, Admitting
    <2>7. QED
      BY <1>1, <1>3, <2>1, <2>2, <2>3, <2>4, <2>5, <2>6
         DEF Arrival, AuthArrival, GateArrival, StatusArrival
  <1>4. CASE CheckUser(r)
    <2>1. q = Idle \/ (q.user = p.user /\ ~Barred(p.user))
      BY <1>4, CheckUserEffect DEF Task, Found, Barred
    <2>2. UNCHANGED users
      BY <1>4 DEF CheckUser, storeVars, db
    <2>3. Idle.op \notin {"login", "refresh"}
      BY IdleFields, OpsAssumption DEF AllOps
    <2>4. QED
      BY <1>1, <1>2, <2>1, <2>2, <2>3 DEF Admitting
  <1>5. CASE ListSessions(r) \/ Evict(r) \/ UncacheEvicted(r) \/ Revoke(r) \/ UncacheRotated(r)
    <2>1. UNCHANGED users
      BY <1>5 DEF ListSessions, Evict, UncacheEvicted, Revoke, UncacheRotated, db
    <2>2. ListSessions(r) => Task(p, q) /\ Admitting(p)
      BY ListSessionsEffect DEF Admitting, Begun
    <2>3. UncacheEvicted(r) => Task(p, q) /\ Admitting(p)
      BY UncacheEvictedEffect DEF Admitting, Begun, Deciding
    <2>4. Evict(r) => Task(p, q) /\ Admitting(p)
      BY GotoEffect, Facts
         DEF Evict, Places, PreCommit, Same, Admitting, Begun, Deciding, RequestSound, At
    <2>5. UncacheRotated(r) => Task(p, q) /\ Admitting(p)
      BY UncacheRotatedEffect DEF Admitting
    <2>6. Revoke(r) /\ p.op = "refresh" => Task(p, q) /\ Admitting(p)
      BY GotoEffect DEF Revoke, Places, PreCommit, Same, Admitting, At
    <2>7. ASSUME Revoke(r), p.op # "refresh" PROVE ~Admitting(q)
      <3>1. p.op = "logout"
        BY <2>7 DEF Revoke, At, RoutedInv, Routed, Placed, Inserting, Revoking, AtTheGate
      <3>2. q.op = "logout"
        BY <2>7, <3>1, GotoEffect DEF Revoke, Places, PreCommit, Same, Task
      <3>3. QED
        BY <3>2 DEF Admitting
    <2>8. ASSUME Task(p, q), Admitting(p) PROVE Admitted(q)'
      BY <1>2, <2>1, <2>8 DEF Admitted, Task
    <2>9. QED
      BY <1>1, <1>5, <2>2, <2>3, <2>4, <2>5, <2>6, <2>7, <2>8
  <1>6. CASE ~Begun(q)
    <2>1. CASE q.op = "refresh" /\ q.pc \in {"revoke", "revoked"}
      BY <1>6, <2>1 DEF Begun, Deciding
    <2>2. QED
      BY <1>1, <1>6, <2>1 DEF Admitting, Begun, Deciding
  <1>7. QED
    BY <1>3, <1>4, <1>5, <1>6, RevokerUndecided, AnswerUndecided
       DEF Acts, Step, AuthStep, Locking, LockStep

\* No other step comes to where the sessions are swept.
LEMMA SweepsElsewhere ==
    ASSUME SystemInv, RoutedInv, NEW r \in Reqs, Acts(r),
           ~SelectAll(r), ~WriteAll(r), ~Purge(r), ~PurgeGrace(r), NEW q, q = req'[r]
    PROVE  q.pc # "write_all" /\ ~Swept(q)
  <1> PICK p : p = req[r]
    OBVIOUS
  <1>1. CASE q = Idle
    BY <1>1, IdleFields DEF Swept
  <1>2. Return(r) => q = Idle
    BY ReturnEffect
  <1>3. ASSUME NEW pc \in Places, pc \notin {"write_all", "commit", "purge", "purge_grace"},
               Goto(r, pc)
        PROVE  q.pc # "write_all" /\ ~Swept(q)
    BY <1>3, GotoEffect DEF Swept
  <1>4. CASE Arrival(r)
    <2>1. q.pc \notin {"write_all", "purge", "purge_grace", "commit"} \/ q.op = "logout"
      BY <1>4, LoginEffect, RefreshEffect, LogoutEffect, GateEffect, ChangeStatusEffect,
         DeleteUserEffect
         DEF Fresh, Arrival, AuthArrival, GateArrival, StatusArrival
    <2>2. \A s \in Sids : Logout(r, s) => q.pc # "write_all"
      BY LogoutEffect
    <2>3. q.pc # "write_all"
      BY <1>4, <2>2, LoginEffect, RefreshEffect, GateEffect, ChangeStatusEffect, DeleteUserEffect
         DEF Fresh, Arrival, AuthArrival, GateArrival, StatusArrival
    <2>4. QED
      BY <2>1, <2>3 DEF Swept
  <1>5. ListSessions(r) => q.pc = "evict" \/ (q.pc = "commit" /\ q.op = "login")
    BY ListSessionsEffect DEF Task
  <1>6. UncacheEvicted(r) => q.pc = "evict" \/ (q.pc = "commit" /\ q.op = "login")
    BY UncacheEvictedEffect DEF Task
  <1>7. CheckUser(r) => q = Idle \/ q.pc = "revoke"
    BY CheckUserEffect
  <1>8. UncacheRotated(r) => q.pc = "commit" /\ q.op = "refresh" /\ q.new # Nil
    BY UncacheRotatedEffect DEF Task
  <1>9. Evict(r) => q.pc = "evicted"
    BY GotoEffect DEF Evict, Places, PreCommit
  <1>10. CASE Revoke(r)
    <2>1. Same(p, q) /\ q.pc = IF p.op = "refresh" THEN "revoked" ELSE "commit"
      BY <1>10, GotoEffect DEF Revoke, Places, PreCommit
    <2>2. p.op \in {"refresh", "logout"}
      BY <1>10 DEF Revoke, At, RoutedInv, Routed, Placed, Inserting, Revoking, AtTheGate
    <2>3. QED
      BY <2>1, <2>2 DEF Same, Task, Swept
  <1>11. CASE CommitNew(r) \/ CommitUser(r)
    BY <1>3, <1>11 DEF CommitNew, CommitUser, Places, PostCommit
  <1>12. CASE Warm(r) \/ SetGrace(r) \/ Replay(r) \/ UncacheUser(r) \/ DbError(r)
    BY <1>1, <1>2, <1>3, <1>12 DEF Warm, SetGrace, Replay, UncacheUser, DbError, Places, PostCommit
  <1>13. ListActive(r) => q.pc = "select_all"
    BY ListActiveEffect
  <1>14. CASE CommitRevocations(r)
    <2>1. PurgingTo(p, q) /\ p.op \notin {"change", "delete"}
      BY <1>14, CommitRevocationsEffect DEF CommitRevocations
    <2>2. QED
      BY <1>1, <2>1 DEF PurgingTo, Same, Task, Swept
  <1>15. ReadSession(r) => q.pc = "session_warm"
    BY ReadSessionEffect
  <1>16. ReadUser(r) => q = Idle \/ q.pc = "user_warm"
    BY ReadUserEffect
  <1>17. CASE WarmSession(r) \/ ReadUserCache(r) \/ WarmUser(r) \/ Handle(r)
    BY <1>1, <1>2, <1>3, <1>17
       DEF WarmSession, ReadUserCache, WarmUser, Handle, Decide, Places, PreCommit, Other
  <1>18. SelectStatus(r) => q.pc = "write_status"
    BY SelectStatusEffect
  <1>19. CASE WriteUser(r)
    <2>1. Same(p, q) /\ (q.pc = "list_active" \/ (q.pc = "commit" /\ ~Revokes(p)))
      BY <1>19, GotoEffect DEF WriteUser, Places, PreCommit
    <2>2. p.op \in {"change", "delete"}
      BY <1>19 DEF WriteUser, RoutedInv, Routed, Placed, Inserting, Revoking, AtTheGate
    <2>3. QED
      BY <2>1, <2>2 DEF Same, Task, Swept, Revokes
  <1>20. QED
    BY <1>1, <1>4, <1>5, <1>6, <1>7, <1>8, <1>9, <1>10, <1>11, <1>12, <1>13, <1>14, <1>15, <1>16,
       <1>17, <1>18, <1>19
       DEF Swept, Acts, Step, AuthStep, GateStep, StatusStep, Locking, LockStep

\* A logout-all has been sweeping the sessions of the account, and nobody else
\* has inserted one.
LEMMA SweepsKept ==
    ASSUME SystemInv, RoutedInv, NEW r \in Reqs, Acts(r), Sweeps(req[r], Held(r))
    PROVE  Sweeps(req[r], Held(r))'
  <1> PICK p : p = req[r]
    OBVIOUS
  <1> PICK q : q = req'[r]
    OBVIOUS
  <1> PICK H : H = Held(r)
    OBVIOUS
  <1> PICK G : G = Held(r)'
    OBVIOUS
  <1> SUFFICES Sweeps(q, G)'
    OBVIOUS
  <1>1. ASSUME q.pc # "write_all", ~Swept(q) PROVE Sweeps(q, G)'
    BY <1>1 DEF Sweeps, Swept, Revokes
  <1>2. ASSUME ~Commits(r), NonRevoked(q.user) \subseteq G PROVE Sweeps(q, G)'
    BY <1>2, TablesStay DEF Sweeps, NonRevoked, SessionsOf, Revoked
  <1>3. ~Commits(r) /\ ~DbError(r) => H \subseteq G
    BY LockSteps DEF Held
  <1>4. \A x \in {Idle} : ~Swept(x) /\ x.pc # "write_all"
    BY IdleFields DEF Swept
  <1>5. ASSUME ~Commits(r), NEW m, NonRevoked(m.user) \subseteq m.todo \cup G, WritingTo(m, q)
        PROVE  Sweeps(q, G)'
    <2>1. CASE q.pc = "write_all" /\ Same(m, q)
      <3>1. NonRevoked(q.user) \subseteq q.todo \cup G /\ ~Swept(q)
        BY <1>5, <2>1 DEF Same, Task, Swept
      <3>2. QED
        BY <1>5, <3>1, TablesStay DEF Sweeps, Swept, Revokes, NonRevoked, SessionsOf, Revoked
    <2>2. CASE m.todo = {} /\ Same(m, q)
      BY <1>2, <1>5, <2>2 DEF Same, Task
    <2>3. CASE q = Idle
      BY <1>1, <1>4, <2>3
    <2>4. QED
      BY <1>5, <2>1, <2>2, <2>3 DEF WritingTo, PurgingTo
  <1>6. CASE SelectAll(r)
    <2>1. \E m : m.todo = NonRevoked(p.user) /\ Task(p, m) /\ WritingTo(m, q)
      BY <1>6, SelectAllEffect
    <2>2. ~Commits(r)
      BY <1>6 DEF Commits, CommitNew, CommitRevocations, CommitUser, SelectAll, At
    <2>3. QED
      BY <1>5, <2>1, <2>2 DEF Task
  <1>7. CASE WriteAll(r)
    <2>0. ~Commits(r)
      BY <1>7 DEF Commits, CommitNew, CommitRevocations, CommitUser, WriteAll, At
    <2>1. PICK m : m.todo = p.todo \ {FirstByPk(p.todo)} /\ Task(p, m) /\ WritingTo(m, q)
      BY <1>7, WriteAllEffect
    <2> PICK s : s = FirstByPk(p.todo)
      OBVIOUS
    <2>2. s \in Sids /\ req[r].at \in Time /\ UpdateRevoked(r, s, req[r].at)
          /\ UNCHANGED <<clock, nextSid, users, sess, ulocks, cache, issued>> /\ p.pc = "write_all"
      BY <1>7, FirstByPkIn, Facts DEF WriteAll, RequestSound, Request, At
    <2>3. \A t \in Sids : HeldBy(r, t)' <=> HeldBy(r, t) \/ t = s
      BY <2>2, LockTaken
    <2>4. s \in G /\ H \subseteq G
      BY <2>2, <2>3 DEF Held
    <2>5. NonRevoked(p.user) \subseteq p.todo \cup H
      BY <2>2 DEF Sweeps
    <2>6. NonRevoked(m.user) \subseteq m.todo \cup G
      BY <2>1, <2>4, <2>5 DEF Task
    <2>7. QED
      BY <1>5, <2>0, <2>1, <2>6
  <1>8. CASE Purge(r) \/ PurgeGrace(r)
    <2>1. ~Commits(r) /\ H = G /\ p.pc \in {"purge", "purge_grace"}
      BY <1>8 DEF Commits, CommitNew, CommitRevocations, CommitUser, Purge, PurgeGrace, At, db,
         Held, HeldBy
    <2>2. q = Idle \/ Task(p, q)
      BY <1>8, TaskKept
         DEF Purge, PurgeGrace, Arrival, AuthArrival, GateArrival, StatusArrival, Login,
         Refresh, Logout, Gate, ChangeStatus, DeleteUser, At
    <2>3. CASE q = Idle
      BY <1>1, <1>4, <2>3
    <2>4. CASE Task(p, q) /\ p.op \in {"change", "delete"}
      <3>1. NonRevoked(q.user) \subseteq G
        BY <2>1, <2>4 DEF Sweeps, Swept, Task
      <3>2. QED
        BY <1>2, <2>1, <3>1
    <2>5. CASE Task(p, q) /\ p.op \notin {"change", "delete"} /\ q # Idle
      <3>1. Purge(r) => q.pc = "purge_grace"
        BY GotoEffect DEF Purge, Places, Other
      <3>2. PurgeGrace(r) => \E m : Task(p, m) /\ PurgingTo(m, q)
        BY PurgeGraceEffect
      <3>3. q.pc \in {"purge", "purge_grace"}
        BY <1>8, <2>5, <3>1, <3>2 DEF PurgingTo, Task
      <3>4. QED
        BY <1>1, <2>5, <3>3 DEF Swept, Task
    <2>6. QED
      BY <2>2, <2>3, <2>4, <2>5
  <1>9. QED
    BY <1>1, <1>6, <1>7, <1>8, SweepsElsewhere

\* What a sweep leaves: once it is committed no session of the account is left
\* unrevoked.
LEMMA SweptClean ==
    ASSUME SystemInv, LockoutInv, [Next]_vars, Cardinality(Reqs) = 1, NEW r \in Reqs,
           CommitRevocations(r) \/ CommitUser(r), Swept(req[r]), NEW u, u = req[r].user
    PROVE  NonRevoked(u)' = {}
  <1> SUFFICES ASSUME NEW s \in NonRevoked(u)' PROVE FALSE
    OBVIOUS
  <1>1. NonRevoked(u) \subseteq Held(r)
    BY DEF LockoutInv, Sweeps
  <1>2. \A p \in Reqs : ~CommitNew(p)
    <2>1. req[r].new = Nil
      BY Facts, OpsAssumption DEF CommitRevocations, CommitUser, RequestSound, AllOps
    <2>2. QED
      BY <2>1, Alone DEF CommitNew
  <1>3. QED
    BY <1>1, <1>2, NonRevokedKept DEF Commits, Held

\* The live sessions are unrevoked ones.
LEMMA LiveKept ==
    ASSUME SystemInv, [Next]_vars, NEW u, LiveSessions(u) = {},
           \A r \in Reqs : CommitNew(r) => req[r].user # u
    PROVE  LiveSessions(u)' = {}
  <1> SUFFICES ASSUME NEW s \in LiveSessions(u)' PROVE FALSE
    OBVIOUS
  <1>1. s \in NonRevoked(u)' /\ clock' <= sess'[s].expires
    <2>1. s \in Sids /\ s \in SessionsOf(u)' /\ ~(clock' > sess'[s].expires) /\ ~Revoked(sess'[s])
      BY DEF LiveSessions, SessionsOf, Active, Expired
    <2>2. s \in NonRevoked(u)'
      BY <2>1 DEF NonRevoked, SessionsOf
    <2>3. sess'[s].expires \in Nat
      BY <2>2, NonRevokedKept DEF LiveSessions
    <2>4. QED
      BY <2>1, <2>2, <2>3, ClockSteps
  <1>2. s \in NonRevoked(u) /\ sess'[s].expires = sess[s].expires /\ sess[s].expires \in Nat
    BY <1>1, NonRevokedKept
  <1>3. s \in LiveSessions(u)
    BY <1>1, <1>2, ClockSteps DEF LiveSessions, NonRevoked, Active, Expired
  <1>4. QED
    BY <1>3

\* The accounts barred stay without a live session.
LEMMA BarredKept ==
    ASSUME SystemInv, LockoutInv, [Next]_vars, Cardinality(Reqs) = 1, NEW u \in Users, Barred(u)'
    PROVE  LiveSessions(u)' = {}
  <1>1. CASE \E r \in Reqs : CommitUser(r) /\ req[r].user = u /\ Revokes(req[r])
    <2>1. NonRevoked(u)' = {}
      BY <1>1, SweptClean DEF CommitUser, At, Swept
    <2>2. QED
      BY <2>1 DEF LiveSessions, NonRevoked, Active
  <1>2. CASE ~ \E r \in Reqs : CommitUser(r) /\ req[r].user = u /\ Revokes(req[r])
    <2>1. Barred(u)
      <3>1. CASE users'[u] = users[u]
        BY <3>1 DEF Barred
      <3>2. CASE users'[u] # users[u]
        <4>1. PICK r \in Reqs : CommitUser(r)
          BY <3>2, StepActs, TablesStay DEF Tick, CacheOutage, vars, storeVars, db
        <4>2. req[r].user = u /\ users'[u] = Updated(req[r])
          BY <3>2, <4>1 DEF CommitUser, SystemInv, TypeOK, StoreTypeOK
        <4>3. req[r].op = "change" /\ ~LockedOut(req[r].target)
          BY <1>2, <4>1, <4>2 DEF CommitUser, Revokes
        <4>4. users'[u] = [users[u] EXCEPT !.status = req[r].target]
          BY <3>2, <4>2, <4>3 DEF Updated
        <4>5. users'[u].deleted = users[u].deleted /\ users'[u].status = req[r].target
          BY <4>4 DEF SystemInv, TypeOK, StoreTypeOK
        <4>6. QED
          BY <4>3, <4>5 DEF Barred
      <3>3. QED
        BY <3>1, <3>2
    <2>2. ASSUME NEW r \in Reqs, CommitNew(r) PROVE req[r].user # u
      <3>1. Admitting(req[r])
        BY <2>2, Facts DEF CommitNew, At, RequestSound, Admitting, Begun, Deciding, Inserting
      <3>2. ~Barred(req[r].user)
        BY <3>1 DEF LockoutInv, Admitted
      <3>3. QED
        BY <2>1, <3>2
    <2>3. QED
      BY <2>1, <2>2, LiveKept DEF LockoutInv
  <1>3. QED
    BY <1>1, <1>2

\* The contract of the accounts, step by step.
LEMMA LockoutKept ==
    ASSUME SystemInv, RoutedInv, LockoutInv, [Next]_vars, Cardinality(Reqs) = 1
    PROVE  LockoutInv'
  <1>1. ASSUME NEW r \in Reqs PROVE Knows(req[r])' /\ Admitted(req[r])' /\ Sweeps(req[r], Held(r))'
    <2>0. Knows(req[r]) /\ Admitted(req[r]) /\ Sweeps(req[r], Held(r))
      BY DEF LockoutInv
    <2>1. CASE UNCHANGED <<req, users, sess, locks>>
      BY <2>0, <2>1 DEF Knows, MayBecome, Admitted, Admitting, Begun, Deciding, Inserting, Barred,
         Sweeps, Swept,
         Revokes, Held, HeldBy, NonRevoked, SessionsOf, Revoked
    <2>2. CASE Acts(r)
      BY <2>0, <2>2, KnowsKept, AdmittedKept, SweepsKept
    <2>3. Tick \/ CacheOutage => UNCHANGED <<users, sess, locks>>
      BY DEF Tick, CacheOutage, db
    <2>4. QED
      BY <2>1, <2>2, <2>3, StepActs, Alone DEF vars, storeVars, db
  <1>2. QED
    BY <1>1, BarredKept DEF LockoutInv

LEMMA LockoutInit == Init => LockoutInv
  <1> SUFFICES ASSUME Init PROVE LockoutInv
    OBVIOUS
  <1>1. req = [r \in Reqs |-> Idle] /\ sess = [s \in Sids |-> Nil]
    BY DEF Init, AuthInit, StoreInit
  <1>2. \A r \in Reqs : req[r].pc = "idle" /\ req[r].op = Nil
    BY <1>1, IdleFields
  <1>3. \A r \in Reqs : Knows(req[r]) /\ Admitted(req[r]) /\ Sweeps(req[r], Held(r))
    BY <1>2, OpsAssumption DEF AllOps, Knows, Admitted, Admitting, Sweeps, Swept
  <1>4. \A u : LiveSessions(u) = {}
    BY <1>1 DEF LiveSessions, SessionsOf
  <1>5. QED
    BY <1>3, <1>4 DEF LockoutInv

LEMMA LockoutInvariant ==
    ASSUME Cardinality(Reqs) = 1
    PROVE  Spec => [](SystemInv /\ RoutedInv /\ LockoutInv)
  <1>1. Init => SystemInv /\ RoutedInv /\ LockoutInv
    BY InitSound, RoutedInit, LockoutInit
  <1>2. SystemInv /\ RoutedInv /\ LockoutInv /\ [Next]_vars
        => (SystemInv /\ RoutedInv /\ LockoutInv)'
    BY NextKeeps, StutterKeeps, RoutedKept, LockoutKept
  <1>3. QED
    BY <1>1, <1>2, PTL DEF Spec

\* One request at a time, an account that was suspended, banned or deleted has
\* no live session left: change_status and delete_user revoke in the same
\* transaction, and no login or rotation gets past its check of the account
\* (users/service.py:157-158).
THEOREM LockoutsEndSessions ==
    ASSUME Cardinality(Reqs) = 1
    PROVE  Spec => []LockoutEndsSessions
  <1>1. LockoutInv => LockoutEndsSessions
    BY DEF LockoutInv, LockoutEndsSessions, Barred
  <1>2. QED
    BY <1>1, LockoutInvariant, PTL

\* One request at a time, every committed change of status is a transition of
\* User.transition_to, though set_status loads the row again.
THEOREM StatusesMoveAlongTransitions ==
    ASSUME Cardinality(Reqs) = 1
    PROVE  Spec => StatusMachine
  <1>1. ASSUME SystemInv, LockoutInv, [Next]_vars, NEW u \in Users
        PROVE  MayBecome(users[u].status, users'[u].status)
    <2>1. CASE users'[u] = users[u]
      BY <2>1 DEF MayBecome
    <2>2. CASE users'[u] # users[u]
      <3>1. PICK r \in Reqs : CommitUser(r)
        BY <1>1, <2>2, StepActs, TablesStay DEF Tick, CacheOutage, vars, storeVars, db
      <3>2. req[r].user = u /\ users'[u] = Updated(req[r])
        BY <1>1, <2>2, <3>1 DEF CommitUser, SystemInv, TypeOK, StoreTypeOK
      <3>3. CASE req[r].op = "delete"
        <4>1. users'[u] = [users[u] EXCEPT !.deleted = TRUE]
          BY <3>2, <3>3 DEF Updated
        <4>2. users'[u].status = users[u].status
          BY <1>1, <4>1 DEF SystemInv, TypeOK, StoreTypeOK
        <4>3. QED
          BY <4>2 DEF MayBecome
      <3>4. CASE req[r].op = "change"
        <4>1. users'[u] = [users[u] EXCEPT !.status = req[r].target]
          BY <2>2, <3>2, <3>4 DEF Updated
        <4>2. users'[u].status = req[r].target
          BY <1>1, <4>1 DEF SystemInv, TypeOK, StoreTypeOK
        <4>3. Knows(req[r]) /\ req[r].pc = "commit"
          BY <1>1, <3>1 DEF LockoutInv, CommitUser, At
        <4>4. QED
          BY <3>2, <3>4, <4>2, <4>3 DEF Knows
      <3>5. QED
        BY <3>1, <3>3, <3>4 DEF CommitUser
    <2>3. QED
      BY <2>1, <2>2
  <1>2. SystemInv /\ LockoutInv /\ [Next]_vars =>
           [\A u \in Users : MayBecome(users[u].status, users'[u].status)]_vars
    BY <1>1
  <1>3. QED
    BY <1>2, LockoutInvariant, PTL DEF Spec, StatusMachine

\* One request at a time, the commit of a logout-all, or of the breach response
\* that runs it, leaves the user no live session (service.py:139-140), although
\* the rows were listed and selected by two statements.
THEOREM LogoutAllLeavesNone ==
    ASSUME Cardinality(Reqs) = 1
    PROVE  Spec => LogoutAllComplete
  <1>1. ASSUME SystemInv, LockoutInv, [Next]_vars, NEW r \in Reqs, NEW u \in Users,
               CommitsLogoutAll(r), u = req[r].user
        PROVE  LiveSessions(u)' = {}
    <2>1. Swept(req[r]) /\ CommitRevocations(r)
      BY <1>1 DEF CommitsLogoutAll, CommitRevocations, At, Swept
    <2>2. NonRevoked(u)' = {}
      BY <1>1, <2>1, SweptClean
    <2>3. QED
      BY <2>2 DEF LiveSessions, NonRevoked, Active
  <1>2. SystemInv /\ LockoutInv /\ [Next]_vars =>
           [\A r \in Reqs, u \in Users :
               CommitsLogoutAll(r) /\ u = req[r].user => LiveSessions(u)' = {}]_vars
    BY <1>1
  <1>3. QED
    BY <1>2, LockoutInvariant, PTL DEF Spec, LogoutAllComplete

-----------------------------------------------------------------------------
(* The cache, one request at a time *)

\* The cache vouches for session s, and the SQL of a logout-all would list it.
Vouched(s) ==
    Stored(s) /\ skey[s] # Nil /\ skey[s].revoked = Nil /\ sess[s].expires > clock

Revoker(q) == q.op \in {"change", "delete"}

\* The key of s is one q is about to delete, ...
Purges(q, s) ==
    s \in q.purge /\ (q.pc = "purge" \/ (q.pc = "purge_grace" /\ s # Min(q.purge)))

\* ... or will come to, in the place where q has locked the row of s.
Uncaches(q, s) ==
    \/ q.pc = "evicted" /\ s = Min(q.todo)
    \/ q.pc = "revoked" /\ s = q.sid
    \/ q.pc = "write_all" /\ s \in q.purge
    \/ q.pc = "commit" /\ ~Revoker(q) /\ s \in q.purge
    \/ Purges(q, s) /\ Revoker(q)

\* The rows a logout-all selects are those whose keys it listed, or expired.
Listed(q, S) == \A s \in S : s \in q.purge \/ sess[s].expires <= clock

Lists(q) ==
    /\ q.pc = "select_all" => Listed(q, NonRevoked(q.user))
    /\ q.pc = "write_all" => Listed(q, q.todo)

\* What a request is about to cache is what the tables say.
Fetched(q) ==
    /\ q.pc = "session_warm" => q.seen = sess[q.sid].revoked
    /\ q.pc = "user_warm" => q.loaded = users[q.user].status /\ Found(q.user)
    /\ q.pc = "warm" => ~Revoked(sess[q.new])

\* A session key outlives the revocation only until it is purged.
KeysPurged ==
    \A s \in Sids : Vouched(s) /\ Revoked(sess[s]) =>
        \E r \in Reqs : ~Revoker(req[r]) /\ Purges(req[r], s)

LockedUncached ==
    \A r \in Reqs, s \in Sids : Vouched(s) /\ HeldBy(r, s) => Uncaches(req[r], s)

\* A user key is that of the row, until the account operation deletes it.
UserKeysTrue ==
    \A u \in Users : ukey[u] # Nil =>
        \/ ukey[u].status = users[u].status /\ Found(u)
        \/ \E r \in Reqs : At(r, "uncache_user") /\ req[r].user = u

GateInv ==
    /\ KeysPurged /\ LockedUncached /\ UserKeysTrue
    /\ \A r \in Reqs : Lists(req[r]) /\ Fetched(req[r])

\* What a request does next, where it holds locks or has keys to delete.
LEMMA NextPlace ==
    ASSUME SystemInv, RoutedInv, NEW r \in Reqs, Acts(r), ~DbError(r), NEW p, p = req[r]
    PROVE  /\ p.pc = "evicted" => UncacheEvicted(r)
           /\ p.pc = "revoked" => UncacheRotated(r)
           /\ p.pc = "write_all" => WriteAll(r)
           /\ p.pc = "commit" => Commits(r)
           /\ p.pc = "purge" => Purge(r)
           /\ p.pc = "purge_grace" => PurgeGrace(r)
           /\ p.pc = "uncache_user" => UncacheUser(r)
  <1>1. p.pc # "idle" => ~Arrival(r)
    BY DEF Arrival, AuthArrival, GateArrival, StatusArrival, Login, Refresh, Logout,
       Gate, ChangeStatus, DeleteUser, At
  <1>2. GateStep(r) => p.pc \in AtTheGate
    BY DEF GateStep, ReadSession, WarmSession, ReadUserCache, ReadUser, WarmUser, Handle, At,
       AtTheGate
  <1>3. Locking(r) => p.pc \in {"evict", "revoke", "write_status", "write_deleted"} \/ WriteAll(r)
    BY DEF Locking, LockStep, Evict, Revoke, WriteUser, At
  <1>4. StatusStep(r) => p.pc = "select_status" \/ Commits(r) \/ UncacheUser(r)
    BY DEF StatusStep, SelectStatus, Commits, At
  <1>5. AuthStep(r) =>
          \/ p.pc \in {"list", "replay", "user", "warm", "set_grace", "list_active", "select_all"}
          \/ Commits(r) \/ UncacheEvicted(r) \/ UncacheRotated(r) \/ Purge(r) \/ PurgeGrace(r)
    BY DEF AuthStep, ListSessions, Replay, CheckUser, Warm, SetGrace, ListActive, SelectAll,
       Commits, At
  <1>6. /\ WriteAll(r) => p.pc = "write_all"
        /\ Commits(r) => p.pc = "commit"
        /\ UncacheEvicted(r) => p.pc = "evicted"
        /\ UncacheRotated(r) => p.pc = "revoked"
        /\ Purge(r) => p.pc = "purge"
        /\ PurgeGrace(r) => p.pc = "purge_grace"
        /\ UncacheUser(r) => p.pc = "uncache_user"
    BY DEF WriteAll, Commits, CommitNew, CommitRevocations, CommitUser, UncacheEvicted,
       UncacheRotated,
       Purge, PurgeGrace, UncacheUser, At
  <1>7. QED
    BY <1>1, <1>2, <1>3, <1>4, <1>5, <1>6 DEF Acts, Step, AtTheGate

\* Who takes a row lock.
LEMMA LockTaker ==
    ASSUME SystemInv, NEW r \in Reqs, Acts(r), NEW s \in Sids, HeldBy(r, s)', ~HeldBy(r, s)
    PROVE  \/ Evict(r) /\ s = Min(req[r].todo)
           \/ Revoke(r) /\ s = req[r].sid
           \/ WriteAll(r) /\ s = FirstByPk(req[r].todo)
  <1>1. locks'[s] # locks[s] /\ ~(locks' = Unlocked(r))
    BY UnlockedFields DEF HeldBy
  <1>2. ~Arrival(r)
    BY <1>1, ArrivalStays DEF storeVars, db
  <1>3. ~AuthStep(r)
    BY <1>1 DEF AuthStep, ListSessions, UncacheEvicted, Replay, CheckUser,
       UncacheRotated, Warm, SetGrace, ListActive, SelectAll, Purge, PurgeGrace, storeVars, db,
       CommitNew, CommitRevocations, PublishSessions, PublishWithInsert
  <1>4. ~GateStep(r)
    BY <1>1 DEF GateStep, ReadSession, WarmSession, ReadUserCache, ReadUser, WarmUser, Handle,
       storeVars, db
  <1>5. ~StatusStep(r) /\ ~DbError(r)
    BY <1>1
       DEF StatusStep, SelectStatus, UncacheUser, CommitUser, PublishSessions, DbError, Rollback,
       storeVars, db
  <1>6. ~WriteUser(r)
    BY <1>1 DEF WriteUser
  <1>7. ASSUME NEW t, NEW at, UpdateRevoked(r, t, at) PROVE s = t
    BY <1>1, <1>7 DEF UpdateRevoked, SystemInv, TypeOK, StoreTypeOK
  <1>8. QED
    BY <1>2, <1>3, <1>4, <1>5, <1>6, <1>7 DEF Acts, Step, Locking, LockStep, Evict, Revoke, WriteAll

\* The cache comes to vouch for a session only where it is written.
LEMMA VouchedKept ==
    ASSUME SystemInv, KeysInv, [Next]_vars, NEW s \in Sids, Vouched(s)'
    PROVE  \/ Vouched(s) /\ skey'[s] = skey[s]
           \/ \E r \in Reqs : At(r, "warm") /\ s = req[r].new
           \/ \E r \in Reqs : At(r, "session_warm") /\ s = req[r].sid /\ req[r].seen = Nil
  <1>1. CASE skey'[s] = skey[s]
    <2>1. Stored(s) /\ skey[s] # Nil /\ skey[s].revoked = Nil /\ sess'[s].expires > clock'
      BY <1>1 DEF Vouched, KeysInv, CachedSessionSound
    <2>2. sess[s] \in Row /\ sess'[s] = [sess[s] EXCEPT !.revoked = sess'[s].revoked]
      BY <2>1, RowsKept DEF SystemInv, TypeOK, StoreTypeOK, Stored
    <2>3. PICK at : sess'[s] = [sess[s] EXCEPT !.revoked = at]
      BY <2>2
    <2>4. sess'[s].expires = sess[s].expires /\ sess[s].expires \in Nat
      BY <2>2, <2>3 DEF Row, Time
    <2>5. QED
      BY <1>1, <2>1, <2>4, ClockSteps DEF Vouched
  <1>2. skey'[s] # Nil /\ skey'[s].revoked = Nil
    BY DEF Vouched
  <1>3. QED
    BY <1>1, <1>2, KeySteps

\* Who comes to the places where a listing or an account has just been read.
LEMMA ReadPlaces ==
    ASSUME SystemInv, NEW r \in Reqs, Acts(r), NEW q, q = req'[r]
    PROVE  /\ q.pc = "select_all" => ListActive(r)
           /\ q.pc = "user_warm" => ReadUser(r)
  <1> DEFINE ReadingPlaces == {"select_all", "user_warm"}
  <1> PICK p : p = req[r]
    OBVIOUS
  <1>1. q = Idle => q.pc \notin ReadingPlaces
    BY IdleFields
  <1>2. Return(r) => q.pc \notin ReadingPlaces
    BY <1>1, ReturnEffect
  <1>3. ASSUME NEW pc \in Places \ ReadingPlaces, Goto(r, pc) PROVE q.pc \notin ReadingPlaces
    BY <1>3, GotoEffect
  <1>4. \A m : WritingTo(m, q) \/ PurgingTo(m, q) => q.pc \notin ReadingPlaces
    BY <1>1 DEF WritingTo, PurgingTo
  <1>5. Arrival(r) => q.pc \notin ReadingPlaces
    BY LoginEffect, RefreshEffect, LogoutEffect, GateEffect, ChangeStatusEffect, DeleteUserEffect
       DEF Fresh, Arrival, AuthArrival, GateArrival, StatusArrival
  <1>6. ListSessions(r) => q.pc \notin ReadingPlaces
    BY ListSessionsEffect
  <1>7. UncacheEvicted(r) => q.pc \notin ReadingPlaces
    BY UncacheEvictedEffect
  <1>8. CheckUser(r) => q.pc \notin ReadingPlaces
    BY <1>1, CheckUserEffect
  <1>9. UncacheRotated(r) => q.pc \notin ReadingPlaces
    BY UncacheRotatedEffect
  <1>10. Evict(r) \/ Revoke(r) \/ CommitNew(r) \/ CommitUser(r) \/ Purge(r) \/ WriteUser(r)
         => q.pc \notin ReadingPlaces
    BY <1>3 DEF Evict, Revoke, CommitNew, CommitUser, Purge, WriteUser, Places, PreCommit,
       PostCommit, Other
  <1>11. Warm(r) \/ SetGrace(r) \/ Replay(r) \/ UncacheUser(r) \/ DbError(r) => q.pc \notin ReadingPlaces
    BY <1>2, <1>3 DEF Warm, SetGrace, Replay, UncacheUser, DbError, Places, PostCommit
  <1>12. SelectAll(r) => q.pc \notin ReadingPlaces
    BY <1>4, SelectAllEffect
  <1>13. WriteAll(r) => q.pc \notin ReadingPlaces
    BY <1>4, WriteAllEffect
  <1>14. CommitRevocations(r) => q.pc \notin ReadingPlaces
    BY <1>4, CommitRevocationsEffect
  <1>15. PurgeGrace(r) => q.pc \notin ReadingPlaces
    BY <1>4, PurgeGraceEffect
  <1>16. ReadSession(r) => q.pc \notin ReadingPlaces
    BY ReadSessionEffect
  <1>17. WarmSession(r) \/ ReadUserCache(r) \/ WarmUser(r) \/ Handle(r) => q.pc \notin ReadingPlaces
    BY <1>2, <1>3 DEF WarmSession, ReadUserCache, WarmUser, Handle, Decide, Places, PreCommit, Other
  <1>18. SelectStatus(r) => q.pc \notin ReadingPlaces
    BY SelectStatusEffect
  <1>19. ListActive(r) => q.pc = "select_all"
    BY ListActiveEffect
  <1>20. ReadUser(r) => q = Idle \/ q.pc = "user_warm"
    BY ReadUserEffect
  <1>21. QED
    BY <1>1, <1>5, <1>6, <1>7, <1>8, <1>9, <1>10, <1>11, <1>12, <1>13, <1>14, <1>15, <1>16,
       <1>17, <1>18, <1>19, <1>20
       DEF Acts, Step, AuthStep, GateStep, StatusStep, Locking, LockStep

\* A deletion in its turn leaves the key deleted, or is still to come.
LEMMA PurgesOn ==
    ASSUME SystemInv, NEW r \in Reqs, Purge(r) \/ PurgeGrace(r), NEW s \in Sids,
           Purges(req[r], s), skey'[s] # Nil
    PROVE  Purges(req'[r], s) /\ Task(req[r], req'[r])
  <1> PICK p : p = req[r]
    OBVIOUS
  <1> PICK q : q = req'[r]
    OBVIOUS
  <1>1. CASE Purge(r)
    <2>1. Same(p, q) /\ q.pc = "purge_grace"
      BY <1>1, GotoEffect DEF Purge, Places, Other
    <2>2. s # Min(p.purge)
      BY <1>1 DEF Purge, DeleteSessionKey, SystemInv, TypeOK, StoreTypeOK
    <2>3. QED
      BY <2>1, <2>2 DEF Same, Purges
  <1>2. CASE PurgeGrace(r)
    <2>1. p.pc = "purge_grace" /\ \E m : /\ Task(p, m) /\ m.purge = p.purge \ {Min(p.purge)}
                                         /\ PurgingTo(m, q)
      BY <1>2, PurgeGraceEffect
    <2>2. PICK m : Task(p, m) /\ m.purge = p.purge \ {Min(p.purge)} /\ PurgingTo(m, q)
      BY <2>1
    <2>3. s \in m.purge
      BY <2>1, <2>2 DEF Purges
    <2>4. QED
      BY <2>2, <2>3 DEF PurgingTo, Same, Task, Purges
  <1>3. QED
    BY <1>1, <1>2

\* A flush that has the key of s on its list keeps it there.
LEMMA FlushUncaches ==
    ASSUME SystemInv, NEW r \in Reqs, WriteAll(r), NEW s \in req[r].purge
    PROVE  Uncaches(req'[r], s)
  <1> PICK p : p = req[r]
    OBVIOUS
  <1> PICK q : q = req'[r]
    OBVIOUS
  <1>1. PICK m : m.purge = p.purge /\ WritingTo(m, q)
    BY WriteAllEffect
  <1>2. s \in m.purge
    BY <1>1
  <1>3. CASE m.op \in {"change", "delete"}
    BY <1>1, <1>2, <1>3 DEF WritingTo, PurgingTo, Same, Task, Uncaches, Purges, Revoker
  <1>4. CASE m.op \notin {"change", "delete"}
    BY <1>1, <1>2, <1>4 DEF WritingTo, Same, Task, Uncaches, Revoker
  <1>5. QED
    BY <1>3, <1>4

\* What is cached of a session has just been read or inserted, by the request
\* that holds no lock then.
LEMMA VouchedNow ==
    ASSUME SystemInv, RoutedInv, KeysInv, GateInv, Cardinality(Reqs) = 1, NEW r \in Reqs, Acts(r),
           [Next]_vars, NEW s \in Sids, Vouched(s)', ~(Vouched(s) /\ skey'[s] = skey[s])
    PROVE  ~Revoked(sess'[s]) /\ ~HeldBy(r, s)'
  <1>1. \/ req[r].pc = "warm" /\ s = req[r].new
        \/ req[r].pc = "session_warm" /\ s = req[r].sid /\ req[r].seen = Nil
    BY VouchedKept, Alone DEF At
  <1>2. ~Revoked(sess[s])
    BY <1>1 DEF GateInv, Fetched, Revoked
  <1>3. ~HeldBy(r, s)
    BY <1>1, Facts DEF LocksFor, Locks
  <1>4. ~Commits(r)
    BY <1>1 DEF Commits, CommitNew, CommitRevocations, CommitUser, At
  <1>5. UNCHANGED sess
    BY <1>4, TablesStay
  <1>6. ~HeldBy(r, s)'
    BY <1>1, <1>3, LockTaker DEF Evict, Revoke, WriteAll, At
  <1>7. QED
    BY <1>2, <1>5, <1>6

\* A commit that revokes a session has its key on the list.
LEMMA CommitPurges ==
    ASSUME SystemInv, RoutedInv, GateInv, NEW r \in Reqs, Commits(r), NEW s \in Sids,
           Vouched(s), HeldBy(r, s)
    PROVE  ~Revoker(req'[r]) /\ Purges(req'[r], s)
  <1> PICK p : p = req[r]
    OBVIOUS
  <1> PICK q : q = req'[r]
    OBVIOUS
  <1>1. p.pc = "commit"
    BY DEF Commits, CommitNew, CommitRevocations, CommitUser, At
  <1>2. ~Revoker(p) /\ s \in p.purge
    BY <1>1 DEF GateInv, LockedUncached, Uncaches, Purges
  <1>3. ~CommitUser(r)
    BY <1>2 DEF CommitUser, Revoker
  <1>4. ~CommitNew(r)
    <2>1. SUFFICES ASSUME CommitNew(r) PROVE p.purge = {}
      BY <1>2
    <2>2. Inserting(p) /\ p.op \in {"login", "refresh"}
      BY <1>1, <2>1, Facts DEF CommitNew, Inserting, RequestSound
    <2>3. QED
      BY <2>2 DEF RoutedInv, Routed, Purposes
  <1>5. PurgingTo(p, q)
    BY <1>3, <1>4, CommitRevocationsEffect DEF Commits
  <1>6. QED
    BY <1>2, <1>5 DEF PurgingTo, Same, Task, Revoker, Purges

\* Each part of the invariant, whatever the one request does: the keys of
\* revoked sessions, ...
LEMMA KeysPurgedKept ==
    ASSUME SystemInv, RoutedInv, KeysInv, GateInv, Cardinality(Reqs) = 1, [Next]_vars,
           NEW r \in Reqs, Acts(r)
    PROVE  KeysPurged'
  <1> SUFFICES ASSUME NEW s \in Sids, Vouched(s)', Revoked(sess'[s])
               PROVE  ~Revoker(req'[r]) /\ Purges(req'[r], s)
    BY DEF KeysPurged
  <1>1. Vouched(s) /\ skey'[s] = skey[s]
    BY VouchedNow
  <1>2. CASE Revoked(sess[s])
    <2>1. ~Revoker(req[r]) /\ Purges(req[r], s)
      BY <1>1, <1>2, Alone DEF GateInv, KeysPurged
    <2>2. ~DbError(r)
      BY <2>1 DEF Purges, Revoker, DbError, InTransaction, PreCommit
    <2>3. Purge(r) \/ PurgeGrace(r)
      BY <2>1, <2>2, NextPlace DEF Purges
    <2>4. QED
      BY <1>1, <2>1, <2>3, PurgesOn DEF Vouched, Task, Revoker
  <1>3. CASE ~Revoked(sess[s])
    <2>1. sess'[s] # sess[s] /\ Stored(s)
      BY <1>1, <1>3 DEF Vouched
    <2>2. Commits(r)
      BY <2>1, TablesStay
    <2>3. HeldBy(r, s)
      BY <2>1, <2>2, CommitKeepsRow
    <2>4. QED
      BY <1>1, <2>2, <2>3, CommitPurges
  <1>4. QED
    BY <1>2, <1>3

\* The key of a row just locked is deleted at once, or on the list.
LEMMA LockUncaches ==
    ASSUME SystemInv, RoutedInv, GateInv, NEW r \in Reqs, Acts(r), NEW s \in Sids,
           Vouched(s), HeldBy(r, s)', ~HeldBy(r, s)
    PROVE  Uncaches(req'[r], s)
  <1> PICK p : p = req[r]
    OBVIOUS
  <1> PICK q : q = req'[r]
    OBVIOUS
  <1>1. CASE Evict(r) /\ s = Min(p.todo)
    <2>1. Same(p, q) /\ q.pc = "evicted"
      BY <1>1, GotoEffect DEF Evict, Places, PreCommit
    <2>2. QED
      BY <1>1, <2>1 DEF Same, Uncaches
  <1>2. CASE Revoke(r) /\ s = p.sid
    <2>1. /\ Same(p, q) /\ p.pc = "revoke"
          /\ q.pc = IF p.op = "refresh" THEN "revoked" ELSE "commit"
      BY <1>2, GotoEffect DEF Revoke, Places, PreCommit, At
    <2>2. Routed(p)
      BY DEF RoutedInv
    <2>3. p.op = "refresh" \/ (p.op = "logout" /\ p.purge = {s})
      BY <1>2, <2>1, <2>2 DEF Routed, Placed, Purposes, Inserting, Revoking, AtTheGate
    <2>4. QED
      BY <1>2, <2>1, <2>3 DEF Same, Task, Uncaches, Revoker
  <1>3. CASE WriteAll(r) /\ s = FirstByPk(p.todo)
    <2>1. p.pc = "write_all" /\ p.todo # {} /\ p.todo \in SUBSET Sids
      BY <1>3, Facts DEF WriteAll, At, RequestSound, Request
    <2>2. s \in p.todo
      BY <1>3, <2>1, FirstByPkIn
    <2>3. s \in p.purge \/ sess[s].expires <= clock
      BY <2>1, <2>2 DEF GateInv, Lists, Listed
    <2>4. sess[s].expires \in Nat /\ clock \in Nat /\ sess[s].expires > clock
      BY StoredTypes DEF Vouched, Stored, SystemInv, TypeOK, StoreTypeOK, Row, Time
    <2>5. s \in p.purge
      BY <2>3, <2>4
    <2>6. QED
      BY <1>3, <2>5, FlushUncaches
  <1>4. QED
    BY <1>1, <1>2, <1>3, LockTaker

\* ... those of locked rows, ...
LEMMA LockedUncachedKept ==
    ASSUME SystemInv, RoutedInv, KeysInv, GateInv, Cardinality(Reqs) = 1, [Next]_vars,
           NEW r \in Reqs, Acts(r)
    PROVE  LockedUncached'
  <1> SUFFICES ASSUME NEW s \in Sids, Vouched(s)', HeldBy(r, s)'
               PROVE  Uncaches(req'[r], s)
    BY Alone DEF LockedUncached
  <1> PICK p : p = req[r]
    OBVIOUS
  <1>1. Vouched(s) /\ skey'[s] = skey[s]
    BY VouchedNow
  <1>2. CASE ~HeldBy(r, s)
    BY <1>1, <1>2, LockUncaches
  <1>3. CASE HeldBy(r, s)
    <2>1. ~Commits(r) /\ ~DbError(r)
      BY LockSteps
    <2>2. Uncaches(p, s) /\ skey'[s] # Nil /\ skey \in [Sids -> SessionEntry \cup {Nil}]
      BY <1>1, <1>3 DEF GateInv, LockedUncached, Vouched, SystemInv, TypeOK, StoreTypeOK
    <2>3. CASE p.pc = "evicted" /\ s = Min(p.todo)
      <3>1. UncacheEvicted(r)
        BY <2>1, <2>3, NextPlace
      <3>2. QED
        BY <2>2, <2>3, <3>1 DEF UncacheEvicted, DeleteSessionKey
    <2>4. CASE p.pc = "revoked" /\ s = p.sid
      <3>1. UncacheRotated(r)
        BY <2>1, <2>4, NextPlace
      <3>2. QED
        BY <2>2, <2>4, <3>1 DEF UncacheRotated, DeleteSessionKey
    <2>5. CASE p.pc = "write_all" /\ s \in p.purge
      BY <2>1, <2>5, NextPlace, FlushUncaches
    <2>6. CASE p.pc = "commit"
      BY <2>1, <2>6, NextPlace
    <2>7. CASE Purges(p, s) /\ Revoker(p)
      <3>1. Purge(r) \/ PurgeGrace(r)
        BY <2>1, <2>7, NextPlace DEF Purges
      <3>2. Purges(req'[r], s) /\ Revoker(req'[r])
        BY <2>2, <2>7, <3>1, PurgesOn DEF Task, Revoker
      <3>3. QED
        BY <3>2 DEF Uncaches
    <2>8. QED
      BY <2>2, <2>3, <2>4, <2>5, <2>6, <2>7 DEF Uncaches
  <1>4. QED
    BY <1>2, <1>3

\* A user key is written with what was read of the account, and deleted after
\* the commit of an operation on it.
LEMMA UserKeySteps ==
    ASSUME SystemInv, NEW r \in Reqs, Acts(r), NEW u \in Users, ukey'[u] # Nil
    PROVE  \/ ukey'[u] = ukey[u] /\ ~(UncacheUser(r) /\ req[r].user = u)
           \/ /\ WarmUser(r) /\ u = req[r].user /\ ukey'[u].status = req[r].loaded
              /\ At(r, "user_warm")
  <1>0. ukey \in [Users -> UserEntry \cup {Nil}]
    BY DEF SystemInv, TypeOK, StoreTypeOK
  <1>1. CASE WarmUser(r)
    <2>1. At(r, "user_warm") /\ req[r].user \in Users
      BY <1>1, Facts DEF WarmUser, At, RequestSound, Request
    <2>2. ukey' = [ukey EXCEPT ![req[r].user] =
                      [status |-> req[r].loaded, until |-> clock + CACHE_TTL]]
      BY <1>1 DEF WarmUser
    <2>3. ~UncacheUser(r)
      BY <2>1 DEF UncacheUser, At
    <2>4. QED
      BY <1>0, <1>1, <2>1, <2>2, <2>3
  <1>2. CASE UncacheUser(r)
    BY <1>0, <1>2 DEF UncacheUser
  <1>3. CASE Warm(r) \/ WarmSession(r)
    <2>1. ukey' \in {ukey, NoUserKeys}
      BY <1>3 DEF Warm, WarmSession, SetSessionKey
    <2>2. ~UncacheUser(r)
      BY <1>3 DEF Warm, WarmSession, UncacheUser, At
    <2>3. QED
      BY <2>1, <2>2 DEF NoUserKeys
  <1>4. CASE ~WarmUser(r) /\ ~UncacheUser(r) /\ ~Warm(r) /\ ~WarmSession(r)
    <2>1. Arrival(r) \/ Locking(r) => UNCHANGED ukey
      BY CacheReads DEF cache
    <2>2. AuthStep(r) => UNCHANGED ukey
      BY <1>4 DEF AuthStep, ListSessions, UncacheEvicted, Replay, CheckUser, UncacheRotated,
         CommitNew, SetGrace, ListActive, SelectAll, CommitRevocations, Purge, PurgeGrace,
         DeleteSessionKey, storeVars, cache
    <2>3. GateStep(r) \/ StatusStep(r) => UNCHANGED ukey
      BY <1>4 DEF GateStep, ReadSession, ReadUserCache, ReadUser, Handle,
         StatusStep, SelectStatus, CommitUser, storeVars, cache
    <2>4. DbError(r) => UNCHANGED ukey
      BY DEF DbError, cache
    <2>5. QED
      BY <1>4, <2>1, <2>2, <2>3, <2>4 DEF Acts, Step
  <1>5. QED
    BY <1>1, <1>2, <1>3, <1>4

\* ... those of the accounts, ...
LEMMA UserKeysKept ==
    ASSUME SystemInv, RoutedInv, GateInv, Cardinality(Reqs) = 1, NEW r \in Reqs, Acts(r)
    PROVE  UserKeysTrue'
  <1> SUFFICES ASSUME NEW u \in Users, ukey'[u] # Nil
               PROVE  \/ ukey'[u].status = users'[u].status /\ Found(u)'
                      \/ req'[r].pc = "uncache_user" /\ req'[r].user = u
    BY Alone DEF UserKeysTrue, At
  <1>1. CASE ukey'[u] = ukey[u] /\ ~(UncacheUser(r) /\ req[r].user = u)
    <2>1. \/ ukey[u].status = users[u].status /\ Found(u)
          \/ At(r, "uncache_user") /\ req[r].user = u
      BY <1>1, Alone DEF GateInv, UserKeysTrue
    <2>2. ~(At(r, "uncache_user") /\ req[r].user = u)
      <3>1. SUFFICES ASSUME At(r, "uncache_user") PROVE UncacheUser(r)
        BY <1>1
      <3>2. ~DbError(r)
        BY <3>1 DEF At, DbError, InTransaction, PreCommit
      <3>3. QED
        BY <3>1, <3>2, NextPlace DEF At
    <2>3. CASE users'[u] = users[u]
      BY <1>1, <2>1, <2>2, <2>3 DEF Found
    <2>4. CASE users'[u] # users[u]
      <3>1. CommitUser(r)
        BY <2>4, TablesStay
      <3>2. req[r].user = u
        BY <2>4, <3>1 DEF CommitUser, SystemInv, TypeOK, StoreTypeOK
      <3>3. Same(req[r], req'[r]) /\ req'[r].pc = "uncache_user"
        BY <3>1, GotoEffect DEF CommitUser, Places, PostCommit
      <3>4. QED
        BY <3>2, <3>3 DEF Same, Task
    <2>5. QED
      BY <2>3, <2>4
  <1>2. CASE /\ WarmUser(r) /\ u = req[r].user /\ ukey'[u].status = req[r].loaded
             /\ At(r, "user_warm")
    <2>1. req[r].loaded = users[u].status /\ Found(u)
      BY <1>2 DEF GateInv, Fetched, At
    <2>2. UNCHANGED users
      BY <1>2 DEF WarmUser, db
    <2>3. QED
      BY <1>2, <2>1, <2>2 DEF Found
  <1>3. QED
    BY <1>1, <1>2, UserKeySteps

\* ... the list of a logout-all, ...
LEMMA ListsKept ==
    ASSUME SystemInv, RoutedInv, GateInv, NEW r \in Reqs, Acts(r)
    PROVE  Lists(req[r])'
  <1> PICK p : p = req[r]
    OBVIOUS
  <1> PICK q : q = req'[r]
    OBVIOUS
  <1>0. clock' = clock /\ clock \in Nat
    BY ActsInTime, StoredTypes DEF Time
  <1>1. ASSUME q.pc \notin {"select_all", "write_all"} PROVE Lists(q)'
    BY <1>1 DEF Lists
  <1>2. CASE ListActive(r)
    <2>1. Task(p, q) /\ q.purge = ActiveSessions(p.user) /\ q.pc = "select_all"
      BY <1>2, ListActiveEffect
    <2>2. UNCHANGED <<sess, clock>>
      BY <1>2 DEF ListActive, storeVars, db
    <2>3. ASSUME NEW s \in NonRevoked(q.user) PROVE s \in q.purge \/ sess[s].expires <= clock
      <3>1. s \in SessionsOf(p.user) /\ ~Revoked(sess[s])
        BY <2>1, <2>3 DEF NonRevoked, Task
      <3>2. sess[s].expires \in Nat
        BY <3>1 DEF SessionsOf, SystemInv, TypeOK, StoreTypeOK, Row, Time
      <3>3. QED
        BY <1>0, <2>1, <3>1, <3>2 DEF ActiveSessions
    <2>4. Listed(q, NonRevoked(q.user))'
      BY <2>2, <2>3 DEF Listed, NonRevoked, SessionsOf, Revoked
    <2>5. QED
      BY <2>1, <2>4 DEF Lists
  <1>3. ASSUME UNCHANGED <<sess, clock>>, NEW m, m.purge = p.purge, Listed(p, m.todo),
               WritingTo(m, q)
        PROVE  Lists(q)'
    <2>1. CASE q.pc = "write_all" /\ Same(m, q)
      <3>1. Listed(q, q.todo)
        BY <1>3, <2>1 DEF Same, Listed
      <3>2. QED
        BY <1>3, <2>1, <3>1 DEF Lists, Listed
    <2>2. CASE q.pc \notin {"select_all", "write_all"}
      BY <1>1, <2>2
    <2>3. QED
      BY <1>3, <2>1, <2>2, IdleFields DEF WritingTo, PurgingTo
  <1>4. CASE SelectAll(r)
    <2>1. p.pc = "select_all" /\ \E m : m.todo = NonRevoked(p.user) /\ m.purge = p.purge
          /\ WritingTo(m, q)
      BY <1>4, SelectAllEffect
    <2>2. UNCHANGED <<sess, clock>>
      BY <1>4 DEF SelectAll, storeVars, db
    <2>3. Listed(p, NonRevoked(p.user))
      BY <2>1 DEF GateInv, Lists
    <2>4. QED
      BY <1>3, <2>1, <2>2, <2>3
  <1>5. CASE WriteAll(r)
    <2>1. /\ p.pc = "write_all"
          /\ \E m : m.todo = p.todo \ {FirstByPk(p.todo)} /\ m.purge = p.purge /\ WritingTo(m, q)
      BY <1>5, WriteAllEffect
    <2>2. UNCHANGED <<sess, clock>>
      BY <1>5 DEF WriteAll
    <2>3. Listed(p, p.todo)
      BY <2>1 DEF GateInv, Lists
    <2>4. Listed(p, p.todo \ {FirstByPk(p.todo)})
      BY <2>3 DEF Listed
    <2>5. QED
      BY <1>3, <2>1, <2>2, <2>4
  <1>6. CASE Purge(r)
    BY <1>1, <1>6, GotoEffect DEF Purge, Places, Other
  <1>7. CASE PurgeGrace(r)
    <2>1. \E m : PurgingTo(m, q)
      BY <1>7, PurgeGraceEffect
    <2>2. QED
      BY <1>1, <2>1, IdleFields DEF PurgingTo
  <1>8. QED
    BY <1>1, <1>2, <1>4, <1>5, <1>6, <1>7, SweepsElsewhere, ReadPlaces

\* ... and what was read to be cached.
LEMMA FetchedKept ==
    ASSUME SystemInv, RoutedInv, GateInv, Cardinality(Reqs) = 1, [Next]_vars, NEW r \in Reqs,
           Acts(r)
    PROVE  Fetched(req[r])'
  <1> PICK p : p = req[r]
    OBVIOUS
  <1> PICK q : q = req'[r]
    OBVIOUS
  <1>1. \/ UNCHANGED <<req, sess>>
        \/ Moves(p, q) \/ CommitNew(r)
    BY NextMoves, Alone
  <1>2. q.pc = "session_warm" => q.seen = sess'[q.sid].revoked
    <2>1. CASE UNCHANGED <<req, sess>>
      BY <2>1 DEF GateInv, Fetched
    <2>2. CASE CommitNew(r)
      BY <2>2, CommitMoves DEF Commit
    <2>3. CASE Moves(p, q)
      BY <2>3 DEF Moves, Watched, Starts, Advances, Reads, Warms, SameTask, Inserting
    <2>4. QED
      BY <1>1, <2>1, <2>2, <2>3
  <1>3. q.pc = "warm" => ~Revoked(sess'[q.new])
    <2>1. CASE UNCHANGED <<req, sess>>
      BY <2>1 DEF GateInv, Fetched, Revoked
    <2>2. CASE CommitNew(r)
      <3>1. q.new = p.new /\ p.new \in Sids
        BY <2>2, CommitMoves, Facts DEF Commit, SameTask, CommitNew, Request
      <3>2. sess'[p.new] = NewRow(p)
        BY <2>2, <3>1, StampedFields DEF CommitNew, PublishWithInsert
      <3>3. QED
        BY <3>1, <3>2 DEF NewRow, Revoked
    <2>3. CASE Moves(p, q)
      BY <2>3 DEF Moves, Watched, Starts, Advances, Reads, Warms, SameTask, Inserting
    <2>4. QED
      BY <1>1, <2>1, <2>2, <2>3
  <1>4. q.pc = "user_warm" => q.loaded = users'[q.user].status /\ Found(q.user)'
    <2>1. SUFFICES ASSUME q.pc = "user_warm"
                   PROVE  q.loaded = users'[q.user].status /\ Found(q.user)'
      OBVIOUS
    <2>2. ReadUser(r)
      BY <2>1, ReadPlaces
    <2>3. Found(p.user) /\ Task(p, q) /\ q.loaded = users[p.user].status
      BY <2>1, <2>2, ReadUserEffect, IdleFields
    <2>4. UNCHANGED users
      BY <2>2 DEF ReadUser, storeVars, db
    <2>5. QED
      BY <2>3, <2>4 DEF Task, Found
  <1>5. QED
    BY <1>2, <1>3, <1>4 DEF Fetched, Found, Revoked

\* Time and outages only take keys away.
LEMMA GateQuiet ==
    ASSUME SystemInv, KeysInv, GateInv, [Next]_vars, UNCHANGED <<req, users, sess, locks>>,
           \A u \in Users : ukey'[u] \in {ukey[u], Nil}, \A s \in Sids : skey'[s] \in {skey[s], Nil}
    PROVE  GateInv'
  <1>1. clock \in Nat /\ clock' \in Nat /\ clock <= clock'
    BY ClockSteps
  <1>2. ASSUME NEW s \in Sids, Vouched(s)' PROVE Vouched(s)
    <2>1. sess[s] # Nil /\ skey[s] # Nil /\ skey[s].revoked = Nil /\ sess[s].expires > clock'
      BY <1>2 DEF Vouched, Stored
    <2>2. sess[s].expires \in Nat
      BY <2>1 DEF SystemInv, TypeOK, StoreTypeOK, Row, Time
    <2>3. QED
      BY <1>1, <2>1, <2>2 DEF Vouched, Stored
  <1>3. KeysPurged'
    BY <1>2 DEF GateInv, KeysPurged, Purges, Revoked, Revoker
  <1>4. LockedUncached'
    BY <1>2 DEF GateInv, LockedUncached, Uncaches, Purges, Revoker, HeldBy
  <1>5. UserKeysTrue'
    BY DEF GateInv, UserKeysTrue, At, Found
  <1>6. \A r \in Reqs : Fetched(req[r])'
    BY DEF GateInv, Fetched, Found, Revoked
  <1>7. ASSUME NEW q \in Request, NEW S \in SUBSET Sids, \A s \in S : sess[s] # Nil, Listed(q, S)
        PROVE  \A s \in S : s \in q.purge \/ sess[s].expires <= clock'
    <2>1. SUFFICES ASSUME NEW s \in S PROVE s \in q.purge \/ sess[s].expires <= clock'
      OBVIOUS
    <2>2. sess[s].expires \in Nat
      BY <1>7 DEF SystemInv, TypeOK, StoreTypeOK, Row, Time
    <2>3. QED
      BY <1>1, <1>7, <2>2 DEF Listed
  <1>8. ASSUME NEW r \in Reqs PROVE Lists(req[r])'
    <2> PICK q : q = req[r]
      OBVIOUS
    <2>1. q \in Request /\ q.todo \subseteq SessionsOf(q.user)
      BY Facts DEF RequestSound
    <2>2. q.todo \in SUBSET Sids /\ \A s \in q.todo : sess[s] # Nil
      BY <2>1 DEF SessionsOf
    <2>3. NonRevoked(q.user) \in SUBSET Sids /\ \A s \in NonRevoked(q.user) : sess[s] # Nil
      BY DEF NonRevoked, SessionsOf
    <2>4. Lists(q)
      BY DEF GateInv
    <2>5. q.pc = "write_all" => Listed(q, q.todo)'
      BY <1>7, <2>1, <2>2, <2>4 DEF Lists, Listed
    <2>6. q.pc = "select_all" => Listed(q, NonRevoked(q.user))'
      <3>1. NonRevoked(q.user)' = NonRevoked(q.user)
        BY DEF NonRevoked, SessionsOf, Revoked
      <3>2. QED
        BY <1>7, <2>1, <2>3, <2>4, <3>1 DEF Lists, Listed
    <2>7. QED
      BY <2>5, <2>6 DEF Lists
  <1>9. QED
    BY <1>3, <1>4, <1>5, <1>6, <1>8 DEF GateInv

\* All of it, step by step and in the first state.
LEMMA GateKept ==
    ASSUME SystemInv, RoutedInv, KeysInv, GateInv, [Next]_vars, Cardinality(Reqs) = 1
    PROVE  GateInv'
  <1>1. ASSUME NEW r \in Reqs, Acts(r) PROVE GateInv'
    <2>1. KeysPurged' /\ LockedUncached' /\ UserKeysTrue'
      BY <1>1, KeysPurgedKept, LockedUncachedKept, UserKeysKept
    <2>2. Lists(req[r])' /\ Fetched(req[r])'
      BY <1>1, ListsKept, FetchedKept
    <2>3. QED
      BY <2>1, <2>2, Alone DEF GateInv
  <1>2. CASE Tick /\ UNCHANGED <<req, issued>>
    BY <1>2, GateQuiet DEF Tick, db
  <1>3. CASE CacheOutage /\ UNCHANGED <<req, issued>>
    BY <1>3, GateQuiet DEF CacheOutage, db, NoUserKeys, NoSessionKeys
  <1>4. CASE UNCHANGED vars
    BY <1>4, GateQuiet DEF vars, storeVars, db, cache
  <1>5. QED
    BY <1>1, <1>2, <1>3, <1>4, StepActs

LEMMA GateInitially == Init => GateInv
  <1> SUFFICES ASSUME Init PROVE GateInv
    OBVIOUS
  <1>1. req = [r \in Reqs |-> Idle] /\ skey = [s \in Sids |-> Nil] /\ ukey = [u \in Users |-> Nil]
    BY DEF Init, AuthInit, StoreInit
  <1>2. \A r \in Reqs : req[r].pc = "idle"
    BY <1>1, IdleFields
  <1>3. QED
    BY <1>1, <1>2 DEF GateInv, KeysPurged, LockedUncached, UserKeysTrue, Vouched, Lists, Fetched

\* One request at a time the gate accepts no token of a revoked session, nor of
\* an account suspended, banned or deleted, whatever was cached before, and
\* whatever expired, failed or was rolled back on the way
\* (authentication.py:83-91).
THEOREM GateHonoursRevocations ==
    ASSUME Cardinality(Reqs) = 1
    PROVE  Spec => []GateHonoursRevocation
  <1>1. ASSUME SystemInv, GateInv PROVE GateHonoursRevocation
    <2> SUFFICES ASSUME AllIdle, NEW s \in issued, GateAccepts(s), clock # sess[s].expires,
                        NEW u, u = sess[s].user
                 PROVE  ~Revoked(sess[s]) /\ ~users[u].deleted /\ users[u].status = "active"
      BY DEF GateHonoursRevocation
    <2>1. s \in Sids /\ Stored(s) /\ u \in Users /\ sess[s].expires \in Nat /\ clock \in Nat
      BY <1>1 DEF SystemInv, TypeOK, StoreTypeOK, TokensSound, Stored, Row, Time
    <2>2. sess[s].expires > clock
      BY <2>1 DEF GateAccepts, Expired
    <2>3. ~Revoked(sess[s])
      BY <1>1, <2>1, <2>2 DEF GateAccepts, GateInv, KeysPurged, Vouched, Purges, AllIdle, At
    <2>4. ~users[u].deleted /\ users[u].status = "active"
      BY <1>1, <2>1 DEF GateAccepts, GateInv, UserKeysTrue, Found, AllIdle, At
    <2>5. QED
      BY <2>3, <2>4
  <1>2. Init => SystemInv /\ RoutedInv /\ GateInv
    BY InitSound, RoutedInit, GateInitially
  <1>3. SystemInv /\ RoutedInv /\ KeysInv /\ GateInv /\ [Next]_vars
        => (SystemInv /\ RoutedInv /\ GateInv)'
    BY NextKeeps, StutterKeeps, RoutedKept, GateKept
  <1>4. QED
    BY <1>1, <1>2, <1>3, KeysInvariant, PTL DEF Spec
=============================================================================
