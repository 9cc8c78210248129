-------------------------- MODULE AuthSystemProofs --------------------------
(***************************************************************************)
(* SystemInv is an invariant of Spec for any number of requests, accounts, *)
(* sessions and ticks, and with it the type invariant.                     *)
(*                                                                         *)
(* A step touches one request, so what it must establish is about that     *)
(* request; SystemStep is the part of the argument that is the same for    *)
(* all actions, and LocalStep its case of an action that only computes.    *)
(***************************************************************************)
EXTENDS AuthSystem, WellFoundedInduction, TLAPS

-----------------------------------------------------------------------------
(* The next of a set of sessions is one of them. *)

\* A nonempty set of naturals, finite or not, has a least element.
LEMMA SmallestNat ==
    ASSUME NEW T \in SUBSET Nat, T # {}
    PROVE  \E x \in T : \A y \in T : x <= y
  <1> DEFINE R == {ss \in Nat \X Nat : ss[1] < ss[2]}
  <1>1. IsWellFoundedOn(R, Nat)
    BY NatLessThanWellFounded DEF OpToRel
  <1> HIDE DEF R
  <1>2. PICK x \in T : \A y \in T : ~(<<y, x>> \in R)
    BY <1>1, WFMin
  <1>3. ASSUME NEW y \in T PROVE x <= y
    <2>1. x \in Nat /\ y \in Nat /\ ~(<<y, x>> \in R)
      BY <1>2
    <2>2. ~(y < x)
      BY <2>1 DEF R
    <2>3. QED
      BY <2>1, <2>2
  <1>4. QED
    BY <1>3

\* The session evict and purge take next is one of those that are left.
LEMMA MinIn ==
    ASSUME NEW S \in SUBSET Sids, S # {}
    PROVE  Min(S) \in S
  <1>1. Sids \subseteq Nat
    BY NatAssumption DEF Sids
  <1>2. \E x \in S : \A y \in S : x <= y
    BY <1>1, SmallestNat
  <1>3. QED
    BY <1>2 DEF Min

\* So is the one the flush takes next.
LEMMA FirstByPkIn ==
    ASSUME NEW S \in SUBSET Sids, S # {}
    PROVE  FirstByPk(S) \in S
  <1> DEFINE ranks == {PkRank[s] : s \in S}
  <1>1. ranks \in SUBSET Nat /\ ranks # {}
    BY PkAssumption
  <1>2. PICK x \in ranks : \A y \in ranks : x <= y
    BY <1>1, SmallestNat
  <1>3. \E s \in S : \A t \in S : PkRank[s] <= PkRank[t]
    BY <1>2
  <1>4. QED
    BY <1>3 DEF FirstByPk

-----------------------------------------------------------------------------
(* Steps of one request *)

\* A step of request r keeps the invariant if it leaves the other requests and
\* their locks alone, rows stay and appear only under r's id, and what it makes
\* of r is sound.
LEMMA SystemStep ==
    ASSUME SystemInv, NEW r \in Reqs,
           StoreTypeOK', TokensSound', issued' \subseteq Sids,
           NEW q \in Request, req' = [req EXCEPT ![r] = q],
           RequestSound(req[r])', LocksFor(r, req[r])',
           \A p \in Reqs \ {r}, s \in Sids : HeldBy(p, s)' <=> HeldBy(p, s),
           \A s \in Sids : Stored(s) => Stored(s)' /\ sess'[s].user = sess[s].user,
           \A s \in Sids : Stored(s)' /\ ~Stored(s) => At(r, "commit") /\ s = req[r].new,
           \/ nextSid' = nextSid /\ q.new \in {Nil, req[r].new} /\ ~(q.pc = "commit" /\ q.new # Nil)
           \/ nextSid' = nextSid + 1 /\ q.new = nextSid /\ sess' = sess
    PROVE  SystemInv'
  <1>1. req'[r] = q /\ \A p \in Reqs \ {r} : req'[p] = req[p]
    BY DEF SystemInv, TypeOK
  <1>2. TypeOK'
    BY DEF SystemInv, TypeOK
  <1>3. \A p \in Reqs : RequestSound(req[p])'
    <2> SUFFICES ASSUME NEW p \in Reqs \ {r} PROVE RequestSound(req[p])'
      OBVIOUS
    <2>1. RequestSound(req[p]) /\ req'[p] = req[p] /\ req[p] \in Request
      BY <1>1 DEF SystemInv, TypeOK
    <2>2. \A u : SessionsOf(u) \subseteq SessionsOf(u)'
      BY DEF SessionsOf, Stored
    <2>3. \A s \in Sids : Stored(s) => Stored(s)'
      OBVIOUS
    <2>4. QED
      BY <2>1, <2>2, <2>3 DEF RequestSound, Request
  <1>4. LocksSound'
    <2> SUFFICES ASSUME NEW p \in Reqs \ {r} PROVE LocksFor(p, req[p])'
      BY DEF LocksSound
    <2>1. LocksFor(p, req[p]) /\ req'[p] = req[p]
      BY <1>1 DEF SystemInv, LocksSound
    <2>2. \A u : SessionsOf(u) \subseteq SessionsOf(u)'
      BY DEF SessionsOf, Stored
    <2>3. QED
      BY <2>1, <2>2 DEF LocksFor
  <1>5. IdsFresh'
    <2>1. nextSid \in Nat /\ nextSid' \in Nat /\ nextSid <= nextSid'
      BY DEF SystemInv, TypeOK, StoreTypeOK
    <2>2. \A s \in Sids : Stored(s)' => s < nextSid'
      <3> SUFFICES ASSUME NEW s \in Sids, Stored(s)' PROVE s < nextSid'
        OBVIOUS
      <3>1. s \in Nat /\ s # Nil
        BY NatAssumption, NilAssumption DEF Sids
      <3>2. CASE Stored(s)
        BY <2>1, <3>1, <3>2 DEF SystemInv, IdsFresh
      <3>3. CASE ~Stored(s)
        BY <2>1, <3>1, <3>3 DEF SystemInv, IdsFresh
      <3>4. QED
        BY <3>2, <3>3
    <2>3. \A p \in Reqs : req'[p].new # Nil => req'[p].new < nextSid'
      BY <1>1, <2>1, NatAssumption DEF SystemInv, IdsFresh, TypeOK, Request, Sids
    <2>4. ASSUME NEW p \in Reqs, req'[p].new # Nil, req'[p].pc = "commit"
          PROVE  /\ ~Stored(req[p].new)'
                 /\ \A t \in Reqs : t # p => req'[t].new # req'[p].new
      <3>1. CASE p = r
        BY <3>1, <1>1, <2>4, NatAssumption DEF SystemInv, IdsFresh, Sids, TypeOK, Request, Stored
      <3>2. CASE p # r
        BY <3>2, <1>1, <2>4, NatAssumption DEF SystemInv, IdsFresh, Sids, TypeOK, Request, At
      <3>3. QED
        BY <3>1, <3>2
    <2>5. QED
      BY <2>2, <2>3, <2>4 DEF IdsFresh, At
  <1>6. QED
    BY <1>2, <1>3, <1>4, <1>5 DEF SystemInv

\* The case of a step that leaves the tables and their locks as they are.
LEMMA LocalStep ==
    ASSUME SystemInv, NEW r \in Reqs, NEW q \in Request, Become(r, q),
           UNCHANGED <<clock, nextSid, db>>,
           StoreTypeOK', TokensSound', issued' \subseteq Sids,
           q.new = Nil \/ (q.new = req[r].new /\ q.pc # "commit"),
           RequestSound(q), LocksFor(r, q)
    PROVE  SystemInv'
  <1>1. req'[r] = q
    BY DEF SystemInv, TypeOK, Become
  <1>2. RequestSound(req[r])'
    BY <1>1 DEF RequestSound, SessionsOf, Stored, db
  <1>3. LocksFor(r, req[r])'
    BY <1>1 DEF LocksFor, HeldBy, SessionsOf, db
  <1>4. \A p \in Reqs \ {r}, s \in Sids : HeldBy(p, s)' <=> HeldBy(p, s)
    BY DEF HeldBy, db
  <1>5. sess' = sess /\ nextSid' = nextSid /\ \A s \in Sids : Stored(s)' <=> Stored(s)
    BY DEF db, Stored
  <1>6. QED
    BY <1>2, <1>3, <1>4, <1>5, SystemStep DEF Become

\* The case of a step that only decides where the request goes on.
LEMMA ControlStep ==
    ASSUME SystemInv, NEW r \in Reqs, NEW q \in Request, Become(r, q),
           UNCHANGED <<storeVars, issued>>,
           q.new = Nil \/ (q.new = req[r].new /\ q.pc # "commit"),
           RequestSound(q), LocksFor(r, q)
    PROVE  SystemInv'
  <1>1. StoreTypeOK' /\ TokensSound' /\ issued' \subseteq Sids
    BY DEF SystemInv, TypeOK, StoreTypeOK, TokensSound, Stored, storeVars, db, cache
  <1>2. UNCHANGED <<clock, nextSid, db>>
    BY DEF storeVars
  <1>3. QED
    BY <1>1, <1>2, LocalStep

\* The fields of a fresh request, so that no proof below unfolds the record.
LEMMA IdleFields ==
    /\ Idle \in Request
    /\ Idle.op = Nil /\ Idle.pc = "idle" /\ Idle.user = Nil /\ Idle.sid = Nil
    /\ Idle.new = Nil /\ Idle.todo = {} /\ Idle.purge = {}
    /\ Idle.target = Nil /\ Idle.loaded = Nil
  BY DEF Idle, Request, Other, Time

\* The fields of a request that has just started.
LEMMA BeginFields ==
    ASSUME NEW op \in AllOps, NEW u \in Users, NEW s \in Sids \cup {Nil},
           NEW pc \in PreCommit \cup PostCommit \cup Other
    PROVE  LET q == Begin(op, u, s, pc)
           IN /\ q \in Request
              /\ q.op = op /\ q.pc = pc /\ q.user = u /\ q.sid = s
              /\ q.new = Nil /\ q.todo = {} /\ q.purge = {}
              /\ q.target = Nil /\ q.loaded = Nil
  BY DEF Begin, Idle, Request, Time

\* What p has in common with q when only the place in the code differs.
SameData(p, q) ==
    /\ p.op = q.op /\ p.user = q.user /\ p.sid = q.sid /\ p.new = q.new
    /\ p.todo = q.todo /\ p.purge = q.purge /\ p.target = q.target /\ p.loaded = q.loaded

Places == PreCommit \cup PostCommit \cup Other

\* A move keeps the type and the data.
LEMMA MovedFields ==
    ASSUME NEW q \in Request, NEW pc \in Places
    PROVE  LET p == [q EXCEPT !.pc = pc]
           IN p \in Request /\ p.pc = pc /\ SameData(p, q)
  BY DEF Request, SameData, Places

\* What a step may store in a request has the type of its field.
LEMMA StoredTypes ==
    ASSUME SystemInv
    PROVE  /\ clock \in Time
           /\ \A u \in Users : users[u].status \in Statuses
           /\ \A u : SessionsOf(u) \in SUBSET Sids
           /\ \A u : NonRevoked(u) \in SUBSET SessionsOf(u)
  <1>1. clock \in Time /\ \A u \in Users : users[u].status \in Statuses
    BY DEF SystemInv, TypeOK, StoreTypeOK
  <1>2. \A u : SessionsOf(u) \in SUBSET Sids
    BY DEF SessionsOf
  <1>3. \A u : NonRevoked(u) \in SUBSET SessionsOf(u)
    BY DEF NonRevoked
  <1>4. QED
    BY <1>1, <1>2, <1>3

\* Goto in terms of Become.
LEMMA GotoBecomes ==
    ASSUME TypeOK, NEW r \in Reqs, NEW pc, Goto(r, pc)
    PROVE  Become(r, [req[r] EXCEPT !.pc = pc])
  BY DEF TypeOK, Goto, Become

\* A request without locks may return at any time.
LEMMA IdleSound ==
    ASSUME SystemInv, NEW r \in Reqs, ~Locks(req[r])
    PROVE  RequestSound(Idle) /\ LocksFor(r, Idle)
  <1>1. RequestSound(Idle)
    BY IdleFields, OpsAssumption DEF RequestSound, AllOps
  <1>2. LocksFor(r, Idle)
    BY IdleFields DEF LocksFor, SystemInv, LocksSound, Rotating
  <1>3. QED
    BY <1>1, <1>2

-----------------------------------------------------------------------------
(* Arrivals *)

\* authenticate starts with an account and nothing else.
LEMMA LoginKeeps ==
    ASSUME SystemInv, NEW r \in Reqs, NEW u \in Users, Login(r, u)
    PROVE  SystemInv'
  <1> DEFINE q == Begin("login", u, Nil, "list")
  <1>1. /\ q \in Request /\ q.op = "login" /\ q.pc = "list" /\ q.user = u /\ q.sid = Nil
        /\ q.new = Nil /\ q.todo = {} /\ q.purge = {}
    BY BeginFields DEF PreCommit, AllOps
  <1>2. Become(r, q) /\ UNCHANGED <<storeVars, issued>>
    BY DEF Login
  <1> HIDE DEF q
  <1>3. RequestSound(q)
    BY <1>1, NilAssumption DEF RequestSound
  <1>4. LocksFor(r, q)
    BY <1>1 DEF Login, At, LocksFor, Locks, Rotating, SystemInv, LocksSound
  <1>5. QED
    BY <1>1, <1>2, <1>3, <1>4, ControlStep

\* refresh_token starts with a session that some client was given.
LEMMA RefreshKeeps ==
    ASSUME SystemInv, NEW r \in Reqs, NEW s \in Sids, Refresh(r, s)
    PROVE  SystemInv'
  <1>1. PICK pc \in {"replay", "list_active", "user"} :
           Become(r, Begin("refresh", sess[s].user, s, pc))
    BY DEF Refresh
  <1> DEFINE q == Begin("refresh", sess[s].user, s, pc)
  <1>2. Stored(s) /\ sess[s].user \in Users
    BY DEF Refresh, SystemInv, TypeOK, TokensSound, StoreTypeOK, Stored, Row
  <1>3. /\ q \in Request /\ q.op = "refresh" /\ q.pc = pc /\ q.user = sess[s].user
        /\ q.sid = s /\ q.new = Nil /\ q.todo = {} /\ q.purge = {}
    BY <1>2, BeginFields DEF PreCommit, Other, AllOps
  <1> HIDE DEF q
  <1>4. RequestSound(q)
    BY <1>2, <1>3, NilAssumption, NatAssumption DEF RequestSound, SessionsOf, Stored, Sids
  <1>5. LocksFor(r, q)
    BY <1>3 DEF Refresh, At, LocksFor, Locks, Rotating, SystemInv, LocksSound
  <1>6. QED
    BY <1>1, <1>3, <1>4, <1>5, ControlStep DEF Refresh, q

\* logout takes the key to delete along.
LEMMA LogoutKeeps ==
    ASSUME SystemInv, NEW r \in Reqs, NEW s \in Sids, Logout(r, s)
    PROVE  SystemInv'
  <1> DEFINE b == Begin("logout", sess[s].user, s, "revoke")
             q == [b EXCEPT !.purge = {s}, !.at = clock]
             p == [q EXCEPT !.pc = "purge"]
  <1>1. Stored(s) /\ sess[s].user \in Users /\ clock \in Time
    BY DEF Logout, SystemInv, TypeOK, TokensSound, StoreTypeOK, Stored, Row
  <1>2. /\ b \in Request /\ b.op = "logout" /\ b.pc = "revoke" /\ b.user = sess[s].user
        /\ b.sid = s /\ b.new = Nil /\ b.todo = {}
    BY <1>1, BeginFields DEF PreCommit, AllOps
  <1>3. PICK x \in {q, p} : Become(r, x)
    BY DEF Logout, Purging
  <1> HIDE DEF b
  <1>4. /\ q \in Request /\ q.op = "logout" /\ q.pc = "revoke" /\ q.user = sess[s].user
        /\ q.sid = s /\ q.new = Nil /\ q.todo = {} /\ q.purge = {s}
    <2> DEFINE m == [b EXCEPT !.purge = {s}]
    <2>1. /\ m \in Request /\ m.op = "logout" /\ m.pc = "revoke" /\ m.user = sess[s].user
          /\ m.sid = s /\ m.new = Nil /\ m.todo = {} /\ m.purge = {s}
      BY <1>2 DEF Request
    <2>2. q = [m EXCEPT !.at = clock]
      OBVIOUS
    <2> HIDE DEF m, q
    <2>3. QED
      BY <1>1, <2>1, <2>2 DEF Request
  <1> HIDE DEF q
  <1>5. p \in Request /\ p.pc = "purge" /\ SameData(p, q)
    BY <1>4, MovedFields DEF Places, Other
  <1> HIDE DEF p
  <1>6. /\ x \in Request /\ x.op = "logout" /\ x.pc \in {"revoke", "purge"}
        /\ x.user = sess[s].user /\ x.sid = s /\ x.new = Nil /\ x.todo = {} /\ x.purge = {s}
    BY <1>4, <1>5 DEF SameData
  <1>7. RequestSound(x)
    BY <1>1, <1>6, NilAssumption, NatAssumption DEF RequestSound, SessionsOf, Stored, Sids
  <1>8. LocksFor(r, x)
    BY <1>6 DEF Logout, At, LocksFor, Locks, Rotating, SystemInv, LocksSound
  <1>9. QED
    BY <1>3, <1>6, <1>7, <1>8, ControlStep DEF Logout

\* get_current_user starts like refresh_token.
LEMMA GateKeeps ==
    ASSUME SystemInv, NEW r \in Reqs, NEW s \in Sids, NEW op \in AllOps, Gate(r, s, op)
    PROVE  SystemInv'
  <1>1. PICK pc \in {"session_db", "user_cache"} : Become(r, Begin(op, sess[s].user, s, pc))
    BY DEF Gate
  <1> DEFINE q == Begin(op, sess[s].user, s, pc)
  <1>2. Stored(s) /\ sess[s].user \in Users
    BY DEF Gate, SystemInv, TypeOK, TokensSound, StoreTypeOK, Stored, Row
  <1>3. /\ q \in Request /\ q.op = op /\ q.pc = pc /\ q.user = sess[s].user
        /\ q.sid = s /\ q.new = Nil /\ q.todo = {} /\ q.purge = {}
    BY <1>2, BeginFields DEF Other
  <1>4. op \in {"gate", "logout_all"}
    BY DEF Gate
  <1> HIDE DEF q
  <1>5. RequestSound(q)
    BY <1>2, <1>3, <1>4, NilAssumption, NatAssumption DEF RequestSound, SessionsOf, Stored, Sids
  <1>6. LocksFor(r, q)
    BY <1>3 DEF Gate, At, LocksFor, Locks, Rotating, SystemInv, LocksSound
  <1>7. QED
    BY <1>1, <1>3, <1>5, <1>6, ControlStep DEF Gate, q

\* change_status keeps the status to write.
LEMMA ChangeStatusKeeps ==
    ASSUME SystemInv, NEW r \in Reqs, NEW u \in Users, NEW to \in Statuses,
           ChangeStatus(r, u, to)
    PROVE  SystemInv'
  <1> DEFINE b == Begin("change", u, Nil, "select_status")
             q == [b EXCEPT !.target = to]
  <1>1. /\ b \in Request /\ b.op = "change" /\ b.pc = "select_status" /\ b.user = u
        /\ b.sid = Nil /\ b.new = Nil /\ b.todo = {} /\ b.purge = {}
    BY BeginFields DEF PreCommit, AllOps
  <1>2. Become(r, q) /\ UNCHANGED <<storeVars, issued>>
    BY DEF ChangeStatus
  <1> HIDE DEF b
  <1>3. /\ q \in Request /\ q.op = "change" /\ q.pc = "select_status" /\ q.user = u
        /\ q.sid = Nil /\ q.new = Nil /\ q.todo = {} /\ q.purge = {} /\ q.target = to
    BY <1>1 DEF Request
  <1> HIDE DEF q
  <1>4. RequestSound(q)
    BY <1>3, NilAssumption DEF RequestSound
  <1>5. LocksFor(r, q)
    BY <1>3 DEF ChangeStatus, At, LocksFor, Locks, Rotating, SystemInv, LocksSound
  <1>6. QED
    BY <1>2, <1>3, <1>4, <1>5, ControlStep

\* delete_user starts with an account.
LEMMA DeleteUserKeeps ==
    ASSUME SystemInv, NEW r \in Reqs, NEW u \in Users, DeleteUser(r, u)
    PROVE  SystemInv'
  <1> DEFINE q == Begin("delete", u, Nil, "write_deleted")
  <1>1. /\ q \in Request /\ q.op = "delete" /\ q.pc = "write_deleted" /\ q.user = u
        /\ q.sid = Nil /\ q.new = Nil /\ q.todo = {} /\ q.purge = {}
    BY BeginFields DEF PreCommit, AllOps
  <1>2. Become(r, q) /\ UNCHANGED <<storeVars, issued>>
    BY DEF DeleteUser
  <1> HIDE DEF q
  <1>3. RequestSound(q)
    BY <1>1, NilAssumption DEF RequestSound
  <1>4. LocksFor(r, q)
    BY <1>1 DEF DeleteUser, At, LocksFor, Locks, Rotating, SystemInv, LocksSound
  <1>5. QED
    BY <1>1, <1>2, <1>3, <1>4, ControlStep

\* A client's call keeps the invariant.
LEMMA ArrivalKeeps ==
    ASSUME SystemInv, NEW r \in Reqs, Arrival(r)
    PROVE  SystemInv'
  BY LoginKeeps, RefreshKeeps, LogoutKeeps, GateKeeps, ChangeStatusKeeps, DeleteUserKeeps
     DEF Arrival, AuthArrival, GateArrival, StatusArrival, AllOps

-----------------------------------------------------------------------------
(* Steps that compute: a read, and the decision it leads to *)

\* What the invariant says of one request.
LEMMA Facts ==
    ASSUME SystemInv, NEW r \in Reqs
    PROVE  req[r] \in Request /\ RequestSound(req[r]) /\ LocksFor(r, req[r])
  BY DEF SystemInv, TypeOK, LocksSound

\* It answers, holding no lock.
LEMMA ReturnKeeps ==
    ASSUME SystemInv, NEW r \in Reqs, Return(r), ~Locks(req[r]), UNCHANGED <<clock, nextSid, db>>,
           StoreTypeOK', TokensSound', issued' \subseteq Sids
    PROVE  SystemInv'
  BY IdleFields, IdleSound, LocalStep DEF Return

\* The replayed pair is that of a stored session (TokensSound).
LEMMA ReplayKeeps ==
    ASSUME SystemInv, NEW r \in Reqs, Replay(r)
    PROVE  SystemInv'
  <1>1. StoreTypeOK' /\ TokensSound' /\ issued' \subseteq Sids
    <2>1. req[r].sid \in Sids
      BY Facts DEF Replay, At, RequestSound, Request
    <2>2. gkey[req[r].sid] # Nil => gkey[req[r].sid].pair \in Sids /\ Stored(gkey[req[r].sid].pair)
      BY <2>1 DEF SystemInv, TypeOK, StoreTypeOK, TokensSound, GraceEntry
    <2>3. QED
      BY <2>1, <2>2 DEF SystemInv, TypeOK, StoreTypeOK, TokensSound, Replay, Stored, storeVars, db, cache
  <1>2. ~Locks(req[r])
    BY DEF Replay, At, Locks
  <1>3. QED
    BY <1>1, <1>2, ReturnKeeps DEF Replay, storeVars

\* The refresh goes on to revoke the session it was called with.
LEMMA CheckUserKeeps ==
    ASSUME SystemInv, NEW r \in Reqs, CheckUser(r)
    PROVE  SystemInv'
  <1> DEFINE q == [req[r] EXCEPT !.at = clock, !.pc = "revoke"]
  <1>1. UNCHANGED <<storeVars, issued>> /\ (Return(r) \/ Become(r, q))
    BY DEF CheckUser
  <1>2. q \in Request /\ q.pc = "revoke" /\ SameData(q, req[r])
    <2>1. clock \in Time
      BY StoredTypes
    <2>2. QED
      BY <2>1, Facts DEF Request, SameData, PreCommit
  <1> HIDE DEF q
  <1>3. RequestSound(q) /\ LocksFor(r, q) /\ q.new = Nil
    BY <1>2, Facts DEF CheckUser, At, RequestSound, SameData, LocksFor, Locks, Rotating
  <1>4. RequestSound(Idle) /\ LocksFor(r, Idle)
    BY IdleSound DEF CheckUser, At, Locks
  <1>5. QED
    BY <1>1, <1>2, <1>3, <1>4, IdleFields, ControlStep DEF Return

\* The keys to purge may be any; only rows matter to the invariant.
LEMMA ListActiveKeeps ==
    ASSUME SystemInv, NEW r \in Reqs, ListActive(r)
    PROVE  SystemInv'
  <1> DEFINE q == [req[r] EXCEPT !.purge = ActiveSessions(req[r].user), !.pc = "select_all"]
  <1>1. ActiveSessions(req[r].user) \subseteq Sids
    BY DEF ActiveSessions, SessionsOf
  <1>2. /\ q \in Request /\ q.pc = "select_all" /\ q.op = req[r].op /\ q.user = req[r].user
        /\ q.sid = req[r].sid /\ q.new = req[r].new /\ q.todo = req[r].todo
        /\ q.target = req[r].target /\ q.loaded = req[r].loaded
    BY <1>1, Facts DEF Request, PreCommit
  <1>3. Become(r, q)
    BY DEF ListActive
  <1> HIDE DEF q
  <1>4. RequestSound(q) /\ LocksFor(r, q)
    BY <1>2, Facts DEF ListActive, At, RequestSound, LocksFor, Locks, Rotating
  <1>5. QED
    BY <1>2, <1>3, <1>4, ControlStep DEF ListActive

\* Where Purging and Writing send a request.
LEMMA PurgingFields ==
    ASSUME NEW q \in Request
    PROVE  LET p == Purging(q)
           IN /\ p \in Request
              /\ \/ p = Idle /\ q.op \notin {"change", "delete"}
                 \/ p.pc = "purge" /\ q.purge # {} /\ SameData(p, q)
                 \/ p.pc = "commit" /\ q.op \in {"change", "delete"} /\ SameData(p, q)
  <1> DEFINE a == [q EXCEPT !.pc = "purge"]
             c == [q EXCEPT !.pc = "commit"]
  <1>1. a \in Request /\ a.pc = "purge" /\ SameData(a, q)
    BY MovedFields DEF Places, Other
  <1>2. c \in Request /\ c.pc = "commit" /\ SameData(c, q)
    BY MovedFields DEF Places, PreCommit
  <1>3. Purging(q) = IF q.purge # {} THEN a
                     ELSE IF q.op \in {"change", "delete"} THEN c ELSE Idle
    BY DEF Purging
  <1> HIDE DEF a, c
  <1>4. QED
    BY <1>1, <1>2, <1>3, IdleFields

\* A flush ends where the purge, or the commit, begins.
LEMMA WritingFields ==
    ASSUME NEW q \in Request
    PROVE  LET p == Writing(q)
           IN /\ p \in Request /\ SameData(p, q)
              /\ \/ p.pc = "write_all" /\ q.todo # {}
                 \/ p.pc = "purge" /\ q.purge # {} /\ q.op \in {"change", "delete"}
                 \/ p.pc = "commit"
  <1> DEFINE a == [q EXCEPT !.pc = "write_all"]
             c == [q EXCEPT !.pc = "commit"]
  <1>1. a \in Request /\ a.pc = "write_all" /\ SameData(a, q)
    BY MovedFields DEF Places, PreCommit
  <1>2. c \in Request /\ c.pc = "commit" /\ SameData(c, q)
    BY MovedFields DEF Places, PreCommit
  <1>3. Writing(q) = IF q.todo # {} THEN a
                     ELSE IF q.op \in {"change", "delete"} THEN Purging(q) ELSE c
    BY DEF Writing
  <1> HIDE DEF a, c
  <1>4. QED
    BY <1>1, <1>2, <1>3, PurgingFields

\* The selected rows are the user's.
LEMMA SelectAllKeeps ==
    ASSUME SystemInv, NEW r \in Reqs, SelectAll(r)
    PROVE  SystemInv'
  <1> DEFINE q == [req[r] EXCEPT !.todo = NonRevoked(req[r].user), !.at = clock]
             p == Writing(q)
  <1>1. NonRevoked(req[r].user) \subseteq SessionsOf(req[r].user)
    BY StoredTypes
  <1>2. /\ q \in Request /\ q.op = req[r].op /\ q.user = req[r].user
        /\ q.sid = req[r].sid /\ q.new = req[r].new /\ q.purge = req[r].purge
        /\ q.target = req[r].target /\ q.todo = NonRevoked(req[r].user)
    <2>1. NonRevoked(req[r].user) \in SUBSET Sids /\ clock \in Time
      BY <1>1, StoredTypes
    <2>2. QED
      BY <2>1, Facts DEF Request
  <1>3. Become(r, p)
    BY DEF SelectAll
  <1> HIDE DEF q
  <1>4. /\ p \in Request /\ SameData(p, q)
        /\ \/ p.pc = "write_all" /\ q.todo # {}
           \/ p.pc = "purge" /\ q.purge # {} /\ q.op \in {"change", "delete"}
           \/ p.pc = "commit"
    BY <1>2, WritingFields
  <1> HIDE DEF p
  <1>5. RequestSound(p) /\ LocksFor(r, p) /\ p.new = Nil
    BY <1>1, <1>2, <1>4, Facts
       DEF SelectAll, At, SameData, RequestSound, LocksFor, Locks, Rotating
  <1>6. QED
    BY <1>3, <1>4, <1>5, ControlStep DEF SelectAll

\* The status read has the type of a status.
LEMMA SelectStatusKeeps ==
    ASSUME SystemInv, NEW r \in Reqs, SelectStatus(r)
    PROVE  SystemInv'
  <1> DEFINE q == [req[r] EXCEPT !.loaded = users[req[r].user].status, !.pc = "write_status"]
  <1>1. req[r].user \in Users
    BY Facts DEF SelectStatus, At, RequestSound, Request
  <1>2. /\ q \in Request /\ q.pc = "write_status" /\ q.op = req[r].op /\ q.user = req[r].user
        /\ q.sid = req[r].sid /\ q.new = req[r].new /\ q.todo = req[r].todo
        /\ q.purge = req[r].purge /\ q.target = req[r].target
    <2>1. users[req[r].user].status \in Statuses
      BY <1>1, StoredTypes
    <2>2. QED
      BY <2>1, Facts DEF Request, PreCommit
  <1>3. Become(r, q)
    BY DEF SelectStatus
  <1> HIDE DEF q
  <1>4. RequestSound(q) /\ LocksFor(r, q)
    BY <1>2, Facts DEF SelectStatus, At, RequestSound, LocksFor, Locks, Rotating
  <1>5. QED
    BY <1>2, <1>3, <1>4, ControlStep DEF SelectStatus

\* The session read is stored (RequestSound).
LEMMA ReadSessionKeeps ==
    ASSUME SystemInv, NEW r \in Reqs, ReadSession(r)
    PROVE  SystemInv'
  <1> DEFINE q == [req[r] EXCEPT !.seen = sess[req[r].sid].revoked, !.pc = "session_warm"]
  <1>1. req[r].sid \in Sids /\ sess[req[r].sid] \in Row
    <2>1. req[r].sid \in SessionsOf(req[r].user)
      BY Facts DEF ReadSession, At, RequestSound
    <2>2. QED
      BY <2>1 DEF SessionsOf, SystemInv, TypeOK, StoreTypeOK
  <1>2. q \in Request /\ q.pc = "session_warm" /\ SameData(q, req[r])
    <2>1. sess[req[r].sid].revoked \in Time \cup {Nil}
      BY <1>1 DEF Row
    <2>2. QED
      BY <2>1, Facts DEF Request, SameData, Other
  <1>3. Become(r, q)
    BY DEF ReadSession
  <1> HIDE DEF q
  <1>4. RequestSound(q) /\ LocksFor(r, q)
    BY <1>2, Facts DEF ReadSession, At, SameData, RequestSound, LocksFor, Locks, Rotating
  <1>5. QED
    BY <1>2, <1>3, <1>4, ControlStep DEF ReadSession, SameData

\* The status read is not Nil, so WarmUser caches a status.
LEMMA ReadUserKeeps ==
    ASSUME SystemInv, NEW r \in Reqs, ReadUser(r)
    PROVE  SystemInv'
  <1> DEFINE q == [req[r] EXCEPT !.loaded = users[req[r].user].status, !.pc = "user_warm"]
  <1>1. req[r].user \in Users
    BY Facts DEF ReadUser, At, RequestSound, Request
  <1>2. /\ q \in Request /\ q.pc = "user_warm" /\ q.op = req[r].op /\ q.user = req[r].user
        /\ q.sid = req[r].sid /\ q.new = req[r].new /\ q.todo = req[r].todo
        /\ q.purge = req[r].purge /\ q.target = req[r].target /\ q.loaded \in Statuses
    <2>1. users[req[r].user].status \in Statuses
      BY <1>1, StoredTypes
    <2>2. QED
      BY <2>1, Facts DEF Request, Other
  <1>3. Return(r) \/ Become(r, q)
    BY DEF ReadUser
  <1> HIDE DEF q
  <1>4. RequestSound(q) /\ LocksFor(r, q)
    BY <1>2, Facts, NilAssumption DEF ReadUser, At, RequestSound, LocksFor, Locks, Rotating
  <1>5. RequestSound(Idle) /\ LocksFor(r, Idle)
    BY IdleSound DEF ReadUser, At, Locks
  <1>6. QED
    BY <1>2, <1>3, <1>4, <1>5, IdleFields, ControlStep DEF ReadUser, Return

\* Places that ask nothing of a request beyond its user.
LEMMA PlainSound ==
    ASSUME SystemInv, NEW r \in Reqs, ~Locks(req[r]), req[r].pc # "idle", req[r].new = Nil,
           NEW pc \in {"user_cache", "user_db", "granted", "list_active"}
    PROVE  LET p == [req[r] EXCEPT !.pc = pc]
           IN p \in Request /\ p.new = Nil /\ RequestSound(p) /\ LocksFor(r, p)
  <1> DEFINE p == [req[r] EXCEPT !.pc = pc]
  <1>1. p \in Request /\ p.pc = pc /\ SameData(p, req[r])
    BY Facts, MovedFields DEF Places, Other, PreCommit
  <1> HIDE DEF p
  <1>2. RequestSound(p) /\ LocksFor(r, p)
    BY <1>1, Facts DEF SameData, RequestSound, LocksFor, Locks, Rotating
  <1>3. p \in Request /\ p.new = Nil /\ RequestSound(p) /\ LocksFor(r, p)
    BY <1>1, <1>2 DEF SameData
  <1>4. QED
    BY <1>3 DEF p

\* Decide, after a step that may have written the cache.
LEMMA DecideKeeps ==
    ASSUME SystemInv, NEW r \in Reqs, NEW status, Decide(r, status), ~Locks(req[r]),
           req[r].pc # "idle", req[r].new = Nil, UNCHANGED <<clock, nextSid, db, issued>>,
           StoreTypeOK', TokensSound'
    PROVE  SystemInv'
  <1>1. issued' \subseteq Sids
    BY DEF SystemInv, TypeOK
  <1>2. CASE Return(r)
    BY <1>1, <1>2, ReturnKeeps
  <1>3. CASE Goto(r, "granted")
    BY <1>1, <1>3, GotoBecomes, PlainSound, LocalStep DEF SystemInv
  <1>4. QED
    BY <1>2, <1>3 DEF Decide

\* The part of the invariant that ControlStep does not ask for.
LEMMA Unchanged ==
    ASSUME SystemInv, UNCHANGED <<storeVars, issued>>
    PROVE  StoreTypeOK' /\ TokensSound' /\ issued' \subseteq Sids
           /\ UNCHANGED <<clock, nextSid, db, issued>>
  BY DEF SystemInv, TypeOK, StoreTypeOK, TokensSound, Stored, storeVars, db, cache

\* A miss goes to the database, a hit decides.
LEMMA ReadUserCacheKeeps ==
    ASSUME SystemInv, NEW r \in Reqs, ReadUserCache(r)
    PROVE  SystemInv'
  <1>1. ~Locks(req[r]) /\ req[r].pc # "idle" /\ req[r].new = Nil
    BY Facts DEF ReadUserCache, At, Locks, RequestSound
  <1>2. UNCHANGED <<storeVars, issued>>
    BY DEF ReadUserCache
  <1>3. CASE Goto(r, "user_db")
    BY <1>1, <1>2, <1>3, GotoBecomes, PlainSound, ControlStep DEF SystemInv
  <1>4. CASE Decide(r, ukey[req[r].user].status)
    BY <1>1, <1>2, <1>4, Unchanged, DecideKeeps
  <1>5. QED
    BY <1>3, <1>4 DEF ReadUserCache

\* logout_all goes on, any other route answers.
LEMMA HandleKeeps ==
    ASSUME SystemInv, NEW r \in Reqs, Handle(r)
    PROVE  SystemInv'
  <1>1. ~Locks(req[r]) /\ req[r].pc # "idle" /\ req[r].new = Nil
    BY Facts DEF Handle, At, Locks, RequestSound
  <1>2. UNCHANGED <<storeVars, issued>>
    BY DEF Handle
  <1>3. CASE Goto(r, "list_active")
    BY <1>1, <1>2, <1>3, GotoBecomes, PlainSound, ControlStep DEF SystemInv
  <1>4. CASE Return(r)
    BY <1>1, <1>2, <1>4, Unchanged, ReturnKeeps
  <1>5. QED
    BY <1>3, <1>4 DEF Handle

-----------------------------------------------------------------------------
(* Steps that write the cache *)

\* A SET writes an entry of the right type or empties the cache.
LEMMA SetSessionKeyTyped ==
    ASSUME SystemInv, NEW s \in Sids, NEW revoked \in Time \cup {Nil}, NEW ttl \in Time,
           SetSessionKey(s, revoked, ttl), UNCHANGED <<clock, nextSid, db>>,
           issued' \subseteq Sids, \A t \in issued' : Stored(t)
    PROVE  StoreTypeOK' /\ TokensSound'
  <1>1. UntilOf(ttl) \in Until
    BY DEF UntilOf, Until, Time, SystemInv, TypeOK, StoreTypeOK
  <1>2. [revoked |-> revoked, until |-> UntilOf(ttl)] \in SessionEntry
    BY <1>1 DEF SessionEntry
  <1>3. NoSessionKeys \in [Sids -> {Nil}] /\ NoUserKeys \in [Users -> {Nil}]
    BY DEF NoSessionKeys, NoUserKeys
  <1>4. skey' \in [Sids -> SessionEntry \cup {Nil}]
    BY <1>2, <1>3 DEF SetSessionKey, SystemInv, TypeOK, StoreTypeOK
  <1>5. gkey' \in [Sids -> GraceEntry \cup {Nil}] /\ ukey' \in [Users -> UserEntry \cup {Nil}]
    BY <1>3 DEF SetSessionKey, SystemInv, TypeOK, StoreTypeOK
  <1>6. \A t \in Sids : gkey'[t] = gkey[t] \/ gkey'[t] = Nil
    BY <1>3 DEF SetSessionKey, SystemInv, TypeOK, StoreTypeOK
  <1>7. StoreTypeOK'
    BY <1>4, <1>5 DEF SetSessionKey, SystemInv, TypeOK, StoreTypeOK, db
  <1>8. TokensSound'
    BY <1>6 DEF SystemInv, TokensSound, Stored, db
  <1>9. QED
    BY <1>7, <1>8

\* The gate caches what it read.
LEMMA WarmSessionKeeps ==
    ASSUME SystemInv, NEW r \in Reqs, WarmSession(r)
    PROVE  SystemInv'
  <1>1. ~Locks(req[r]) /\ req[r].pc # "idle" /\ req[r].new = Nil
    BY Facts DEF WarmSession, At, Locks, RequestSound
  <1>2. req[r].sid \in Sids /\ req[r].seen \in Time \cup {Nil}
    BY Facts DEF WarmSession, At, RequestSound, Request
  <1>3. CACHE_TTL \in Time
    BY NatAssumption DEF Time
  <1>4. issued' \subseteq Sids /\ \A t \in issued' : Stored(t)
    BY DEF WarmSession, SystemInv, TypeOK, TokensSound
  <1>5. StoreTypeOK' /\ TokensSound' /\ UNCHANGED <<clock, nextSid, db>>
    BY <1>2, <1>3, <1>4, SetSessionKeyTyped DEF WarmSession
  <1>6. CASE Goto(r, "user_cache")
    BY <1>1, <1>4, <1>5, <1>6, GotoBecomes, PlainSound, LocalStep DEF SystemInv
  <1>7. CASE Return(r)
    BY <1>1, <1>4, <1>5, <1>7, ReturnKeeps
  <1>8. QED
    BY <1>6, <1>7 DEF WarmSession

\* The session just committed is cached, and a login's token issued.
LEMMA WarmKeeps ==
    ASSUME SystemInv, NEW r \in Reqs, Warm(r)
    PROVE  SystemInv'
  <1> DEFINE p == [req[r] EXCEPT !.pc = "set_grace"]
  <1>1. ~Locks(req[r]) /\ req[r].new \in Sids /\ Stored(req[r].new) /\ req[r].ttl \in Time
    BY Facts DEF Warm, At, Locks, RequestSound, Request
  <1>2. Nil \in Time \cup {Nil}
    OBVIOUS
  <1>3. issued' \subseteq Sids /\ \A t \in issued' : Stored(t)
    BY <1>1 DEF Warm, SystemInv, TypeOK, TokensSound
  <1>4. StoreTypeOK' /\ TokensSound' /\ UNCHANGED <<clock, nextSid, db>>
    BY <1>1, <1>2, <1>3, SetSessionKeyTyped DEF Warm
  <1>5. CASE Return(r)
    BY <1>1, <1>3, <1>4, <1>5, ReturnKeeps
  <1>6. CASE Goto(r, "set_grace") /\ req[r].op # "login"
    <2>1. Become(r, p)
      BY <1>6, GotoBecomes DEF SystemInv
    <2>2. p \in Request /\ p.pc = "set_grace" /\ SameData(p, req[r])
      BY Facts, MovedFields DEF Places, PostCommit
    <2> HIDE DEF p
    <2>3. RequestSound(p) /\ LocksFor(r, p)
      BY <1>1, <1>6, <2>2, Facts DEF Warm, At, SameData, RequestSound, LocksFor, Locks, Rotating
    <2>4. QED
      BY <1>3, <1>4, <2>1, <2>2, <2>3, LocalStep DEF SameData
  <1>7. QED
    BY <1>5, <1>6 DEF Warm

\* The gate caches the status it read and decides.
LEMMA WarmUserKeeps ==
    ASSUME SystemInv, NEW r \in Reqs, WarmUser(r)
    PROVE  SystemInv'
  <1>1. ~Locks(req[r]) /\ req[r].pc # "idle" /\ req[r].new = Nil
    BY Facts DEF WarmUser, At, Locks, RequestSound
  <1>2. req[r].user \in Users /\ req[r].loaded \in Statuses
    BY Facts DEF WarmUser, At, RequestSound, Request
  <1>3. [status |-> req[r].loaded, until |-> clock + CACHE_TTL] \in UserEntry
    BY <1>2, NatAssumption DEF UserEntry, Until, Time, SystemInv, TypeOK, StoreTypeOK
  <1>4. StoreTypeOK' /\ TokensSound'
    BY <1>2, <1>3 DEF WarmUser, SystemInv, TypeOK, StoreTypeOK, TokensSound, Stored, db
  <1>5. QED
    BY <1>1, <1>4, DecideKeeps DEF WarmUser

\* The grace entry and the token name the session just committed.
LEMMA SetGraceKeeps ==
    ASSUME SystemInv, NEW r \in Reqs, SetGrace(r)
    PROVE  SystemInv'
  <1>1. /\ ~Locks(req[r]) /\ req[r].new \in Sids /\ Stored(req[r].new)
        /\ req[r].sid \in Sids
    BY Facts DEF SetGrace, At, Locks, RequestSound, Request
  <1> DEFINE e == [pair |-> req[r].new, until |-> clock + GRACE]
  <1>2. e \in GraceEntry /\ e.pair = req[r].new
    BY <1>1, NatAssumption DEF GraceEntry, Until, Time, SystemInv, TypeOK, StoreTypeOK
  <1>3. gkey' = [gkey EXCEPT ![req[r].sid] = e]
    BY DEF SetGrace
  <1> HIDE DEF e
  <1>4. StoreTypeOK'
    BY <1>1, <1>2, <1>3 DEF SetGrace, SystemInv, TypeOK, StoreTypeOK, db
  <1>5. TokensSound'
    BY <1>1, <1>2, <1>3 DEF SetGrace, SystemInv, TypeOK, StoreTypeOK, TokensSound, Stored, db
  <1>6. issued' \subseteq Sids
    BY <1>1 DEF SetGrace, SystemInv, TypeOK
  <1>7. QED
    BY <1>1, <1>4, <1>5, <1>6, ReturnKeeps DEF SetGrace

\* Deleting keys disturbs nothing.
LEMMA DeleteSessionKeyTyped ==
    ASSUME SystemInv, NEW s \in Sids, DeleteSessionKey(s), UNCHANGED <<clock, db, issued>>,
           nextSid' \in Nat \ {0}
    PROVE  StoreTypeOK' /\ TokensSound' /\ issued' \subseteq Sids
  BY DEF DeleteSessionKey, SystemInv, TypeOK, StoreTypeOK, TokensSound, Stored, db

\* A deletion of session:{id}.
LEMMA PurgeKeeps ==
    ASSUME SystemInv, NEW r \in Reqs, Purge(r)
    PROVE  SystemInv'
  <1> DEFINE p == [req[r] EXCEPT !.pc = "purge_grace"]
  <1>1. req[r].purge \in SUBSET Sids /\ req[r].purge # {} /\ req[r].new = Nil
    BY Facts DEF Purge, At, RequestSound, Request
  <1>2. Min(req[r].purge) \in Sids
    BY <1>1, MinIn
  <1>3. StoreTypeOK' /\ TokensSound' /\ issued' \subseteq Sids
    BY <1>2, DeleteSessionKeyTyped DEF Purge, SystemInv, TypeOK, StoreTypeOK
  <1>4. Become(r, p)
    BY GotoBecomes DEF Purge, SystemInv
  <1>5. p \in Request /\ p.pc = "purge_grace" /\ SameData(p, req[r])
    BY Facts, MovedFields DEF Places, Other
  <1> HIDE DEF p
  <1>6. RequestSound(p) /\ LocksFor(r, p)
    BY <1>1, <1>5, Facts DEF Purge, At, SameData, RequestSound, LocksFor, Locks, Rotating
  <1>7. QED
    BY <1>1, <1>3, <1>4, <1>5, <1>6, LocalStep DEF Purge, SameData

\* A deletion of grace:{id}, and what follows the last one.
LEMMA PurgeGraceKeeps ==
    ASSUME SystemInv, NEW r \in Reqs, PurgeGrace(r)
    PROVE  SystemInv'
  <1> DEFINE q == [req[r] EXCEPT !.purge = req[r].purge \ {Min(req[r].purge)}]
             p == Purging(q)
  <1>1. req[r].new = Nil
    BY Facts DEF PurgeGrace, At, RequestSound
  <1>2. StoreTypeOK' /\ TokensSound' /\ issued' \subseteq Sids
    BY DEF PurgeGrace, SystemInv, TypeOK, StoreTypeOK, TokensSound, Stored, db
  <1>3. Become(r, p)
    BY Facts DEF PurgeGrace, Request
  <1>4. /\ q \in Request /\ q.op = req[r].op /\ q.user = req[r].user /\ q.sid = req[r].sid
        /\ q.new = req[r].new /\ q.todo = req[r].todo /\ q.target = req[r].target
    BY Facts DEF Request
  <1> HIDE DEF q
  <1>5. /\ p \in Request
        /\ \/ p = Idle /\ q.op \notin {"change", "delete"}
           \/ p.pc = "purge" /\ q.purge # {} /\ SameData(p, q)
           \/ p.pc = "commit" /\ q.op \in {"change", "delete"} /\ SameData(p, q)
    BY <1>4, PurgingFields
  <1> HIDE DEF p
  <1>6. CASE p = Idle /\ q.op \notin {"change", "delete"}
    <2>1. ~Locks(req[r])
      BY <1>4, <1>6 DEF PurgeGrace, At, Locks
    <2>2. QED
      BY <1>2, <1>3, <1>6, <2>1, ReturnKeeps DEF PurgeGrace, Return
  <1>7. CASE p.pc \in {"purge", "commit"} /\ SameData(p, q) /\ (p.pc = "purge" => q.purge # {})
             /\ (p.pc = "commit" => q.op \in {"change", "delete"})
    <2>1. RequestSound(p) /\ LocksFor(r, p) /\ p.new = Nil
      BY <1>1, <1>4, <1>7, Facts
         DEF PurgeGrace, At, SameData, RequestSound, LocksFor, Locks, Rotating
    <2>2. QED
      BY <1>2, <1>3, <1>5, <2>1, LocalStep DEF PurgeGrace
  <1>8. QED
    BY <1>5, <1>6, <1>7

\* A deletion of user:{id}.
LEMMA UncacheUserKeeps ==
    ASSUME SystemInv, NEW r \in Reqs, UncacheUser(r)
    PROVE  SystemInv'
  <1>1. StoreTypeOK' /\ TokensSound' /\ issued' \subseteq Sids
    BY DEF UncacheUser, SystemInv, TypeOK, StoreTypeOK, TokensSound, Stored, db
  <1>2. ~Locks(req[r])
    BY DEF UncacheUser, At, Locks
  <1>3. QED
    BY <1>1, <1>2, ReturnKeeps DEF UncacheUser
-----------------------------------------------------------------------------
(* Steps that insert a session, or go on to evict another one *)

\* The id inserted is new, and the request's own.
LEMMA InsertKeeps ==
    ASSUME SystemInv, NEW r \in Reqs, NEW q \in Request, NEW ttl \in Time, Insert(r, q, ttl),
           q.user # Nil, q.todo \subseteq SessionsOf(q.user), LocksFor(r, q),
           \/ q.op = "login" /\ q.sid = Nil
           \/ q.op = "refresh" /\ q.pc = "revoked" /\ q.sid \in SessionsOf(q.user),
           UNCHANGED <<clock, db>>, StoreTypeOK', TokensSound', issued' \subseteq Sids
    PROVE  SystemInv'
  <1> DEFINE x == [q EXCEPT !.new = nextSid, !.at = clock, !.ttl = ttl, !.pc = "commit"]
  <1>1. /\ x \in Request /\ x.pc = "commit" /\ x.new = nextSid /\ x.op = q.op
        /\ x.user = q.user /\ x.sid = q.sid /\ x.todo = q.todo /\ x.target = q.target
    BY DEF Insert, Request, PreCommit, SystemInv, TypeOK, StoreTypeOK
  <1>2. req' = [req EXCEPT ![r] = x] /\ nextSid' = nextSid + 1
    BY DEF Insert, Become
  <1> HIDE DEF x
  <1>3. req'[r] = x
    BY <1>2 DEF SystemInv, TypeOK
  <1>4. RequestSound(x) /\ LocksFor(r, x)
    <2>1. q.op = "refresh" => q.sid # Nil
      BY NatAssumption, NilAssumption DEF SessionsOf, Sids
    <2>2. RequestSound(x)
      BY <1>1, <2>1 DEF RequestSound
    <2>3. LocksFor(r, x)
      BY <1>1 DEF LocksFor, Locks, Rotating
    <2>4. QED
      BY <2>2, <2>3
  <1>5. RequestSound(req[r])'
    BY <1>3, <1>4 DEF RequestSound, SessionsOf, Stored, db
  <1>6. LocksFor(r, req[r])'
    BY <1>3, <1>4 DEF LocksFor, HeldBy, SessionsOf, db
  <1>7. \A p \in Reqs \ {r}, s \in Sids : HeldBy(p, s)' <=> HeldBy(p, s)
    BY DEF HeldBy, db
  <1>8. sess' = sess /\ \A s \in Sids : Stored(s)' <=> Stored(s)
    BY DEF db, Stored
  <1>9. QED
    BY <1>1, <1>2, <1>5, <1>6, <1>7, <1>8, SystemStep

\* Below the limit a login inserts, otherwise it evicts sessions of its user.
LEMMA ListSessionsKeeps ==
    ASSUME SystemInv, NEW r \in Reqs, ListSessions(r)
    PROVE  SystemInv'
  <1> DEFINE active == ActiveSessions(req[r].user)
             evict == Oldest(active, Overflow(active))
             q == [req[r] EXCEPT !.todo = evict, !.at = clock, !.pc = "evict"]
  <1>1. evict \subseteq SessionsOf(req[r].user) /\ SessionsOf(req[r].user) \subseteq Sids
    BY DEF Oldest, ActiveSessions, SessionsOf
  <1>2. req[r].op = "login" /\ req[r].pc = "list" /\ req[r].new = Nil
    BY Facts DEF ListSessions, At, RequestSound
  <1>3. UNCHANGED <<clock, db, cache, issued>>
    BY DEF ListSessions
  <1>4. CASE Insert(r, req[r], LIFETIME)
    <2>1. LIFETIME \in Time
      BY NatAssumption DEF Time
    <2>2. StoreTypeOK' /\ TokensSound' /\ issued' \subseteq Sids
      BY <1>3, <1>4 DEF Insert, SystemInv, TypeOK, StoreTypeOK, TokensSound, Stored, db, cache
    <2>3. /\ req[r] \in Request /\ req[r].user # Nil /\ req[r].sid = Nil
          /\ req[r].todo \subseteq SessionsOf(req[r].user) /\ LocksFor(r, req[r])
      BY <1>2, Facts DEF RequestSound
    <2>4. QED
      BY <1>2, <1>3, <1>4, <2>1, <2>2, <2>3, InsertKeeps
  <1>5. CASE Become(r, q) /\ UNCHANGED nextSid /\ evict # {}
    <2> HIDE DEF evict
    <2>0. evict \in SUBSET Sids /\ clock \in Time
      BY <1>1 DEF SystemInv, TypeOK, StoreTypeOK
    <2>1. /\ q \in Request /\ q.pc = "evict" /\ q.op = req[r].op /\ q.user = req[r].user
          /\ q.sid = req[r].sid /\ q.new = req[r].new /\ q.todo = evict
      <3> DEFINE m == [req[r] EXCEPT !.todo = evict]
                 n == [m EXCEPT !.at = clock]
      <3>1. /\ m \in Request /\ m.op = req[r].op /\ m.user = req[r].user
            /\ m.sid = req[r].sid /\ m.new = req[r].new /\ m.todo = evict
        BY <2>0, Facts DEF Request
      <3>2. q = [n EXCEPT !.pc = "evict"]
        OBVIOUS
      <3> HIDE DEF m, q
      <3>3. n \in Request /\ SameData(n, m)
        BY <2>0, <3>1 DEF Request, SameData
      <3> HIDE DEF n
      <3>4. QED
        BY <3>1, <3>2, <3>3, MovedFields DEF SameData, Places, PreCommit
    <2> HIDE DEF q
    <2>2. RequestSound(q) /\ LocksFor(r, q)
      BY <1>1, <1>2, <1>5, <2>1, Facts DEF RequestSound, LocksFor, Locks, Rotating
    <2>3. UNCHANGED <<storeVars, issued>>
      BY <1>3, <1>5 DEF storeVars
    <2>4. QED
      BY <1>5, <2>1, <2>2, <2>3, ControlStep
  <1>6. QED
    BY <1>4, <1>5 DEF ListSessions

\* After an eviction there is another one, or room for the new session.
LEMMA UncacheEvictedKeeps ==
    ASSUME SystemInv, NEW r \in Reqs, UncacheEvicted(r)
    PROVE  SystemInv'
  <1> DEFINE rest == req[r].todo \ {Min(req[r].todo)}
             q == [req[r] EXCEPT !.todo = rest]
             p == [q EXCEPT !.at = clock, !.pc = "evict"]
  <1>1. /\ req[r].op = "login" /\ req[r].pc = "evicted" /\ req[r].new = Nil
        /\ req[r].todo \in SUBSET Sids /\ req[r].todo # {}
    BY Facts DEF UncacheEvicted, At, RequestSound, Request
  <1>2. Min(req[r].todo) \in Sids
    BY <1>1, MinIn
  <1>3. UNCHANGED <<clock, db, issued>>
    BY DEF UncacheEvicted
  <1>4. /\ q \in Request /\ q.pc = "evicted" /\ q.op = "login" /\ q.user = req[r].user
        /\ q.sid = req[r].sid /\ q.new = Nil /\ q.todo = rest
    BY <1>1, Facts DEF Request
  <1>5. (rest = {} /\ Insert(r, q, LIFETIME)) \/ (rest # {} /\ Become(r, p) /\ UNCHANGED nextSid)
    BY DEF UncacheEvicted
  <1> HIDE DEF q
  <1>6. nextSid' \in Nat \ {0}
    BY <1>5 DEF Insert, SystemInv, TypeOK, StoreTypeOK
  <1>7. StoreTypeOK' /\ TokensSound' /\ issued' \subseteq Sids
    BY <1>2, <1>3, <1>6, DeleteSessionKeyTyped DEF UncacheEvicted
  <1>8. CASE rest = {} /\ Insert(r, q, LIFETIME)
    <2>1. LIFETIME \in Time
      BY NatAssumption DEF Time
    <2>2. LocksFor(r, q) /\ q.user # Nil /\ q.sid = Nil
      BY <1>1, <1>4, Facts DEF RequestSound, LocksFor, Locks, Rotating
    <2>3. QED
      BY <1>3, <1>4, <1>7, <1>8, <2>1, <2>2, InsertKeeps
  <1>9. CASE rest # {} /\ Become(r, p) /\ UNCHANGED nextSid
    <2>1. /\ p \in Request /\ p.pc = "evict" /\ p.op = "login" /\ p.user = req[r].user
          /\ p.sid = req[r].sid /\ p.new = Nil /\ p.todo = rest
      <3>1. p \in Request /\ p.pc = "evict" /\ SameData(p, q)
        <4> DEFINE m == [q EXCEPT !.at = clock]
        <4>1. clock \in Time
          BY StoredTypes
        <4>2. m \in Request /\ SameData(m, q)
          BY <1>4, <4>1 DEF Request, SameData
        <4>3. p = [m EXCEPT !.pc = "evict"]
          OBVIOUS
        <4> HIDE DEF m, p
        <4>4. QED
          BY <4>2, <4>3, MovedFields DEF SameData, Places, PreCommit
      <3>2. QED
        BY <1>4, <3>1 DEF SameData
    <2> HIDE DEF p
    <2>2. RequestSound(p) /\ LocksFor(r, p)
      BY <1>1, <1>9, <2>1, Facts DEF RequestSound, LocksFor, Locks, Rotating
    <2>3. QED
      BY <1>3, <1>7, <1>9, <2>1, <2>2, LocalStep
  <1>10. QED
    BY <1>5, <1>8, <1>9

\* A rotation inserts holding the lock of the session it replaces.
LEMMA UncacheRotatedKeeps ==
    ASSUME SystemInv, NEW r \in Reqs, UncacheRotated(r)
    PROVE  SystemInv'
  <1> DEFINE ttl == Remaining(req[r].sid)
  <1>1. /\ req[r] \in Request /\ req[r].op = "refresh" /\ req[r].pc = "revoked"
        /\ req[r].user # Nil /\ req[r].sid \in SessionsOf(req[r].user)
        /\ req[r].todo \subseteq SessionsOf(req[r].user) /\ LocksFor(r, req[r])
    BY Facts DEF UncacheRotated, At, RequestSound
  <1>2. req[r].sid \in Sids /\ sess[req[r].sid] \in Row
    BY <1>1 DEF SessionsOf, SystemInv, TypeOK, StoreTypeOK
  <1>3. ttl \in Time
    BY <1>2 DEF Remaining, Row, Time, SystemInv, TypeOK, StoreTypeOK
  <1>4. Insert(r, req[r], ttl) /\ UNCHANGED <<clock, db, issued>>
    BY DEF UncacheRotated
  <1> HIDE DEF ttl
  <1>5. nextSid' \in Nat \ {0}
    BY <1>4 DEF Insert, SystemInv, TypeOK, StoreTypeOK
  <1>6. StoreTypeOK' /\ TokensSound' /\ issued' \subseteq Sids
    BY <1>2, <1>4, <1>5, DeleteSessionKeyTyped DEF UncacheRotated
  <1>7. QED
    BY <1>1, <1>3, <1>4, <1>6, InsertKeeps
-----------------------------------------------------------------------------
(* Steps that take a row lock *)

\* A granted lock changes who holds one row, and nothing else.
LEMMA LockTaken ==
    ASSUME SystemInv, NEW r \in Reqs, NEW s \in Sids, NEW at \in Time, UpdateRevoked(r, s, at),
           UNCHANGED <<clock, nextSid, users, sess, ulocks, cache, issued>>
    PROVE  /\ StoreTypeOK' /\ TokensSound' /\ issued' \subseteq Sids
           /\ \A t \in Sids : HeldBy(r, t)' <=> HeldBy(r, t) \/ t = s
           /\ \A p \in Reqs \ {r}, t \in Sids : HeldBy(p, t)' <=> HeldBy(p, t)
  <1> DEFINE l == [by |-> r, at |-> at]
  <1>1. l \in Lock /\ l.by = r /\ l # Nil
    BY NilAssumption DEF Lock
  <1>2. locks[s] = Nil /\ locks' = [locks EXCEPT ![s] = l]
    BY DEF UpdateRevoked
  <1> HIDE DEF l
  <1>3. StoreTypeOK' /\ TokensSound' /\ issued' \subseteq Sids
    BY <1>1, <1>2 DEF SystemInv, TypeOK, StoreTypeOK, TokensSound, Stored, cache
  <1>4. QED
    BY <1>1, <1>2, <1>3 DEF HeldBy, SystemInv, TypeOK, StoreTypeOK

\* The row is one of the user's, and what the request becomes may hold it.
LEMMA LockKeeps ==
    ASSUME SystemInv, NEW r \in Reqs, NEW s \in Sids, NEW at \in Time, UpdateRevoked(r, s, at),
           UNCHANGED <<clock, nextSid, users, sess, ulocks, cache, issued>>,
           NEW q \in Request, Become(r, q), q.new = Nil, RequestSound(q), Locks(q),
           q.user = req[r].user, s \in SessionsOf(q.user),
           Rotating(q) => s = q.sid /\ \A t \in Sids : ~HeldBy(r, t)
    PROVE  SystemInv'
  <1>1. req'[r] = q
    BY DEF SystemInv, TypeOK, Become
  <1>2. RequestSound(req[r])'
    BY <1>1 DEF RequestSound, SessionsOf, Stored
  <1>3. LocksFor(r, req[r])'
    BY <1>1, LockTaken, Facts DEF LocksFor, SessionsOf
  <1>4. \A t \in Sids : Stored(t)' <=> Stored(t)
    BY DEF Stored
  <1>5. QED
    BY <1>2, <1>3, <1>4, LockTaken, SystemStep DEF Become

\* authenticate locks the sessions it evicts.
LEMMA EvictKeeps ==
    ASSUME SystemInv, NEW r \in Reqs, Evict(r)
    PROVE  SystemInv'
  <1> DEFINE s == Min(req[r].todo)
             q == [req[r] EXCEPT !.pc = "evicted"]
  <1>1. /\ req[r].pc = "evict" /\ req[r].new = Nil /\ req[r].at \in Time
        /\ req[r].todo \in SUBSET Sids /\ req[r].todo # {}
        /\ req[r].todo \subseteq SessionsOf(req[r].user)
    BY Facts DEF Evict, At, RequestSound, Request
  <1>2. s \in req[r].todo
    BY <1>1, MinIn
  <1>3. Become(r, q)
    BY GotoBecomes DEF Evict, SystemInv
  <1>4. q \in Request /\ q.pc = "evicted" /\ SameData(q, req[r])
    BY Facts, MovedFields DEF Places, PreCommit
  <1>5. UpdateRevoked(r, s, req[r].at)
        /\ UNCHANGED <<clock, nextSid, users, sess, ulocks, cache, issued>>
    BY DEF Evict
  <1> HIDE DEF q, s
  <1>6. /\ RequestSound(q) /\ Locks(q) /\ ~Rotating(q) /\ q.new = Nil
        /\ q.user = req[r].user /\ s \in SessionsOf(q.user) /\ s \in Sids
    BY <1>1, <1>2, <1>4, Facts DEF SameData, RequestSound, Locks, Rotating
  <1>7. QED
    BY <1>1, <1>3, <1>4, <1>5, <1>6, LockKeeps

\* A rotation locks its session alone, since it held nothing before.
LEMMA RevokeKeeps ==
    ASSUME SystemInv, NEW r \in Reqs, Revoke(r)
    PROVE  SystemInv'
  <1>1. PICK pc \in {"revoked", "commit"} :
           Goto(r, pc) /\ (pc = "revoked" => req[r].op = "refresh")
                       /\ (pc = "commit" => req[r].op # "refresh")
    BY DEF Revoke
  <1> DEFINE q == [req[r] EXCEPT !.pc = pc]
  <1>2. /\ req[r].pc = "revoke" /\ req[r].new = Nil /\ req[r].at \in Time
        /\ req[r].sid \in Sids /\ req[r].sid \in SessionsOf(req[r].user)
    BY Facts DEF Revoke, At, RequestSound, Request
  <1>3. Become(r, q)
    BY <1>1, GotoBecomes DEF SystemInv
  <1>4. q \in Request /\ q.pc = pc /\ SameData(q, req[r])
    BY Facts, MovedFields DEF Places, PreCommit
  <1>5. UpdateRevoked(r, req[r].sid, req[r].at)
        /\ UNCHANGED <<clock, nextSid, users, sess, ulocks, cache, issued>>
    BY DEF Revoke
  <1>6. \A t \in Sids : ~HeldBy(r, t)
    BY <1>2, Facts DEF LocksFor, Locks
  <1> HIDE DEF q
  <1>7. /\ RequestSound(q) /\ Locks(q) /\ q.new = Nil /\ q.sid = req[r].sid
        /\ q.user = req[r].user
    BY <1>1, <1>2, <1>4, Facts DEF SameData, RequestSound, Locks
  <1>8. QED
    BY <1>2, <1>3, <1>4, <1>5, <1>6, <1>7, LockKeeps

\* revoke_all_sessions locks the rows it selected.
LEMMA WriteAllKeeps ==
    ASSUME SystemInv, NEW r \in Reqs, WriteAll(r)
    PROVE  SystemInv'
  <1> DEFINE s == FirstByPk(req[r].todo)
             q == [req[r] EXCEPT !.todo = req[r].todo \ {s}]
             p == Writing(q)
  <1>1. /\ req[r].pc = "write_all" /\ req[r].new = Nil /\ req[r].at \in Time
        /\ req[r].todo \in SUBSET Sids /\ req[r].todo # {}
        /\ req[r].todo \subseteq SessionsOf(req[r].user)
    BY Facts DEF WriteAll, At, RequestSound, Request
  <1>2. s \in req[r].todo
    BY <1>1, FirstByPkIn
  <1>3. Become(r, p)
    BY Facts DEF WriteAll, Request
  <1>4. UpdateRevoked(r, s, req[r].at)
        /\ UNCHANGED <<clock, nextSid, users, sess, ulocks, cache, issued>>
    BY DEF WriteAll
  <1> HIDE DEF s
  <1>5. /\ q \in Request /\ q.op = req[r].op /\ q.user = req[r].user /\ q.sid = req[r].sid
        /\ q.new = Nil /\ q.purge = req[r].purge /\ q.target = req[r].target
        /\ q.todo = req[r].todo \ {s}
    BY <1>1, Facts DEF Request
  <1> HIDE DEF q
  <1>6. /\ p \in Request /\ SameData(p, q)
        /\ \/ p.pc = "write_all" /\ q.todo # {}
           \/ p.pc = "purge" /\ q.purge # {} /\ q.op \in {"change", "delete"}
           \/ p.pc = "commit"
    BY <1>5, WritingFields
  <1> HIDE DEF p
  <1>7. /\ RequestSound(p) /\ Locks(p) /\ ~Rotating(p) /\ p.new = Nil
        /\ p.user = req[r].user /\ s \in SessionsOf(p.user) /\ s \in Sids
    BY <1>1, <1>2, <1>5, <1>6, Facts DEF SameData, RequestSound, Locks, Rotating
  <1>8. QED
    BY <1>1, <1>3, <1>4, <1>6, <1>7, LockKeeps

\* A lock on users is not one on sessions.
LEMMA WriteUserKeeps ==
    ASSUME SystemInv, NEW r \in Reqs, WriteUser(r)
    PROVE  SystemInv'
  <1>1. PICK pc \in {"list_active", "commit"} : Goto(r, pc)
    BY DEF WriteUser
  <1> DEFINE q == [req[r] EXCEPT !.pc = pc]
  <1>2. Become(r, q)
    BY <1>1, GotoBecomes DEF SystemInv
  <1>3. q \in Request /\ q.pc = pc /\ SameData(q, req[r])
    BY Facts, MovedFields DEF Places, PreCommit
  <1> HIDE DEF q
  <1>4. req[r].new = Nil /\ ~Locks(req[r])
    BY Facts DEF WriteUser, RequestSound, Locks
  <1>5. RequestSound(q) /\ LocksFor(r, q) /\ q.new = Nil
    BY <1>3, <1>4, Facts DEF WriteUser, SameData, RequestSound, LocksFor, Rotating
  <1>6. req'[r] = q
    BY <1>2 DEF Become, SystemInv, TypeOK
  <1>7. UNCHANGED <<clock, nextSid, users, sess, locks, cache, issued>>
    BY DEF WriteUser
  <1>8. RequestSound(req[r])' /\ LocksFor(r, req[r])'
    BY <1>5, <1>6, <1>7 DEF RequestSound, LocksFor, HeldBy, SessionsOf, Stored
  <1>9. StoreTypeOK' /\ TokensSound' /\ issued' \subseteq Sids
    BY <1>7 DEF WriteUser, SystemInv, TypeOK, StoreTypeOK, TokensSound, Stored, cache
  <1>10. /\ \A p \in Reqs \ {r}, s \in Sids : HeldBy(p, s)' <=> HeldBy(p, s)
         /\ \A s \in Sids : Stored(s)' <=> Stored(s)
    BY <1>7 DEF HeldBy, Stored
  <1>11. QED
    BY <1>2, <1>3, <1>5, <1>7, <1>8, <1>9, <1>10, SystemStep DEF Become
-----------------------------------------------------------------------------
(* Commits and rollbacks *)

\* After a commit or a rollback r holds no row, and the others what they held.
LEMMA UnlockedFields ==
    ASSUME SystemInv, NEW r \in Reqs, locks' = Unlocked(r)
    PROVE  /\ locks' \in [Sids -> Lock \cup {Nil}]
           /\ \A s \in Sids : ~HeldBy(r, s)'
           /\ \A p \in Reqs \ {r}, s \in Sids : HeldBy(p, s)' <=> HeldBy(p, s)
  BY DEF Unlocked, HeldBy, SystemInv, TypeOK, StoreTypeOK, Lock

\* A commit keeps every row and changes at most its revoked_at.
LEMMA StampedFields ==
    ASSUME SystemInv, NEW r \in Reqs
    PROVE  /\ Stamped(r) \in [Sids -> Row \cup {Nil}]
           /\ \A s \in Sids : /\ Stamped(r)[s] = Nil <=> sess[s] = Nil
                              /\ sess[s] # Nil => Stamped(r)[s].user = sess[s].user
  <1>1. \A s \in Sids : sess[s] # Nil => sess[s] \in Row
    BY DEF SystemInv, TypeOK, StoreTypeOK
  <1>2. ASSUME NEW s \in Sids, HeldBy(r, s) PROVE locks[s].at \in Time
    BY <1>2 DEF HeldBy, SystemInv, TypeOK, StoreTypeOK, Lock
  <1>3. ASSUME NEW s \in Sids, HeldBy(r, s), sess[s] # Nil
        PROVE  /\ [sess[s] EXCEPT !.revoked = locks[s].at] \in Row
               /\ [sess[s] EXCEPT !.revoked = locks[s].at].user = sess[s].user
    BY <1>1, <1>2, <1>3 DEF Row
  <1>4. ASSUME NEW s \in Sids
        PROVE  /\ Stamped(r)[s] \in Row \cup {Nil}
               /\ Stamped(r)[s] = Nil <=> sess[s] = Nil
               /\ sess[s] # Nil => Stamped(r)[s].user = sess[s].user
    <2>1. CASE HeldBy(r, s) /\ sess[s] # Nil
      <3>1. Stamped(r)[s] = [sess[s] EXCEPT !.revoked = locks[s].at]
        BY <2>1 DEF Stamped
      <3>2. QED
        BY <1>3, <2>1, <3>1, NilAssumption
    <2>2. CASE ~(HeldBy(r, s) /\ sess[s] # Nil)
      <3>1. Stamped(r)[s] = sess[s]
        BY <2>2 DEF Stamped
      <3>2. QED
        BY <1>1, <3>1
    <2>3. QED
      BY <2>1, <2>2
  <1>5. QED
    BY <1>4 DEF Stamped

\* A commit without an insertion, or a rollback: no row appears or goes.
LEMMA PublishKeeps ==
    ASSUME SystemInv, NEW r \in Reqs, locks' = Unlocked(r),
           sess' \in [Sids -> Row \cup {Nil}],
           \A s \in Sids : /\ sess'[s] = Nil <=> sess[s] = Nil
                           /\ sess[s] # Nil => sess'[s].user = sess[s].user,
           users' \in [Users -> [status : Statuses, deleted : BOOLEAN]],
           ulocks' \in [Users -> Reqs \cup {Nil}],
           UNCHANGED <<clock, nextSid, cache, issued>>,
           NEW q \in Request, Become(r, q), q.new = Nil, RequestSound(q), ~Rotating(q)
    PROVE  SystemInv'
  <1>1. req'[r] = q
    BY DEF SystemInv, TypeOK, Become
  <1>2. \A u : SessionsOf(u)' = SessionsOf(u)
    BY DEF SessionsOf
  <1>3. \A s \in Sids : Stored(s)' <=> Stored(s)
    BY DEF Stored
  <1>4. RequestSound(req[r])'
    BY <1>1, <1>2, <1>3 DEF RequestSound
  <1>5. LocksFor(r, req[r])'
    BY <1>1, UnlockedFields DEF LocksFor, Rotating
  <1>6. StoreTypeOK' /\ issued' \subseteq Sids
    BY UnlockedFields DEF SystemInv, TypeOK, StoreTypeOK, cache
  <1>7. TokensSound'
    BY <1>3 DEF SystemInv, TypeOK, StoreTypeOK, TokensSound, GraceEntry, cache
  <1>8. QED
    BY <1>3, <1>4, <1>5, <1>6, <1>7, UnlockedFields, SystemStep DEF Become, Stored

\* The commit of logout, logout_all and a breach.
LEMMA CommitRevocationsKeeps ==
    ASSUME SystemInv, NEW r \in Reqs, CommitRevocations(r)
    PROVE  SystemInv'
  <1> DEFINE q == Purging(req[r])
  <1>1. Become(r, q) /\ locks' = Unlocked(r) /\ sess' = Stamped(r)
        /\ UNCHANGED <<clock, nextSid, users, ulocks, cache, issued>>
    BY DEF CommitRevocations, PublishSessions
  <1>2. req[r].op \notin {"change", "delete"} /\ req[r].new = Nil
    BY DEF CommitRevocations
  <1>3. q \in Request /\ (q = Idle \/ (q.pc = "purge" /\ req[r].purge # {} /\ SameData(q, req[r])))
    BY <1>2, Facts, PurgingFields
  <1> HIDE DEF q
  <1>4. RequestSound(q) /\ ~Rotating(q) /\ q.new = Nil
    <2>1. CASE q = Idle
      BY <2>1, IdleFields, OpsAssumption DEF RequestSound, Rotating, AllOps
    <2>2. CASE q.pc = "purge" /\ req[r].purge # {} /\ SameData(q, req[r])
      BY <1>2, <2>2, Facts DEF CommitRevocations, At, SameData, RequestSound, Rotating
    <2>3. QED
      BY <1>3, <2>1, <2>2
  <1>5. users' \in [Users -> [status : Statuses, deleted : BOOLEAN]]
        /\ ulocks' \in [Users -> Reqs \cup {Nil}]
    BY <1>1 DEF SystemInv, TypeOK, StoreTypeOK
  <1>6. QED
    BY <1>1, <1>3, <1>4, <1>5, StampedFields, PublishKeeps

\* The commit of change_status and delete_user.
LEMMA CommitUserKeeps ==
    ASSUME SystemInv, NEW r \in Reqs, CommitUser(r)
    PROVE  SystemInv'
  <1> DEFINE q == [req[r] EXCEPT !.pc = "uncache_user"]
  <1>1. locks' = Unlocked(r) /\ sess' = Stamped(r) /\ ulocks' = UnlockedUsers(r)
        /\ UNCHANGED <<clock, nextSid, cache, issued>>
    BY DEF CommitUser, PublishSessions
  <1>2. Become(r, q)
    BY GotoBecomes DEF CommitUser, SystemInv
  <1>3. q \in Request /\ q.pc = "uncache_user" /\ SameData(q, req[r])
    BY Facts, MovedFields DEF Places, PostCommit
  <1> HIDE DEF q
  <1>4. /\ req[r].op \in {"change", "delete"} /\ req[r].new = Nil
        /\ req[r].user \in Users
        /\ req[r].op = "change" => req[r].target \in Statuses
    BY Facts DEF CommitUser, At, RequestSound, Request
  <1>5. RequestSound(q) /\ ~Rotating(q) /\ q.new = Nil
    BY <1>3, <1>4, Facts DEF CommitUser, At, SameData, RequestSound, Rotating
  <1>6. Updated(req[r]) \in [status : Statuses, deleted : BOOLEAN]
    <2>1. users[req[r].user] \in [status : Statuses, deleted : BOOLEAN]
      BY <1>4 DEF SystemInv, TypeOK, StoreTypeOK
    <2>2. QED
      BY <1>4, <2>1 DEF Updated
  <1>7. users' \in [Users -> [status : Statuses, deleted : BOOLEAN]]
    BY <1>4, <1>6 DEF CommitUser, SystemInv, TypeOK, StoreTypeOK
  <1>8. ulocks' \in [Users -> Reqs \cup {Nil}]
    BY <1>1 DEF UnlockedUsers, SystemInv, TypeOK, StoreTypeOK
  <1>9. QED
    BY <1>1, <1>2, <1>3, <1>5, <1>7, <1>8, StampedFields, PublishKeeps

\* A rollback gives the locks back and changes no row.
LEMMA DbErrorKeeps ==
    ASSUME SystemInv, NEW r \in Reqs, DbError(r)
    PROVE  SystemInv'
  <1>1. /\ locks' = Unlocked(r) /\ ulocks' = UnlockedUsers(r) /\ Become(r, Idle)
        /\ UNCHANGED <<clock, nextSid, users, sess, cache, issued>>
    BY DEF DbError, Rollback, Return
  <1>2. Idle \in Request /\ RequestSound(Idle) /\ ~Rotating(Idle) /\ Idle.new = Nil
    BY IdleFields, OpsAssumption DEF RequestSound, Rotating, AllOps
  <1>3. ulocks' \in [Users -> Reqs \cup {Nil}]
    BY <1>1 DEF UnlockedUsers, SystemInv, TypeOK, StoreTypeOK
  <1>4. /\ users' \in [Users -> [status : Statuses, deleted : BOOLEAN]]
        /\ sess' \in [Sids -> Row \cup {Nil}]
    BY <1>1 DEF SystemInv, TypeOK, StoreTypeOK
  <1>5. QED
    BY <1>1, <1>2, <1>3, <1>4, PublishKeeps
\* The inserted row, of a login or of a rotation.
LEMMA NewRowFields ==
    ASSUME SystemInv, NEW r \in Reqs, At(r, "commit"), req[r].new # Nil
    PROVE  NewRow(req[r]) \in Row /\ NewRow(req[r]).user = req[r].user
  <1>1. /\ req[r].user \in Users /\ req[r].at \in Time /\ req[r].sid \in Sids \cup {Nil}
        /\ req[r].op # "login" => req[r].sid \in Sids /\ Stored(req[r].sid)
    BY Facts DEF At, RequestSound, Request, SessionsOf, Stored
  <1>2. req[r].op # "login" => sess[req[r].sid].expires \in Time
    BY <1>1 DEF SystemInv, TypeOK, StoreTypeOK, Stored, Row
  <1> DEFINE expires == IF req[r].op = "login" THEN req[r].at + LIFETIME
                        ELSE sess[req[r].sid].expires
  <1>3. expires \in Time
    BY <1>1, <1>2, NatAssumption DEF Time
  <1> HIDE DEF expires
  <1>4. NewRow(req[r]) = [user |-> req[r].user, created |-> req[r].at, revoked |-> Nil,
                          prev |-> req[r].sid, expires |-> expires]
    BY DEF NewRow, expires
  <1>5. QED
    BY <1>1, <1>3, <1>4 DEF Row

\* The commit of a login or a rotation makes one row appear, under its own id.
LEMMA CommitNewKeeps ==
    ASSUME SystemInv, NEW r \in Reqs, CommitNew(r)
    PROVE  SystemInv'
  <1> DEFINE n == req[r].new
             row == NewRow(req[r])
             q == [req[r] EXCEPT !.pc = "warm"]
  <1>1. At(r, "commit") /\ req[r].pc = "commit" /\ n # Nil /\ n \in Sids /\ ~Stored(n)
    BY Facts DEF CommitNew, At, Request, SystemInv, IdsFresh
  <1>2. row \in Row /\ row # Nil /\ row.user = req[r].user
    BY <1>1, NewRowFields, NilAssumption
  <1>3. /\ sess' = [Stamped(r) EXCEPT ![n] = row] /\ locks' = Unlocked(r)
        /\ UNCHANGED <<clock, nextSid, users, ulocks, cache, issued>>
    BY DEF CommitNew, PublishWithInsert
  <1>4. Become(r, q)
    BY GotoBecomes DEF CommitNew, SystemInv
  <1>5. q \in Request /\ q.pc = "warm" /\ SameData(q, req[r])
    BY Facts, MovedFields DEF Places, PostCommit
  <1> HIDE DEF q, n, row
  <1>6. sess' \in [Sids -> Row \cup {Nil}] /\ sess'[n] = row
        /\ \A s \in Sids \ {n} : sess'[s] = Stamped(r)[s]
    BY <1>1, <1>2, <1>3, StampedFields
  <1>7. \A s \in Sids : /\ Stored(s) => Stored(s)' /\ sess'[s].user = sess[s].user
                        /\ Stored(s)' /\ ~Stored(s) => s = n
    <2> SUFFICES ASSUME NEW s \in Sids
                 PROVE  /\ Stored(s) => Stored(s)' /\ sess'[s].user = sess[s].user
                        /\ Stored(s)' /\ ~Stored(s) => s = n
      OBVIOUS
    <2>1. CASE s = n
      BY <1>1, <2>1
    <2>2. CASE s # n
      BY <1>6, <2>2, StampedFields DEF Stored
    <2>3. QED
      BY <2>1, <2>2
  <1>8. sess'[n] # Nil
    BY <1>2, <1>6
  <1>9. \A u : SessionsOf(u) \subseteq SessionsOf(u)'
    BY <1>7 DEF SessionsOf, Stored
  <1>10. req'[r] = q
    BY <1>4 DEF SystemInv, TypeOK, Become
  <1>11. RequestSound(req[r])'
    <2>1. q.new = n /\ q.pc = "warm" /\ q.user = req[r].user /\ q.sid = req[r].sid
          /\ q.todo = req[r].todo /\ q.op = req[r].op /\ q.target = req[r].target
      BY <1>5 DEF SameData, n
    <2>2. QED
      BY <1>1, <1>8, <1>9, <1>10, <2>1, Facts DEF At, n, RequestSound, Stored
  <1>12. LocksFor(r, req[r])'
    BY <1>3, <1>5, <1>10, UnlockedFields DEF LocksFor, Rotating
  <1>13. StoreTypeOK' /\ issued' \subseteq Sids
    BY <1>3, <1>6, UnlockedFields DEF SystemInv, TypeOK, StoreTypeOK, cache
  <1>14. TokensSound'
    BY <1>3, <1>7 DEF SystemInv, TypeOK, StoreTypeOK, TokensSound, GraceEntry, cache
  <1>15. nextSid' = nextSid /\ q.new = n /\ q.pc # "commit"
    BY <1>3, <1>5 DEF SameData, n
  <1>16. QED
    BY <1>1, <1>3, <1>4, <1>5, <1>7, <1>11, <1>12, <1>13, <1>14, <1>15, UnlockedFields,
       SystemStep DEF Become, n

-----------------------------------------------------------------------------
(* The environment, and all of it together *)

\* What speaks of the requests does not look at the clock or the cache.
LEMMA QuietKeeps ==
    ASSUME SystemInv, UNCHANGED <<nextSid, db, req, issued>>, StoreTypeOK',
           \A s \in Sids : gkey'[s] \in {gkey[s], Nil}
    PROVE  SystemInv'
  <1>1. TypeOK' /\ IdsFresh' /\ LocksSound'
    BY DEF SystemInv, TypeOK, IdsFresh, LocksSound, LocksFor, HeldBy, SessionsOf, Stored, At, db
  <1>2. TokensSound'
    BY DEF SystemInv, TokensSound, Stored, db
  <1>3. \A r \in Reqs : RequestSound(req[r])'
    BY DEF SystemInv, RequestSound, SessionsOf, Stored, db
  <1>4. QED
    BY <1>1, <1>2, <1>3 DEF SystemInv

\* Expired keys go, nothing else.
LEMMA TickKeeps ==
    ASSUME SystemInv, Tick, UNCHANGED <<req, issued>>
    PROVE  SystemInv'
  <1>1. StoreTypeOK'
    BY DEF Tick, SystemInv, TypeOK, StoreTypeOK, Time, db
  <1>2. \A s \in Sids : gkey'[s] \in {gkey[s], Nil}
    BY DEF Tick
  <1>3. QED
    BY <1>1, <1>2, QuietKeeps DEF Tick

\* All keys go, nothing else.
LEMMA CacheOutageKeeps ==
    ASSUME SystemInv, CacheOutage, UNCHANGED <<req, issued>>
    PROVE  SystemInv'
  <1>1. StoreTypeOK' /\ \A s \in Sids : gkey'[s] = Nil
    BY DEF CacheOutage, NoSessionKeys, NoUserKeys, SystemInv, TypeOK, StoreTypeOK, db
  <1>2. QED
    BY <1>1, QuietKeeps DEF CacheOutage

\* Nothing happens.
LEMMA StutterKeeps ==
    ASSUME SystemInv, UNCHANGED vars
    PROVE  SystemInv'
  <1>1. StoreTypeOK' /\ \A s \in Sids : gkey'[s] = gkey[s]
    BY DEF vars, storeVars, db, cache, SystemInv, TypeOK, StoreTypeOK
  <1>2. QED
    BY <1>1, QuietKeeps DEF vars, storeVars

\* The invariant holds of an empty store.
LEMMA InitSound == Init => SystemInv
  <1> SUFFICES ASSUME Init PROVE SystemInv
    OBVIOUS
  <1>1. StoreTypeOK
    <2>1. [status : Statuses, deleted : {FALSE}] \subseteq [status : Statuses, deleted : BOOLEAN]
      OBVIOUS
    <2>2. users \in [Users -> [status : Statuses, deleted : BOOLEAN]]
      BY <2>1 DEF Init, StoreInit
    <2>3. clock \in Time /\ nextSid \in Nat \ {0}
      BY DEF Init, StoreInit, Time
    <2>4. fallback \in BOOLEAN
      BY Zenon DEF Init, StoreInit
    <2>5. sess \in [Sids -> Row \cup {Nil}] /\ locks \in [Sids -> Lock \cup {Nil}]
          /\ ulocks \in [Users -> Reqs \cup {Nil}]
      BY DEF Init, StoreInit
    <2>6. skey \in [Sids -> SessionEntry \cup {Nil}] /\ gkey \in [Sids -> GraceEntry \cup {Nil}]
          /\ ukey \in [Users -> UserEntry \cup {Nil}]
      BY DEF Init, StoreInit
    <2>7. QED
      BY <2>2, <2>3, <2>4, <2>5, <2>6 DEF StoreTypeOK
  <1>2. TypeOK
    BY <1>1, IdleFields DEF Init, AuthInit, TypeOK
  <1>3. \A r \in Reqs : req[r] = Idle
    BY DEF Init, AuthInit
  <1>4. IdsFresh /\ TokensSound
    BY <1>3, IdleFields DEF Init, StoreInit, AuthInit, IdsFresh, TokensSound, Stored
  <1>5. LocksSound
    BY <1>3, IdleFields DEF Init, StoreInit, LocksSound, LocksFor, HeldBy, Rotating
  <1>6. \A r \in Reqs : RequestSound(req[r])
    BY <1>3, IdleFields, OpsAssumption DEF RequestSound, AllOps
  <1>7. QED
    BY <1>2, <1>4, <1>5, <1>6 DEF SystemInv

\* Every step keeps the invariant.
LEMMA NextKeeps ==
    ASSUME SystemInv, Next
    PROVE  SystemInv'
  <1>1. ASSUME NEW r \in Reqs, Step(r) PROVE SystemInv'
    <2>1. CASE AuthStep(r)
      BY <2>1, ListSessionsKeeps, UncacheEvictedKeeps, ReplayKeeps, CheckUserKeeps,
         UncacheRotatedKeeps, CommitNewKeeps, WarmKeeps, SetGraceKeeps, ListActiveKeeps,
         SelectAllKeeps, CommitRevocationsKeeps, PurgeKeeps, PurgeGraceKeeps DEF AuthStep
    <2>2. CASE GateStep(r)
      BY <2>2, ReadSessionKeeps, WarmSessionKeeps, ReadUserCacheKeeps, ReadUserKeeps,
         WarmUserKeeps, HandleKeeps DEF GateStep
    <2>3. CASE StatusStep(r)
      BY <2>3, SelectStatusKeeps, CommitUserKeeps, UncacheUserKeeps DEF StatusStep
    <2>4. QED
      BY <1>1, <2>1, <2>2, <2>3 DEF Step
  <1>2. ASSUME NEW r \in Reqs, Locking(r) PROVE SystemInv'
    BY <1>2, EvictKeeps, RevokeKeeps, WriteAllKeeps, WriteUserKeeps DEF Locking, LockStep
  <1>3. CASE Environment
    BY <1>3, TickKeeps, CacheOutageKeeps, DbErrorKeeps DEF Environment
  <1>4. QED
    BY <1>1, <1>2, <1>3, ArrivalKeeps, DbErrorKeeps DEF Next, DeadlockVictim

-----------------------------------------------------------------------------
\* Between any two awaits of any request, under every interleaving, rollback
\* and outage: requests only name stored sessions of the account they act for,
\* hold row locks only on those and only inside their transaction
\* (unit_of_work.py), insert under ids of their own, and neither a token nor a
\* grace entry names a session that is not committed.
THEOREM SystemInvariant == Spec => []SystemInv
  <1>1. SystemInv /\ [Next]_vars => SystemInv'
    BY NextKeeps, StutterKeeps
  <1>2. QED
    BY <1>1, InitSound, PTL DEF Spec

\* The tables, the cache and the requests keep their types.
THEOREM TypeCorrect == Spec => []TypeOK
  <1>1. SystemInv => TypeOK
    BY DEF SystemInv
  <1>2. QED
    BY <1>1, SystemInvariant, PTL
=============================================================================
