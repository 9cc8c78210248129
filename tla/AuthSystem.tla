----------------------------- MODULE AuthSystem -----------------------------
(***************************************************************************)
(* The API process: AuthService, the authentication gate and the account   *)
(* operations over one database and one cache, any interleaving of the     *)
(* requests in flight, and the faults of the environment.                  *)
(***************************************************************************)
EXTENDS AuthGate, AccountStatus

CONSTANT Faults     \* which of "db" and "cache" may fail in an instance

ASSUME FaultsAssumption == Faults \subseteq {"db", "cache"}

Init == StoreInit /\ AuthInit

Arrival(r) == AuthArrival(r) \/ GateArrival(r) \/ StatusArrival(r)
Step(r) == AuthStep(r) \/ GateStep(r) \/ StatusStep(r)
Locking(r) == LockStep(r) \/ WriteUser(r)

(* PostgreSQL breaks a cycle of row-lock waits by aborting one of its members. *)
WaitsFor(r, q) ==
    \/ At(r, "evict") /\ HeldBy(q, Min(req[r].todo))
    \/ At(r, "revoke") /\ HeldBy(q, req[r].sid)
    \/ At(r, "write_all") /\ HeldBy(q, FirstByPk(req[r].todo))
    \/ req[r].pc \in {"write_status", "write_deleted"} /\ ulocks[req[r].user] = q

Deadlocked(r) ==
    \E S \in SUBSET Reqs : r \in S /\ \A q \in S : /\ \E p \in S : WaitsFor(q, p)
                                               /\ \E p \in S : WaitsFor(p, q)

DeadlockVictim(r) == Deadlocked(r) /\ DbError(r)

Environment ==
    \/ Tick /\ UNCHANGED <<req, issued>>
    \/ "cache" \in Faults /\ CacheOutage /\ UNCHANGED <<req, issued>>
    \/ "db" \in Faults /\ \E r \in Reqs : DbError(r)

Next == Environment \/ \E r \in Reqs : Arrival(r) \/ Step(r) \/ Locking(r) \/ DeadlockVictim(r)

Spec == Init /\ [][Next]_vars

\* A started request is driven on by the event loop, a lock is granted in the
\* order of its queue (so to a waiter that finds it free again and again), and
\* the deadlock detector runs.  Nothing makes clients call or time pass.
Fairness ==
    \A r \in Reqs : /\ WF_vars(Step(r)) /\ SF_vars(Locking(r))
                    /\ WF_vars(DeadlockVictim(r))

FairSpec == Spec /\ Fairness

-----------------------------------------------------------------------------
TypeOK ==
    /\ StoreTypeOK
    /\ req \in [Reqs -> Request]
    /\ issued \subseteq Sids

Stored(s) == sess[s] # Nil

\* What a request in flight may rely on: the rows it names are stored and
\* belong to the user it acts for.
RequestSound(q) ==
    /\ q.pc # "idle" => q.user # Nil
    /\ q.sid # Nil => q.sid \in SessionsOf(q.user)
    /\ q.todo \subseteq SessionsOf(q.user)
    /\ q.pc \in {"user", "revoke", "revoked", "replay", "set_grace", "session_db", "session_warm"}
          => q.sid # Nil
    /\ q.pc \in {"evict", "evicted", "write_all"} => q.todo # {}
    /\ q.pc \in {"purge", "purge_grace"} => q.purge # {}
    /\ q.pc = "user_warm" => q.loaded # Nil
    /\ q.op = "change" => q.target # Nil
    /\ q.pc \in {"list", "evict", "evicted"} => q.op = "login"
    /\ q.pc \in {"user", "revoked"} => q.op = "refresh"
    /\ q.op = "login" => q.sid = Nil
    /\ q.new # Nil => /\ q.op \in {"login", "refresh"}
                      /\ q.pc \in {"commit", "warm", "set_grace"}
                      /\ q.op = "refresh" => q.sid # Nil
    /\ q.pc \in {"warm", "set_grace"} => q.new # Nil /\ Stored(q.new)

\* The id of a session being inserted is its own.
IdsFresh ==
    /\ \A s \in Sids : Stored(s) => s < nextSid
    /\ \A r \in Reqs : req[r].new # Nil => req[r].new < nextSid
    /\ \A r \in Reqs : req[r].new # Nil /\ At(r, "commit") =>
          /\ ~Stored(req[r].new)
          /\ \A q \in Reqs : q # r => req[q].new # req[r].new

\* Where a transaction may hold row locks, and on which rows.
Locks(q) ==
    \/ q.pc \in {"evict", "evicted", "revoked", "write_all", "commit"}
    \/ q.pc \in {"purge", "purge_grace"} /\ q.op \in {"change", "delete"}

\* Request r in state q holds locks only there, on rows of its user; between
\* the revocation and the commit of a rotation, on the rotated session alone.
Rotating(q) == q.pc = "revoked" \/ (q.pc = "commit" /\ q.new # Nil /\ q.op = "refresh")

LocksFor(r, q) ==
    /\ \A s \in Sids : HeldBy(r, s) => Locks(q) /\ s \in SessionsOf(q.user)
    /\ Rotating(q) => \A s \in Sids : HeldBy(r, s) <=> s = q.sid

LocksSound == \A r \in Reqs : LocksFor(r, req[r])

\* Tokens and grace entries name stored sessions.
TokensSound ==
    /\ \A s \in issued : Stored(s)
    /\ \A s \in Sids : gkey[s] # Nil => Stored(gkey[s].pair)

\* The inductive invariant: what holds between any two awaits of any request.
SystemInv ==
    /\ TypeOK /\ IdsFresh /\ LocksSound /\ TokensSound
    /\ \A r \in Reqs : RequestSound(req[r])

Successors(s) == {t \in Sids : Stored(t) /\ sess[t].prev = s}
LiveSessions(u) == {s \in SessionsOf(u) : Active(sess[s])}
AllIdle == \A r \in Reqs : At(r, "idle")

\* A rotated session is dead: the parent of every session is stored, revoked,
\* and belongs to the same user and the same chain lifetime ("Atomic rotation",
\* service.py:204).  It takes a split of the one commit, or a lost revocation,
\* to break it.
LineageSound ==
    \A s \in Sids : Stored(s) /\ sess[s].prev # Nil =>
        LET p == sess[s].prev
        IN /\ p # s /\ Stored(p) /\ Revoked(sess[p])
           /\ sess[p].user = sess[s].user /\ sess[p].expires = sess[s].expires

\* Concurrent rotations of one session can fork its chain, but only requests
\* that read the row before the first of them committed: never more successors
\* than requests in flight (refresh_token reads the row, not the cache).
ForkBounded == \A s \in Sids : Cardinality(Successors(s)) <= Cardinality(Reqs)

\* One request at a time, a token is spent once (RTR).
AtMostOneSuccessor == \A s \in Sids : Cardinality(Successors(s)) <= 1

\* A session key is only written for a stored session, and a cached revocation
\* is never wrong: the gate cannot log a live session out (no key survives from
\* a transaction that was rolled back).
CachedSessionSound ==
    \A s \in Sids : skey[s] # Nil =>
        Stored(s) /\ (skey[s].revoked # Nil => Revoked(sess[s]))

\* grace:{s} replays a pair only of a session that a committed rotation put in
\* the place of s, so no retry can hit the breach path before the row is
\* revoked (service.py:249-251).
GraceEntrySound ==
    \A s \in Sids : gkey[s] # Nil =>
        Stored(s) /\ Revoked(sess[s]) /\ gkey[s].pair \in Successors(s)

\* The device limit, one request at a time (service.py:73).
DeviceLimit == \A u \in Users : Cardinality(ActiveSessions(u)) <= DEVICE_LIMIT

\* Concurrent logins overrun the limit by less than their number, and later
\* logins evict the surplus: it does not accumulate.
OverrunBounded ==
    \A u \in Users :
        Cardinality(ActiveSessions(u)) <= DEVICE_LIMIT + Cardinality(Reqs) - 1

\* What get_current_user would answer now to the access token of s.
GateAccepts(s) ==
    /\ s \in issued /\ clock <= AccessExp(sess[s]) /\ ~Expired(sess[s])
    /\ IF skey[s] = Nil THEN ~Revoked(sess[s]) ELSE skey[s].revoked = Nil
    /\ LET u == sess[s].user
       IN IF ukey[u] = Nil THEN ~users[u].deleted /\ users[u].status = "active"
          ELSE ukey[u].status = "active"

\* The gate accepts no token of a revoked session, nor of an account that was
\* suspended, banned or deleted (authentication.py:83-91): true one request at
\* a time, whatever sequence of operations, expiries and outages led there.
\* Excepted is the instant of expiry, which is_expired counts as alive and the
\* SQL of get_active_sessions_for_user as expired, so no purge covers it.
GateHonoursRevocation ==
    AllIdle => \A s \in issued : GateAccepts(s) /\ clock # sess[s].expires =>
        LET u == users[sess[s].user]
        IN ~Revoked(sess[s]) /\ ~u.deleted /\ u.status = "active"

\* A locked-out account has no live session left (users/service.py:157-158).
LockoutEndsSessions ==
    AllIdle => \A u \in Users :
        users[u].deleted \/ LockedOut(users[u].status) => LiveSessions(u) = {}

\* The part of it that concerns accounts: the gate refuses the revoked sessions
\* of a locked-out account, "a momentarily stale user:{id} snapshot cannot keep
\* a revoked user authenticated" (authentication.py:88-91).
GateHonoursLockout ==
    AllIdle => \A s \in issued : GateAccepts(s) /\ Revoked(sess[s]) =>
        LET u == users[sess[s].user] IN ~u.deleted /\ ~LockedOut(u.status)

-----------------------------------------------------------------------------
\* A revoked session never comes back, and rows are never lost or rewritten
\* otherwise, whatever order locks are granted in.
RevocationPermanent ==
    [][\A s \in Sids : Stored(s) =>
          /\ sess'[s] # Nil
          /\ sess'[s] = [sess[s] EXCEPT !.revoked = sess'[s].revoked]
          /\ Revoked(sess[s]) => Revoked(sess'[s])]_vars

\* Only a request acting for the owner revokes a session: a breach or a
\* logout-all on one account leaves every other account alone.
NoCollateral ==
    [][\A s \in Sids : Stored(s) /\ sess'[s] # sess[s] =>
          \E r \in Reqs : At(r, "commit") /\ ~(At(r, "commit"))'
                          /\ req[r].user = sess[s].user]_vars

\* Request r commits a logout-all, or the breach response that runs it.
CommitsLogoutAll(r) == CommitRevocations(r) /\ req[r].op \in {"logout_all", "refresh"}

\* It leaves the user no live session: "all user sessions are revoked
\* atomically" (service.py:139-140), one request at a time.
LogoutAllComplete ==
    [][\A r \in Reqs, u \in Users :
          CommitsLogoutAll(r) /\ u = req[r].user => LiveSessions(u)' = {}]_vars

\* BANNED is a terminal state (test_rtr_and_rbac.py:57).
BannedIsFinal ==
    [][\A u \in Users : users[u].status = "banned" => users'[u].status = "banned"]_vars

\* Account statuses only move along User.transition_to, one request
\* at a time.
StatusMachine ==
    [][\A u \in Users : MayBecome(users[u].status, users'[u].status)]_vars

\* Every request is answered: no wait for a lock is for ever, although
\* authenticate and revoke_all_sessions lock rows in different orders.
Termination == \A r \in Reqs : ~At(r, "idle") ~> At(r, "idle")

\* The sessions table keeps the promise of SessionLedger under every
\* interleaving, rollback and outage: each commit is one of its operations.
Recorded == [s \in Sids |->
    IF sess[s] = Nil THEN Nil
    ELSE [user |-> sess[s].user, prev |-> sess[s].prev,
          expires |-> sess[s].expires, live |-> ~Revoked(sess[s])]]

Ledger == INSTANCE SessionLedger WITH ledger <- Recorded

ASSUME LedgerNilAssumption == Nil \notin Ledger!Entry

ImplementsLedger == Ledger!LedgerSpec
=============================================================================
