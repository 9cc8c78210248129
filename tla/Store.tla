------------------------------- MODULE Store --------------------------------
(***************************************************************************)
(* The state every request of the API shares: the PostgreSQL tables        *)
(* `users` and `sessions` (src/modules/*/repository.py, *models.py), the   *)
(* cache behind CacheClient (src/core/cache.py) and the clock.             *)
(*                                                                         *)
(* A request runs in one AsyncSession, hence in one READ COMMITTED         *)
(* transaction: a SELECT sees the committed rows, an UPDATE takes the row  *)
(* lock and is invisible until the commit, and an UPDATE of a row another  *)
(* transaction has locked waits and then overwrites the columns it sets.   *)
(* The only column of `sessions` ever updated is revoked_at, so a row lock *)
(* and the uncommitted write it guards are one record.                     *)
(*                                                                         *)
(* Session ids are numbered in the order of created_at; PkRank is their    *)
(* order as primary keys (random UUIDs).                                   *)
(***************************************************************************)
EXTENDS Integers, FiniteSets, FiniteSetsExt

CONSTANTS
    Users, Reqs,            \* accounts; requests that can be in flight at once
    MaxSid,                 \* bound: sessions ever inserted
    MaxClock,               \* bound: ticks of the clock
    LIFETIME,               \* REFRESH_TOKEN_EXPIRE_DAYS
    ACCESS,                 \* ACCESS_TOKEN_EXPIRE_MINUTES
    GRACE,                  \* _GRACE_WINDOW_MS
    CACHE_TTL,              \* the 3600 s of get_current_user's cache fills
    DEVICE_LIMIT,           \* the 5 of AuthService.authenticate
    PkRank,                 \* [1..MaxSid -> Nat], the order of the primary keys
    Nil,                    \* SQL NULL / a missing row or key / nobody
    Forever                 \* expiry of a fallback entry stored without one

Sids == 1 .. MaxSid
Statuses == {"pending", "active", "suspended", "banned"}

ASSUME NatAssumption ==
    /\ {MaxSid, MaxClock, ACCESS} \subseteq Nat
    /\ {LIFETIME, GRACE, CACHE_TTL, DEVICE_LIMIT} \subseteq Nat \ {0}
ASSUME ReqsAssumption == IsFiniteSet(Reqs)
ASSUME PkAssumption ==
    /\ PkRank \in [Sids -> Nat]
    /\ \A s, t \in Sids : PkRank[s] = PkRank[t] => s = t

VARIABLES
    clock,
    users,          \* committed rows of `users`
    sess,           \* committed rows of `sessions`, Nil where there is none
    nextSid,        \* the next session id
    locks,          \* row locks of `sessions`, with the uncommitted revoked_at
    ulocks,         \* row locks of `users`
    skey,           \* cache keys session:{id}
    gkey,           \* cache keys grace:{id}
    ukey,           \* cache keys user:{id}
    fallback        \* CacheClient._fallback_active

db == <<users, sess, locks, ulocks>>
cache == <<skey, gkey, ukey, fallback>>
storeVars == <<clock, nextSid, db, cache>>

Time == Nat
Row == [user : Users, created : Time, expires : Time,
        revoked : Time \cup {Nil}, prev : Sids \cup {Nil}]
Until == Time \cup {Forever}
SessionEntry == [revoked : Time \cup {Nil}, until : Until]
GraceEntry == [pair : Sids, until : Until]
UserEntry == [status : Statuses, until : Until]
Lock == [by : Reqs, at : Time]

\* Nil is none of the values it stands beside.
ASSUME NilAssumption ==
    /\ Nil \notin Int \cup Users \cup Reqs \cup Statuses
    /\ Nil \notin Row \cup Lock \cup SessionEntry \cup GraceEntry \cup UserEntry
    /\ Forever \notin Int /\ Forever # Nil

StoreTypeOK ==
    /\ clock \in Time
    /\ users \in [Users -> [status : Statuses, deleted : BOOLEAN]]
    /\ sess \in [Sids -> Row \cup {Nil}]
    /\ nextSid \in Nat \ {0}
    /\ locks \in [Sids -> Lock \cup {Nil}]
    /\ ulocks \in [Users -> Reqs \cup {Nil}]
    /\ skey \in [Sids -> SessionEntry \cup {Nil}]
    /\ gkey \in [Sids -> GraceEntry \cup {Nil}]
    /\ ukey \in [Users -> UserEntry \cup {Nil}]
    /\ fallback \in BOOLEAN

StoreInit ==
    /\ clock = 0
    /\ users \in [Users -> [status : Statuses, deleted : {FALSE}]]
    /\ sess = [s \in Sids |-> Nil]
    /\ nextSid = 1
    /\ locks = [s \in Sids |-> Nil]
    /\ ulocks = [u \in Users |-> Nil]
    /\ skey = [s \in Sids |-> Nil]
    /\ gkey = [s \in Sids |-> Nil]
    /\ ukey = [u \in Users |-> Nil]
    /\ fallback = FALSE

-----------------------------------------------------------------------------
(* The sessions table: reads *)

Revoked(row) == row.revoked # Nil
Expired(row) == clock > row.expires
\* Faulty variant: is_active without is_revoked.
Unexpired(row) == ~Expired(row)

Active(row) == ~Revoked(row) /\ ~Expired(row)

SessionsOf(u) == {s \in Sids : sess[s] # Nil /\ sess[s].user = u}

\* get_active_sessions_for_user, whose order (created_at) is the order of ids
ActiveSessions(u) == {s \in SessionsOf(u) : ~Revoked(sess[s]) /\ sess[s].expires > clock}

\* Faulty variant: revoke_all_sessions without its filter on user_id.
NonRevokedOfAll(u) == {s \in Sids : sess[s] # Nil /\ ~Revoked(sess[s])}

\* Faulty variant: the most recent session is kept.
NonRevokedButNewest(u) ==
    {s \in SessionsOf(u) : ~Revoked(sess[s]) /\ \E t \in SessionsOf(u) : t > s}

\* the SELECT of revoke_all_sessions: expired rows included
NonRevoked(u) == {s \in SessionsOf(u) : ~Revoked(sess[s])}

\* JWT expiry of the refresh and access tokens issued with a session.
RefreshExp(row) == IF row.created > row.expires THEN row.created ELSE row.expires
AccessExp(row) == row.created + ACCESS

(* The sessions table: writes of transaction r *)

\* update_session after UserSession.revoke() at time `at`: it waits for the lock.
UpdateRevoked(r, s, at) ==
    /\ locks[s] = Nil
    /\ locks' = [locks EXCEPT ![s] = [by |-> r, at |-> at]]

HeldBy(r, s) == locks[s] # Nil /\ locks[s].by = r

Unlocked(r) == [s \in Sids |-> IF HeldBy(r, s) THEN Nil ELSE locks[s]]
UnlockedUsers(r) == [u \in Users |-> IF ulocks[u] = r THEN Nil ELSE ulocks[u]]

\* Faulty variant: a row revoked meanwhile is written back as it was read.
StampedStale(r) ==
    [s \in Sids |-> IF HeldBy(r, s) /\ sess[s] # Nil
                    THEN [sess[s] EXCEPT !.revoked = IF @ = Nil THEN locks[s].at ELSE Nil]
                    ELSE sess[s]]

Stamped(r) ==
    [s \in Sids |-> IF HeldBy(r, s) /\ sess[s] # Nil
                    THEN [sess[s] EXCEPT !.revoked = locks[s].at] ELSE sess[s]]

\* UnitOfWork.commit of the session writes of r.
PublishSessions(r) == sess' = Stamped(r) /\ locks' = Unlocked(r)

\* Faulty variant: the new session is committed, the revocation is not.
PublishInsertOnly(r, new, row) ==
    sess' = [sess EXCEPT ![new] = row] /\ locks' = Unlocked(r)

\* ... when r has also inserted a row.
PublishWithInsert(r, new, row) ==
    sess' = [Stamped(r) EXCEPT ![new] = row] /\ locks' = Unlocked(r)

\* Faulty variant: the session is not closed after an error.
RollbackForgotten(r) == UNCHANGED <<users, sess, locks, ulocks>>

\* The AsyncSession is closed without a commit.
Rollback(r) ==
    /\ locks' = Unlocked(r)
    /\ ulocks' = UnlockedUsers(r)
    /\ UNCHANGED <<users, sess>>

-----------------------------------------------------------------------------
(* The cache *)

NoSessionKeys == [s \in Sids |-> Nil]
NoUserKeys == [u \in Users |-> Nil]

\* Redis refuses SET ... EX 0 with an error, and CacheClient.set answers any
\* RedisError by switching to its (empty) in-memory store for good; there a
\* zero ttl means no expiry.
Switches(ttl) == ttl = 0 /\ ~fallback
UntilOf(ttl) == IF ttl = 0 THEN Forever ELSE clock + ttl

SetSessionKey(s, revoked, ttl) ==
    LET keys == IF Switches(ttl) THEN NoSessionKeys ELSE skey
    IN /\ skey' = [keys EXCEPT ![s] = [revoked |-> revoked, until |-> UntilOf(ttl)]]
       /\ gkey' = IF Switches(ttl) THEN NoSessionKeys ELSE gkey
       /\ ukey' = IF Switches(ttl) THEN NoUserKeys ELSE ukey
       /\ fallback' = (fallback \/ ttl = 0)

DeleteSessionKey(s) ==
    skey' = [skey EXCEPT ![s] = Nil] /\ UNCHANGED <<gkey, ukey, fallback>>

Lapsed(e, now) == e # Nil /\ e.until # Forever
                  /\ (IF fallback THEN now > e.until ELSE now >= e.until)

-----------------------------------------------------------------------------
(* The environment *)

\* Time passes; a key whose ttl has run out is no longer returned by get.
Tick ==
    /\ clock < MaxClock
    /\ clock' = clock + 1
    /\ skey' = [s \in Sids |-> IF Lapsed(skey[s], clock + 1) THEN Nil ELSE skey[s]]
    /\ gkey' = [s \in Sids |-> IF Lapsed(gkey[s], clock + 1) THEN Nil ELSE gkey[s]]
    /\ ukey' = [u \in Users |-> IF Lapsed(ukey[u], clock + 1) THEN Nil ELSE ukey[u]]
    /\ UNCHANGED <<nextSid, db, fallback>>

\* A command fails with a RedisError: the client keeps to its in-memory store
\* from here on, and what Redis held is out of reach.
CacheOutage ==
    /\ ~fallback /\ fallback' = TRUE
    /\ skey' = NoSessionKeys /\ gkey' = NoSessionKeys /\ ukey' = NoUserKeys
    /\ UNCHANGED <<clock, nextSid, db>>
=============================================================================
